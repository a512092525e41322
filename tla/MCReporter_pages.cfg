SPECIFICATION Spec
CONSTANTS
    Thread = {t1, t2}
    Proxies <- Backs
    Instances <- Reported
    Clients = {"addr2", "addr3"}
    Name <- Names
    Keys <- Texts
    MaxAsk = 2
    Fault = {"noreporter", "error", "eof"}
INVARIANTS ReporterTypeOK AddressWhole NamesRight RedirectHonest PageTrue LinkFollowed CodecInverse
CHECK_DEADLOCK FALSE
