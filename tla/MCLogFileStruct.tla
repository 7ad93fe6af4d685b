--------------------------- MODULE MCLogFileStruct ---------------------------
EXTENDS LogFileStruct, TLC

MCFds == 0..4
====
