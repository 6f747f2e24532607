CONSTANTS
 Absent = Absent
 a1 = a1
 a2 = a2
 m1 = m1
 Account = {a1, a2}
 MailOf <- Mails
 Actions = {"delete_missing"}
 Selections <- Sel
 Caller = {c1, c2}
 Concurrency = 2
 HistoryLimit = 1
 MaxJobs = 2
 MaxRestarts = 1
SPECIFICATION BatchSpec
INVARIANTS BatchTypeOK Counts OneJob
CHECK_DEADLOCK FALSE
