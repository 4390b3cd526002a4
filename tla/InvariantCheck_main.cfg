\* Every state of four slices of what the schema admits, checked while others write.
SPECIFICATION Spec
CONSTANTS
    t1 = t1
    t2 = t2
    t3 = t3
    t4 = t4
    a1 = a1
    a2 = a2
    j1 = j1
    j2 = j2
    Absent = Absent
    Tasks <- MCTasks
    Attempts <- MCAttempts
    Jobs <- MCJobs
    JobOf <- MCJobOf
    Databases <- MCDatabases
    Writable <- MCWritable
INVARIANT TypeOK
PROPERTY KeepsAudit
