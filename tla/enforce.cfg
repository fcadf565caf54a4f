SPECIFICATION Spec
CONSTANTS Users = {u1, u2}
          Acls = {a1, a2}
          DefAcl = a1
          Active = {u1}
          MaxUsed = 2
          MaxQuota = 1
          MaxEvents = 2
          Events = {"create", "save", "kill", "delete", "acl", "aclrm", "hup", "usr1", "usr2",
                    "month", "recount", "badline", "noorig", "noconf", "nolist",
                    "down", "crash"}
CHECK_DEADLOCK FALSE
INVARIANTS TypeOK
PROPERTIES ListsFresh Enforced
