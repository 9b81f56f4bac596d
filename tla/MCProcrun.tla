----------------------------- MODULE MCProcrun -----------------------------
(* Services for TLC: the modes of start and stop, the timeouts and the      *)
(* console in such combinations that each pair of modes that interact in    *)
(* serviceMain or serviceStop occurs.                                       *)
EXTENDS Procrun

Config(start, stop, timeout, service, asked) ==
  [start |-> start, stop |-> stop, timeout |-> timeout, service |-> service, asked |-> asked]

MCConfigs == { Config("jvm", "jvm", "finite", TRUE, "nothing"),
               Config("jvm", "system", "zero", TRUE, "nothing"),
               Config("jvm", "exe", "infinite", TRUE, "status"),
               Config("jvm", "none", "zero", FALSE, "dump"),
               Config("exe", "jvm", "infinite", FALSE, "dump"),
               Config("exe", "exe", "zero", TRUE, "status"),
               Config("exe", "none", "finite", TRUE, "dump") }
=============================================================================
