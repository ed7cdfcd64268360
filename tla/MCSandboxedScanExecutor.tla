----------------------- MODULE MCSandboxedScanExecutor -----------------------
(* Instances of SandboxedScanExecutor for TLC: two public IPv4 addresses, a *)
(* private one and a public IPv6 one; the target, another host and a name   *)
(* registration would reject.                                               *)
EXTENDS SandboxedScanExecutor

MCSpecialUse == [a \in Addresses |-> IF a = 3 THEN {"private", "not_global"} ELSE {}]

Absolute(scheme, host, portOk) ==
    [form |-> "absolute", scheme |-> scheme, host |-> host, portOk |-> portOk]

MCLocations ==
    {[form |-> "relative", scheme |-> "other", host |-> "", portOk |-> TRUE],
     [form |-> "malformed", scheme |-> "other", host |-> "", portOk |-> TRUE],
     Absolute("http", "other.example", TRUE), Absolute("https", "other.example", TRUE),
     Absolute("https", "target.example", FALSE), Absolute("https", "localhost", TRUE)}
=============================================================================
