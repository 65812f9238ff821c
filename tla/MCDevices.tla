----------------------------- MODULE MCDevices -----------------------------
(***************************************************************************)
(* The devices and the drivers that wait for their interrupts.  A device   *)
(* is chosen when Nachos is started (threads/main.cc): the disk with two   *)
(* threads, or the network with two machines, one thread on the first and  *)
(* two on the second, or the console.  The rest of the constants are in    *)
(* the .cfg file.                                                          *)
(***************************************************************************)
EXTENDS SynchDisk, PostOffice, Console, TLC

CONSTANTS s, r1, r2, m1, m2

MCAt == (s :> m1) @@ (r1 :> m2) @@ (r2 :> m2)

VARIABLE device

vars == <<device, userVars, synchDiskVars, postOfficeVars, consoleVars>>

Init ==
    /\ device \in {"disk", "network", "console"}
    /\ UserInit /\ SynchDiskInit
    /\ PostOfficeInit /\ ConsoleInit

Next ==
    /\ UNCHANGED device
    /\ \/ device = "disk" /\ DiskNext /\ UNCHANGED <<postOfficeVars, consoleVars>>
       \/ device = "network" /\ PostOfficeNext /\ UNCHANGED <<userVars, synchDiskVars, consoleVars>>
       \/ device = "console" /\ ConsoleNext /\ UNCHANGED <<userVars, synchDiskVars, postOfficeVars>>

\* What fairness asks for is never enabled on a device that was not chosen.
Spec == Init /\ [][Next]_vars /\ DiskFairness /\ PostOfficeFairness /\ ConsoleFairness
=============================================================================
