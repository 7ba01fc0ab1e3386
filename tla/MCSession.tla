----------------------------- MODULE MCSession -----------------------------
(* Session with one chain, as in the jtag command, or two, as scripts that   *)
(* use the Python bindings may have.                                         *)
EXTENDS Session

MCSymmetry == Permutations(Cables) \cup Permutations(PartLists) \cup Permutations(Buses)

(* Each chain at a port of its own, or both at the same. *)
MCOwnPorts(c) == {c, NoPort}
MCAllPorts(c) == Ports \cup {NoPort}

MCNoMemoryFailure == {"ok", "refused", "init_fails"}
MCQueueFailures == {"ok", "refused", "no_todo", "no_done", "no_queues"}
MCNoInitFailure == {"ok", "refused", "no_list"}
MCAnyBus == {"ok", "init_fails"}
MCPartOutcomes == {"ok", "no_part"}
MCOk == {"ok"}

MCPrograms == {"jtag", "python"}
MCJtag == {"jtag"}
MCPython == {"python"}
=============================================================================
