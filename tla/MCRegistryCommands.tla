-------------------------- MODULE MCRegistryCommands --------------------------
(* Instances of RegistryCommands for TLC: the requests of each run.         *)
EXTENDS RegistryCommands

CONSTANTS a, b

\* Every kind of request, some with each of their options.
AllRequests ==
  {RequestOf("register", {a}, "keep", TRUE, FALSE, Nothing),
   RequestOf("register", {a, b}, "reserved", TRUE, FALSE, Nothing),
   RequestOf("update", {a}, "keep", TRUE, FALSE, Nothing),
   RequestOf("update", {a}, "stable", FALSE, FALSE, Nothing),
   RequestOf("update", {a}, "retired", TRUE, TRUE, Nothing),
   RequestOf("update", {RegItem}, "keep", TRUE, FALSE, Nothing),
   RequestOf("status", {a}, "stable", FALSE, FALSE, Nothing),
   RequestOf("status", {a}, "superseded", FALSE, FALSE, b),
   RequestOf("status", {b}, "submitted", FALSE, TRUE, Nothing),
   RequestOf("status", {Reg}, "stable", FALSE, FALSE, Nothing),
   RequestOf("delete", {a}, "keep", FALSE, FALSE, Nothing),
   RequestOf("delete", {Reg}, "keep", FALSE, FALSE, Nothing),
   RequestOf("realDelete", {a}, "keep", FALSE, FALSE, Nothing),
   RequestOf("realDelete", {RegItem}, "keep", FALSE, FALSE, Nothing),
   RequestOf("tag", {Reg}, "keep", FALSE, FALSE, Nothing),
   RequestOf("edit", {a, b}, "experimental", TRUE, FALSE, Nothing),
   RequestOf("graph", {a}, "keep", TRUE, FALSE, Nothing),
   RequestOf("annotate", {a}, "keep", FALSE, FALSE, Nothing)}

\* The requests whose handlers read the items in the transaction that writes them.
FreshRequests == {r \in AllRequests : r.op # "update"}

\* Two ways to write an item that is there.
UpdateRequests ==
  {RequestOf("register", {a}, "keep", TRUE, FALSE, Nothing),
   RequestOf("update", {a}, "keep", TRUE, FALSE, Nothing),
   RequestOf("annotate", {a}, "keep", FALSE, FALSE, Nothing)}

\* An item that is declared its own successor.
SuccessorRequests ==
  {RequestOf("register", {a}, "stable", TRUE, FALSE, Nothing),
   RequestOf("status", {a}, "superseded", FALSE, FALSE, a)}
==============================================================================
