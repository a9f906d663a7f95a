----------------------------- MODULE PetFileInv -----------------------------
(***************************************************************************)
(* The inductive invariant behind PromiseRecoverable and SuccessIsComplete *)
(* for one process that has the file to itself.                            *)
(***************************************************************************)
EXTENDS PetFile

\* Nothing is promised, or the file under this name holds it all.
Safe(n) == promised = {} \/ StoresPromised(n)

\* Which operation is where, and which stream it uses.
ControlInv(p) ==
    LET c == call[p] o == obj[p] IN
    /\ c.op = "none" <=> c.pc \in {"closed", "idle"}
    /\ c.pc = "validate" => c.op = "open"
    /\ c.pc \in InitLocations => c.op \in {"create", "newkey"}
    /\ c.pc \in {"trunc", "reopen", "write"} => c.op \in {"save", "newkey"}
    /\ c.pc \in {"rename", "openbak", "create", "convert"} => c.op = "newkey"
    /\ c.pc \in InitLocations \cup {"validate", "convert", "write", "stamp"}
          => o.raw = "open"
    /\ c.op = "newkey" /\ c.pc \in InitLocations \cup {"create", "convert"}
          => c.old = "bak"
    /\ o.raw = "open" => o.fd = "pet"
    /\ c.pc = "rename" => o.fd = "none"
    /\ o.fd \in {"pet", "none"}

\* How far the file under construction has got.
PartsAt(pc) == CASE pc = "ident" -> 0 [] pc = "meta" -> 1 [] pc = "header" -> 2
                 [] OTHER -> 3

Fresh(p) == call[p].pc \in InitLocations \cup {"convert"}
            \/ (call[p].pc = "stamp" /\ call[p].op = "create")

Rewriting(p) == call[p].pc \in {"reopen", "write"}
                \/ (call[p].pc = "stamp" /\ call[p].op \in {"save", "newkey"})

FileInv(p) ==
    LET c == call[p] o == obj[p] pet == disk["pet"] IN
    /\ Fresh(p) => /\ pet.exists /\ ~pet.junk /\ pet.items = {}
                   /\ pet.parts = PartsAt(c.pc)
    /\ c.pc \in {"openbak", "create"} => ~pet.exists
    /\ Rewriting(p) => /\ pet.exists /\ ~pet.junk /\ pet.parts = 3
                       /\ c.left \subseteq c.batch
                       /\ pet.items = c.batch \ c.left
    /\ c.pc \in {"trunc", "reopen"} => c.left = c.batch
    /\ c.pc = "stamp" \/ c.op \in {"create", "open"} => c.left = {}
    /\ c.pc = "convert" => pet.key = o.key
    /\ c.op = "newkey" /\ c.pc \in {"trunc", "reopen", "write", "stamp"}
          => /\ pet.exists /\ pet.parts = 3 /\ pet.key = o.key
             /\ ~c.lost => Under(c.batch, o.key) /\ promised \subseteq Recs(c.batch)

\* Where the promised records are.  What a failed key change leaves behind may
\* have the time of the stamp, what one leaves that lost records always has it.
PromiseInv(p) ==
    LET c == call[p] o == obj[p] IN
    /\ c.op \in {"none", "open"} => Safe("pet") \/ Safe("bak")
    /\ c.op = "create" => promised = {}
    /\ c.op = "save" => IF c.pc = "trunc" THEN Safe("pet") \/ Safe("bak") ELSE promised = {}
    /\ c.op = "newkey" => IF c.pc = "rename" THEN Safe("pet") ELSE Safe("bak")
    /\ c.pc = "idle" /\ o.raw # "none" /\ NotModified(p)
          => Safe("pet") \/ o.res \in {"failed", "damaged"}

SingleInv == \A p \in Procs : ControlInv(p) /\ FileInv(p) /\ PromiseInv(p)
=============================================================================
