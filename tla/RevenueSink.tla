----------------------------- MODULE RevenueSink -----------------------------
(***************************************************************************)
(* The revenue sink (server/src/sink.rs): RevenueSink::record appends one  *)
(* JSON line and syncs it before it returns Ok, with the file's mutex held *)
(* from the first byte to the sync.  A handler of module Gates takes the   *)
(* Ok for a durable record.                                                *)
(*                                                                         *)
(* write_all may reach the file in two pieces, and may fail between them   *)
(* (a full disk, an I/O error): a line is a head and a tail, and only the  *)
(* tail ends in a newline.  A dying process leaves the page cache, which   *)
(* the kernel still writes out; a power loss leaves the synced part and    *)
(* any prefix of the rest.                                                 *)
(***************************************************************************)
EXTENDS Integers, Sequences

CONSTANTS
  Records,   \* the redemptions to record, one call of record() each
  Nobody     \* the owner of a free mutex

ASSUME SinkAssumption == Nobody \notin Records

VARIABLES
  file,      \* the pieces in the page cache, in file order
  synced,    \* how many of them are on stable storage
  owner,     \* who holds the file's mutex
  step       \* how far the call for each record has come

vars == <<file, synced, owner, step>>

HeadOf(r) == [rec |-> r, part |-> "head"]
TailOf(r) == [rec |-> r, part |-> "tail"]
Steps == {"idle", "locked", "head", "line", "ok", "failed", "dead"}
Holding == {"locked", "head", "line"}

TypeOK ==
  /\ file \in Seq([rec : Records, part : {"head", "tail"}])
  /\ synced \in 0 .. Len(file)
  /\ owner \in Records \cup {Nobody}
  /\ step \in [Records -> Steps]

Init ==
  /\ file = <<>>
  /\ synced = 0
  /\ owner = Nobody
  /\ step = [r \in Records |-> "idle"]

Goto(r, from, to) ==
  /\ step[r] = from
  /\ step' = [step EXCEPT ![r] = to]

\* Mutant: no lock.
LockFree(r) ==
  /\ owner' = r
  /\ Goto(r, "idle", "locked")
  /\ UNCHANGED <<file, synced>>

\* One lock spans write, flush and sync; it is released on every return.
Lock(r) ==
  /\ owner = Nobody
  /\ owner' = r
  /\ Goto(r, "idle", "locked")
  /\ UNCHANGED <<file, synced>>

\* Mutant: a step of the call that nothing follows.
WriteHeadStuck(r) ==
  /\ Goto(r, "locked", "written")
  /\ file' = Append(file, HeadOf(r))
  /\ UNCHANGED <<synced, owner>>

\* write_all, opened for append: each piece lands at the end of the file.
WriteHead(r) ==
  /\ Goto(r, "locked", "head")
  /\ file' = Append(file, HeadOf(r))
  /\ UNCHANGED <<synced, owner>>

WriteTail(r) ==
  /\ Goto(r, "head", "line")
  /\ file' = Append(file, TailOf(r))
  /\ UNCHANGED <<synced, owner>>

\* write_all fails before the first piece or after it: the error is returned
\* and nothing is taken back from the file.
WriteFails(r) ==
  /\ Goto(r, "locked", "failed") \/ Goto(r, "head", "failed")
  /\ owner' = Nobody
  /\ UNCHANGED <<file, synced>>

\* Mutant: the bytes are left to the page cache.
FlushOnly(r) ==
  /\ Goto(r, "line", "ok")
  /\ owner' = Nobody
  /\ UNCHANGED <<file, synced>>

\* sync_all: the whole file is on stable storage, earlier failures included.
Sync(r) ==
  /\ Goto(r, "line", "ok")
  /\ synced' = Len(file)
  /\ owner' = Nobody
  /\ UNCHANGED file

SyncFails(r) ==
  /\ Goto(r, "line", "failed")
  /\ owner' = Nobody
  /\ UNCHANGED <<file, synced>>

\* The kernel writes the page cache out in its own time.
WriteBack ==
  /\ synced < Len(file)
  /\ synced' = Len(file)
  /\ UNCHANGED <<file, owner, step>>

Die ==
  /\ step' = [r \in Records |-> IF step[r] \in Holding THEN "dead" ELSE step[r]]
  /\ owner' = Nobody

Crash == Die /\ UNCHANGED <<file, synced>>

PowerLoss ==
  /\ Die
  /\ \E n \in synced .. Len(file) :
       file' = SubSeq(file, 1, n) /\ synced' = n

Next ==
  \/ \E r \in Records :
       \/ Lock(r) \/ WriteHead(r) \/ WriteTail(r) \/ WriteFails(r)
       \/ Sync(r) \/ SyncFails(r)
  \/ WriteBack
  \/ Crash
  \/ PowerLoss

Spec == Init /\ [][Next]_vars

------------------------------------------------------------------------------
(* Properties *)

\* The pieces of r's line lie together at i and i + 1 of the file.
LineAt(r, i) == file[i] = HeadOf(r) /\ file[i + 1] = TailOf(r)

\* Every tail comes right after its own head: with the mutex held over the
\* whole of write_all, no other request's bytes get into the middle of a line
\* ("each line atomic, no interleaving").
LinesContiguous ==
  \A i \in 1 .. Len(file) : file[i].part = "tail" =>
    i > 1 /\ file[i - 1] = HeadOf(file[i].rec)

Stored == {r \in Records : \E i \in 1 .. synced - 1 : LineAt(r, i)}
Acked == {r \in Records : step[r] = "ok"}

Log == INSTANCE DurableLog WITH stored <- Stored, acked <- Acked

\* The sink implements DurableLog: what was acknowledged is on stable storage
\* and survives failed writes, crashes and power losses.
ImplementsDurableLog == Log!Spec

\* sink.rs:91 says "each line atomic": an acknowledged record is a line of its
\* own, one that starts where another line ended.
AckedIsALine ==
  \A r \in Acked : \E i \in 1 .. Len(file) - 1 :
    LineAt(r, i) /\ (i > 1 => file[i - 1].part = "tail")
==============================================================================
