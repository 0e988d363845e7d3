------------------------------- MODULE LoadFile -------------------------------
(***************************************************************************)
(* load_file of common.c: a file is read into memory by as many calls of   *)
(* read() as it takes.  Another process (a build that writes the file      *)
(* again) may change its length between any two calls; a byte of the file  *)
(* is given by its place, counted from 1.                                  *)
(***************************************************************************)
EXTENDS Integers

CONSTANTS
  Sizes,          \* the lengths the file may have
  MAX_FILE_SIZE,
  Rewritten,      \* whether another process changes the file meanwhile
  Unread          \* what malloc's bytes hold

ASSUME SizesAssumption == Sizes \subseteq Nat /\ MAX_FILE_SIZE \in Nat

VARIABLES
  disk,    \* the length of the file now
  pc,      \* the system call that comes next, or "done"
  fpos,    \* the file offset of fd
  size, remain, p, start,  \* the local variables; start is *start up to *end
  turn,    \* flips with every turn of the loop, of the same state or not
  ret      \* what load_file returned

loadVars == <<disk, pc, fpos, size, remain, p, start, turn, ret>>

LoadInit ==
  /\ disk \in Sizes /\ pc = "open"
  /\ fpos = 0 /\ size = 0 /\ remain = 0 /\ p = 0 /\ start = <<>>
  /\ turn = 0 /\ ret = 0

LoadReturn(r) == pc' = "done" /\ ret' = r /\ UNCHANGED <<disk, fpos, size, remain, p, start, turn>>

Open == /\ pc = "open"
        /\ \/ LoadReturn(-1)
           \/ pc' = "stat" /\ UNCHANGED <<disk, fpos, size, remain, p, start, turn, ret>>

\* fstat, the limit, and the memory.
Stat ==
  /\ pc = "stat"
  /\ \/ LoadReturn(-1)
     \/ /\ disk <= MAX_FILE_SIZE
        /\ size' = disk /\ remain' = disk /\ p' = 0
        /\ start' = [k \in 1..disk |-> Unread]
        /\ pc' = "read"
        /\ UNCHANGED <<disk, fpos, turn, ret>>

\* Mutant: after a short read the next one starts over in memory.
MutAdvanced(r) == p

Advanced(r) == p + r

\* Mutant: what is left to read is not counted down.
MutLeft(r) == remain

Left(r) == remain - r

\* read() yields some of the bytes asked for that are there, and 0 only at the
\* end of the file.
ReadSome ==
  /\ pc = "read" /\ remain > 0
  /\ \E r \in 0..remain :
       /\ IF fpos < disk THEN r \in 1..(disk - fpos) ELSE r = 0
       /\ start' = [k \in 1..size |-> IF k \in (p + 1)..(p + r) THEN fpos + k - p ELSE start[k]]
       /\ fpos' = fpos + r
       /\ remain' = Left(r)
       /\ p' = Advanced(r)
  /\ turn' = 1 - turn
  /\ UNCHANGED <<disk, pc, size, ret>>

ReadFails == pc = "read" /\ remain > 0 /\ LoadReturn(-2)

ReadDone == pc = "read" /\ remain = 0 /\ LoadReturn(size)

Resize ==
  /\ Rewritten /\ pc # "done"
  /\ disk' \in Sizes
  /\ UNCHANGED <<pc, fpos, size, remain, p, start, turn, ret>>

Load == Open \/ Stat \/ ReadSome \/ ReadFails \/ ReadDone

LoadNext == Load \/ Resize

\* load_file goes on as long as it has something to do.
LoadSpec == LoadInit /\ [][LoadNext]_loadVars /\ WF_loadVars(Load)
-----------------------------------------------------------------------------
\* However the reads are cut, and whatever happens to the file meanwhile, a
\* file that was loaded is there with every byte in its place, as many as it
\* had when its size was asked for; nothing is written beyond the memory.
WholeOrFailed ==
  /\ p + remain = size
  /\ \A k \in 1..size : start[k] = IF k <= p THEN k ELSE Unread
  /\ pc = "done" => ret < 0 \/ (ret = size /\ p = size)

\* load_file returns, with the bytes or with an error, if the file is in the end
\* as long as it was when its size was asked for, or longer.  (When it stays
\* shorter, read() returns 0 for ever.)
Returns == <>[](disk >= size) => <>(pc = "done")
=============================================================================
