---------------------------- MODULE FileStorage ------------------------------
(***************************************************************************)
(* FileStorageAdapter: a directory per session, session.json rewritten by  *)
(* a temporary file and a rename, events.jsonl appended to.  Updates and   *)
(* appends of a session queue in a chain of promises (withWriteLock);      *)
(* saves and deletes do not.  The process may crash between any two file   *)
(* operations, and in the middle of an append.                             *)
(*                                                                         *)
(* session.json is the set of patches it shows.  A line of events.jsonl is *)
(* an event, or Garbage when it is not JSON.                               *)
(***************************************************************************)
EXTENDS Naturals, FiniteSets, Sequences, SequencesExt, JsMap

CONSTANTS
    Writer,      \* calls of the adapter in flight
    Dir,         \* session ids
    Patch,       \* patches, each given to updateSessionStatus once
    Batches,     \* batches of events, each given to appendEvents once
    Garbage,     \* a line that does not parse
    None,        \* an undefined
    MaxCrashes   \* bound

ASSUME FileAssumption ==
    /\ IsFiniteSet(Writer) /\ MaxCrashes \in Nat
    /\ None \notin Writer /\ \A ps \in SUBSET Patch : ps # None
    /\ Dir \cap Patch = {} /\ Dir \cap Batches = {} /\ Patch \cap Batches = {}
    /\ \A b \in Batches : b # <<>> /\ b \in Seq(Range(b)) /\ Garbage \notin Range(b)

VARIABLES
    disk,     \* session directory -> session.json, session.json.tmp, lines, torn last line?
    chain,    \* writeLocks: session -> the last call of its chain, if it is pending
    writes,   \* calls in flight
    issued,   \* history: sessions, patches and batches given to the adapter
    durable,  \* history: session -> those of its calls that have resolved; its id
              \* is known to nobody before its save has
    crashes

fileVars == <<disk, chain, writes, issued, durable, crashes>>

Doing(w, pc) == w \in DOMAIN writes /\ writes[w].pc = pc /\ writes[w].after = None
Step(w, pc) == writes' = [writes EXCEPT ![w].pc = pc]

\* A call settles: its promise stops holding back the next one of the chain.
Settle(w) ==
    /\ writes' = [v \in DOMAIN writes \ {w} |->
                    [writes[v] EXCEPT !.after = IF @ = w THEN None ELSE @]]
    /\ chain' = Without(chain, {d \in DOMAIN chain : chain[d] = w})

Resolve(w) == Settle(w) /\ durable' = [durable EXCEPT ![writes[w].dir] = @ \cup {writes[w].item}]
Reject(w) == Settle(w) /\ UNCHANGED durable

New(w, kind, d, item, pc, after) ==
    writes' = Put(writes, w, [kind |-> kind, dir |-> d, item |-> item, pc |-> pc,
                              after |-> after, seen |-> {}])

Unlocked(w, kind, d, item, pc) ==
    /\ w \notin DOMAIN writes
    /\ New(w, kind, d, item, pc, None)
    /\ UNCHANGED <<disk, chain, durable, crashes>>

\* Mutant: the new promise is not stored.
BugWithWriteLock(w, kind, d, item, pc) ==
    /\ w \notin DOMAIN writes
    /\ New(w, kind, d, item, pc, None)
    /\ UNCHANGED <<disk, chain, durable, crashes>>

WithWriteLock(w, kind, d, item, pc) ==
    /\ w \notin DOMAIN writes
    /\ New(w, kind, d, item, pc, IF d \in DOMAIN chain THEN chain[d] ELSE None)
    /\ chain' = Put(chain, d, w)
    /\ UNCHANGED <<disk, durable, crashes>>

-----------------------------------------------------------------------------
FileSaveSession(w, d) ==
    /\ d \notin issued
    /\ issued' = issued \cup {d}
    /\ Unlocked(w, "save", d, d, "mkdir")

FileUpdateSessionStatus(w, d, p) ==
    /\ d \in durable[d] /\ p \notin issued
    /\ issued' = issued \cup {p}
    /\ WithWriteLock(w, "update", d, p, "load")

FileAppendEvents(w, d, b) ==
    /\ d \in durable[d] /\ b \notin issued
    /\ issued' = issued \cup {b}
    /\ WithWriteLock(w, "append", d, b, "append")

FileDeleteSession(w, d) ==
    /\ d \in durable[d]
    /\ Unlocked(w, "delete", d, d, "rm")
    /\ UNCHANGED issued

\* session.json, the .tmp next to it, events.jsonl.
SessionDir == [json |-> None, tmp |-> None, lines |-> <<>>, torn |-> FALSE]

Mkdir(w) ==
    LET d == writes[w].dir
    IN  /\ Doing(w, "mkdir")
        /\ disk' = IF d \in DOMAIN disk THEN disk
                   ELSE Put(disk, d, SessionDir)
        /\ Step(w, "tmp")
        /\ UNCHANGED <<chain, durable>>

\* loadSession inside the update; without a session.json the update throws.
Load(w) ==
    LET d == writes[w].dir
    IN  /\ Doing(w, "load")
        /\ IF d \in DOMAIN disk /\ disk[d].json # None
           THEN /\ writes' = [writes EXCEPT ![w].pc = "tmp",
                                            ![w].seen = disk[d].json \cup {writes[w].item}]
                /\ UNCHANGED <<chain, durable>>
           ELSE Reject(w)
        /\ UNCHANGED disk

\* atomicWrite, its two file operations; a directory that is gone is ENOENT.
WriteTmp(w) ==
    LET d == writes[w].dir
    IN  /\ Doing(w, "tmp")
        /\ IF d \in DOMAIN disk
           THEN /\ disk' = [disk EXCEPT ![d].tmp = writes[w].seen]
                /\ Step(w, "rename")
                /\ UNCHANGED <<chain, durable>>
           ELSE Reject(w) /\ UNCHANGED disk

Rename(w) ==
    LET d == writes[w].dir
    IN  /\ Doing(w, "rename")
        /\ IF d \in DOMAIN disk /\ disk[d].tmp # None
           THEN /\ disk' = [disk EXCEPT ![d].json = disk[d].tmp, ![d].tmp = None]
                /\ Resolve(w)
           ELSE Reject(w) /\ UNCHANGED disk

\* The file after n events of a batch; the first one continues a torn line.
Appended(file, batch, n, torn) ==
    [file EXCEPT !.lines = @ \o [i \in 1..n |-> IF i = 1 /\ file.torn THEN Garbage ELSE batch[i]],
                 !.torn = torn]

AppendFile(w) ==
    LET d == writes[w].dir
        b == writes[w].item
    IN  /\ Doing(w, "append")
        /\ IF d \in DOMAIN disk
           THEN /\ disk' = [disk EXCEPT ![d] = Appended(@, b, Len(b), FALSE)]
                /\ Resolve(w)
           ELSE Reject(w) /\ UNCHANGED disk

\* deleteSession: the directory goes, then the entry of writeLocks, whoever
\* waits in its chain.
RemoveDir(w) ==
    /\ Doing(w, "rm")
    /\ disk' = Without(disk, {writes[w].dir})
    /\ Step(w, "unlock")
    /\ UNCHANGED <<chain, durable>>

DropLock(w) ==
    /\ Doing(w, "unlock")
    /\ writes' = Without(writes, {w})
    /\ chain' = Without(chain, {writes[w].dir})
    /\ UNCHANGED <<disk, durable>>

\* The process stops.  An append it was in the middle of has left some of its
\* lines and perhaps a part of the next.
Crash ==
    /\ crashes < MaxCrashes
    /\ crashes' = crashes + 1
    /\ writes' = NoKeys
    /\ chain' = NoKeys
    /\ \/ UNCHANGED disk
       \/ \E w \in {v \in DOMAIN writes : Doing(v, "append") /\ writes[v].dir \in DOMAIN disk} :
            LET b == writes[w].item
            IN  \E n \in 0..Len(b) :
                    disk' = [disk EXCEPT ![writes[w].dir] = Appended(@, b, n, n < Len(b))]
    /\ UNCHANGED <<issued, durable>>

-----------------------------------------------------------------------------
(* Reads *)

\* The events of the file that the filter, a set, holds.
Events(lines, filter) ==
    FoldLeft(LAMBDA found, e : IF e = Garbage \/ e \notin filter THEN found ELSE Append(found, e),
             <<>>, lines)

\* Mutant: a line that does not parse ends the read in an error.
BugReadable(d, filter) ==
    IF Garbage \in Range(disk[d].lines) THEN <<>> ELSE Events(disk[d].lines, filter)

\* Lines that do not parse are skipped, in getEvents and in getEventCount.
Readable(d, filter) == Events(disk[d].lines, filter)

\* Limit 0 is none.
FileGetEvents(d, filter, offset, limit) ==
    LET found == Readable(d, filter)
    IN  SubSeq(found, offset + 1,
               IF limit > 0 /\ offset + limit < Len(found) THEN offset + limit ELSE Len(found))

FileGetEventCount(d) == Len(Readable(d, Range(disk[d].lines)))
-----------------------------------------------------------------------------
FileInit ==
    /\ disk = NoKeys /\ chain = NoKeys /\ writes = NoKeys
    /\ issued = {} /\ durable = [d \in Dir |-> {}]
    /\ crashes = 0

Issue(w, d) ==
    \/ FileSaveSession(w, d)
    \/ \E p \in Patch : FileUpdateSessionStatus(w, d, p)
    \/ \E b \in Batches : FileAppendEvents(w, d, b)
    \/ FileDeleteSession(w, d)

Proceed(w) ==
    /\ Mkdir(w) \/ Load(w) \/ WriteTmp(w) \/ Rename(w) \/ AppendFile(w) \/ RemoveDir(w) \/ DropLock(w)
    /\ UNCHANGED <<issued, crashes>>

FileNext ==
    \/ \E w \in Writer : (\E d \in Dir : Issue(w, d)) \/ Proceed(w)
    \/ Crash

\* A patch whose update resolved is in session.json as long as the session is
\* there, whatever other updates ran and wherever the process crashed.
UpdatesSurvive ==
    \A d \in DOMAIN disk : disk[d].json # None => durable[d] \cap Patch \subseteq disk[d].json

\* A crash costs at most one event whose append resolves: the first one after
\* the torn line.  Every other one is read back, and counted.
TornLineEatsOne ==
    \A d \in DOMAIN disk :
        LET acked == UNION {Range(b) : b \in durable[d] \cap Batches}
            read == FileGetEvents(d, acked, 0, 0)
        IN  /\ Cardinality(acked \ Range(read)) <= crashes
            /\ Len(read) <= FileGetEventCount(d)
=============================================================================
