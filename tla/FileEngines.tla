----------------------------- MODULE FileEngines -----------------------------
(* The engines that keep the records in a file of their own: GdbmDatabase      *)
(* (src/src/gdbm_engine.rs), whose library stores value by value, and          *)
(* FileDatabase (src/src/engines.rs), which reads the file once and writes all *)
(* of it after every change.  A run of the server opens the database, cleans   *)
(* it up by age, serves updates one at a time and ends, or is killed in the    *)
(* middle of a write.  The file may also hold what this program did not write. *)
EXTENDS Records, Sequences, FiniteSets

CONSTANTS
    FileDigests,
    FileKinds,   \* subset of {"gdbm", "file"}
    FileAges,    \* values of the cleanup age, NoTime for none
    FirstDisks,  \* what the file may hold before the first run
    NoRow,       \* no entry
    Junk,        \* an entry that does not decode
    Foreign,     \* an entry that is not UTF-8
    FileUpdates, \* [op, digests]
    FileHorizon, MaxUpdates   \* bounds of the clock and of the updates

FileOps == {"report", "whitelist"}
Unread == {NoRow, Junk, Foreign}
Rows == Record \cup Unread

ASSUME FileEnginesAssumption ==
    /\ FileKinds \subseteq {"gdbm", "file"} /\ FileAges \subseteq Nat \cup {NoTime}
    /\ NoRow # Junk /\ NoRow # Foreign /\ Junk # Foreign
    /\ Unread \cap Record = {}
    /\ FirstDisks \subseteq [FileDigests -> Rows]
    /\ FileUpdates \subseteq [op : FileOps, digests : Seq(FileDigests)]
    /\ {FileHorizon, MaxUpdates} \subseteq Nat

Uncounted == [op \in FileOps |-> 0]

VARIABLES
    kind, age, clock, served,
    opened,   \* now_timestamp() when the cleanup computed its cutoff
    disk,     \* the entry of each digest in the file
    memory,   \* FileDatabase::records; what get sees for gdbm is the disk
    phase,    \* "closed", "cleaning" or "open"
    keys,     \* the keys the cleanup of gdbm has yet to look at
    before,   \* history: the disk when the run began to open it
    torn,     \* history: a write of the whole file broke off
    counted   \* history: the digests of each operation answered ok

fvars == <<kind, age, clock, served, opened, disk, memory, phase, keys, before, torn, counted>>

Present(rows) == {d \in FileDigests : rows[d] # NoRow}
Ageing == age \notin {NoTime, 0}
\* Mutant: a record is also stale by the time of its last whitelisting.
StaleByAny(rec, at) ==
    \E t \in {rec.r_updated, rec.wl_updated} \ {NoTime} : t < at - age
\* Only the time of the last report counts; a record without one is kept.
Stale(rec, at) == rec.r_updated # NoTime /\ rec.r_updated < at - age

\* read_to_string fails as a whole, and the records are then empty.
Loaded(rows) ==
    IF \E d \in FileDigests : rows[d] = Foreign THEN [d \in FileDigests |-> NoRow]
    ELSE [d \in FileDigests |-> IF rows[d] = Junk THEN NoRow ELSE rows[d]]

Retained(rows) ==
    [d \in FileDigests |-> IF rows[d] \in Unread THEN rows[d]
                           ELSE IF Ageing /\ Stale(rows[d], clock) THEN NoRow ELSE rows[d]]

\* What a get of the opened database answers with; the error that a Foreign entry
\* of gdbm is answered with counts as none.
Visible(d) ==
    LET row == IF kind = "file" THEN memory[d] ELSE disk[d]
    IN IF row \in Unread THEN Blank ELSE row

FInit ==
    /\ kind \in FileKinds /\ age \in FileAges /\ clock = 1 /\ served = 0 /\ opened = 1
    /\ disk \in FirstDisks
    /\ memory = [d \in FileDigests |-> NoRow]
    /\ phase = "closed" /\ keys = {} /\ before = disk /\ torn = FALSE
    /\ counted = [d \in FileDigests |-> Uncounted]

\* Mutant: the file is written when the database is closed.
Deferred(rows) == UNCHANGED <<disk, torn>>
\* sync: create_dir_all, format and sort the rows, fs::write; what a write that
\* fails leaves is the old file or the rows it got to.
Written(rows) == disk' = rows /\ UNCHANGED torn
Broken(rows) ==
    \/ UNCHANGED <<disk, torn>>
    \/ /\ torn' = TRUE
       /\ \E D \in SUBSET Present(rows) :
            disk' = [d \in FileDigests |-> IF d \in D THEN rows[d] ELSE NoRow]

OpenFile ==
    /\ phase = "closed" /\ kind = "file"
    /\ before' = disk /\ opened' = clock
    /\ LET rows == Retained(Loaded(disk)) IN
       \/ /\ IF Ageing THEN Written(rows) ELSE UNCHANGED <<disk, torn>>
          /\ memory' = rows /\ phase' = "open"
          /\ counted' = [d \in FileDigests |-> IF rows[d] = NoRow THEN Uncounted ELSE counted[d]]
       \/ Ageing /\ Broken(rows) /\ UNCHANGED <<memory, phase, counted>>
    /\ UNCHANGED <<kind, age, clock, served, keys>>

\* RawGdbm::open, and the list of all keys when there is a cleanup age.
OpenGdbm ==
    /\ phase = "closed" /\ kind = "gdbm"
    /\ before' = disk /\ opened' = clock
    /\ phase' = IF Ageing THEN "cleaning" ELSE "open"
    /\ keys' = IF Ageing THEN Present(disk) ELSE {}
    /\ UNCHANGED <<kind, age, clock, served, disk, memory, torn, counted>>

\* One turn of reorganize: an entry that is not UTF-8 ends the opening.
CleanKey(d) ==
    /\ phase = "cleaning" /\ d \in keys
    /\ keys' = keys \ {d}
    /\ phase' = IF disk[d] = Foreign THEN "closed" ELSE phase
    /\ LET gone == disk[d] \notin Unread /\ Stale(disk[d], opened) IN
       /\ disk' = IF gone THEN [disk EXCEPT ![d] = NoRow] ELSE disk
       /\ counted' = IF gone THEN [counted EXCEPT ![d] = Uncounted] ELSE counted
    /\ UNCHANGED <<kind, age, clock, served, opened, memory, before, torn>>

Cleaned ==
    /\ phase = "cleaning" /\ keys = {}
    /\ phase' = "open"
    /\ UNCHANGED <<kind, age, clock, served, opened, disk, memory, keys, before, torn, counted>>

Increment(op, rec) == IF op = "report" THEN RIncrement(rec, clock) ELSE WlIncrement(rec, clock)
\* The update of gdbm ends before an entry that is Foreign.
Base(row) == IF row \in Unread THEN Blank ELSE row
\* The rows after the first n digests of an update, for each n.
Bumped(rows, op, ds) ==
    LET after[n \in 0..Len(ds)] ==
          IF n = 0 THEN rows
          ELSE [after[n - 1] EXCEPT ![ds[n]] = Increment(op, Base(@))]
    IN after
Named(ds, d) == Cardinality({i \in 1..Len(ds) : ds[i] = d})
Credit(op, ds) ==
    counted' = [d \in FileDigests |-> [counted[d] EXCEPT ![op] = @ + Named(ds, d)]]

Serve == phase = "open" /\ served < MaxUpdates /\ served' = served + 1

\* FileDatabase::report and whitelist: all in memory, then one write.
UpdateFile(u) ==
    /\ Serve /\ kind = "file"
    /\ memory' = Bumped(memory, u.op, u.digests)[Len(u.digests)]
    /\ \/ Written(memory') /\ Credit(u.op, u.digests)
       \/ Broken(memory') /\ UNCHANGED counted
    /\ UNCHANGED <<kind, age, clock, opened, phase, keys, before>>

\* The trait's report over GdbmDatabase::get and set: an error at a digest
\* leaves those before it stored.  A foreign entry is such an error.
UpdateGdbm(u) ==
    /\ Serve /\ kind = "gdbm"
    /\ \E n \in 0..Len(u.digests) :
         /\ \A i \in 1..n : disk[u.digests[i]] # Foreign
         /\ disk' = Bumped(disk, u.op, u.digests)[n]
         /\ IF n = Len(u.digests) THEN Credit(u.op, u.digests) ELSE UNCHANGED counted
    /\ UNCHANGED <<kind, age, clock, opened, memory, phase, keys, before, torn>>

\* The process ends or is killed: in the file only what was written.
Leave ==
    /\ phase # "closed"
    /\ phase' = "closed" /\ keys' = {}
    /\ memory' = [d \in FileDigests |-> NoRow]
    /\ UNCHANGED <<kind, age, clock, served, opened, disk, before, torn, counted>>

FTick ==
    /\ clock < FileHorizon /\ clock' = clock + 1
    /\ UNCHANGED <<kind, age, served, opened, disk, memory, phase, keys, before, torn, counted>>

FNext ==
    \/ OpenFile \/ OpenGdbm \/ Cleaned \/ Leave \/ FTick
    \/ \E d \in FileDigests : CleanKey(d)
    \/ \E u \in FileUpdates : UpdateFile(u) \/ UpdateGdbm(u)

FSpec == FInit /\ [][FNext]_fvars

(***************************************************************************)
(* Properties                                                              *)
(***************************************************************************)
\* A database that has been opened shows exactly the records the file held whose
\* last report is not older than the cleanup age, whitelisted ones included
\* (open_with_cleanup_age of both engines); only a file of FileDatabase with a
\* byte that is not UTF-8 shows nothing at all.
CleanupExact ==
    [][phase # "open" /\ phase' = "open" =>
         \/ kind = "file" /\ \E d \in FileDigests : before'[d] = Foreign
         \/ \A d \in FileDigests :
              Visible(d)' = IF before'[d] \in Unread THEN Blank
                            ELSE IF Ageing /\ before'[d].r_updated # NoTime
                                           /\ opened' - before'[d].r_updated > age
                                 THEN Blank ELSE before'[d]]_fvars

CountOf(rec, op) == IF op = "report" THEN rec.r_count ELSE rec.wl_count

\* Whatever was answered ok is in the file: a run that starts now counts it,
\* unless a write of the whole file broke off or cleanup took the record.
AcknowledgedSurvives ==
    ~torn => \A d \in FileDigests, op \in FileOps :
        LET rows == IF kind = "file" THEN Loaded(disk) ELSE disk
        IN counted[d][op] > 0 =>
             /\ rows[d] \notin Unread
             /\ CountOf(rows[d], op) >= counted[d][op] \/ CountOf(rows[d], op) = MaxCount
=============================================================================
