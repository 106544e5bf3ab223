----------------------------- MODULE SetupCache -----------------------------
(***************************************************************************)
(* The powers of tau a process starts with (src/cli.rs, setup/prover.rs).  *)
(* serve takes them from the data directory's setup.bin if that holds      *)
(* enough, and otherwise fetches a ceremony file and writes setup.bin anew; *)
(* setup fetches and writes always.  A process may be killed at any point, *)
(* and nothing keeps a setup from writing the file a serve is starting on. *)
(*                                                                         *)
(* setup.bin is flat: its first k points are the first k powers whatever   *)
(* the capacity it was written for, so a cut-off file is a smaller setup.  *)
(* fs::read and fs::write are loops of calls that each move some of the    *)
(* bytes; they stop between two points, as page and buffer sizes are       *)
(* multiples of a point's.  A writer goes on at the offset it has reached, *)
(* even if another has truncated the file since, and the bytes it then     *)
(* leaves out are zeros, which are not a point of the curve.               *)
(***************************************************************************)
EXTENDS Naturals, FiniteSets, Sequences

CONSTANTS
    Procs,       \* processes run on one data directory
    RowCounts,   \* values given for --rows
    Published,   \* n such that the ceremony publishes a file for 2^n
    PointBytes,  \* POINT_SIZE, 32 in the code
    Word,        \* usize arithmetic is modulo this, 2^64 in the code
    FirstCaches, \* what setup.bin may be before any process ran
    MaxStarts    \* bound: processes started

(***************************************************************************)
(* A cache file: whether it exists, and for each point of it whether it is *)
(* the power of tau that belongs there.                                    *)
(***************************************************************************)
Cache == [exists: BOOLEAN, points: Seq(BOOLEAN)]

ASSUME SetupAssumption ==
    /\ RowCounts \subseteq 0 .. Word-1
    /\ Published \subseteq Nat
    /\ PointBytes \in Nat \ {0} /\ Word \in Nat /\ Word > PointBytes
    /\ \A cache \in FirstCaches : cache \in Cache
    /\ MaxStarts \in Nat

VARIABLES
    cache,     \* setup.bin
    proc,      \* per process: what it runs, for how many rows, how far it is
    made,      \* history: how setup.bin was written
    starts     \* processes started so far

vars == <<cache, proc, made, starts>>

Places == {"idle", "look", "read", "fetch", "open", "write", "ready", "exited",
           "failed"}

\* written: points written so far in "write"; read: those read so far in "read".
Proc == [pc: Places, serve: BOOLEAN, rows: RowCounts \cup {0}, powers: Nat,
         written: Nat, read: Seq(BOOLEAN)]

Idle == [pc |-> "idle", serve |-> FALSE, rows |-> 0, powers |-> 0,
         written |-> 0, read |-> <<>>]

(***************************************************************************)
(* setup.bin is a file no process here has opened ("foreign"), or was last *)
(* truncated when no other process was writing it ("alone"), when others   *)
(* were that write no more points than the one that truncated it           *)
(* ("shared"), or neither; and it is "spoilt" also if one of the writers   *)
(* of a shared file stopped before its end.                                *)
(***************************************************************************)
Histories == {"foreign", "alone", "shared", "spoilt"}

TypeOK ==
    /\ cache \in Cache
    /\ proc \in [Procs -> Proc]
    /\ \A p \in Procs : /\ proc[p].written <= proc[p].powers
                        /\ proc[p].pc # "write" => proc[p].written = 0
    /\ made \in Histories
    /\ starts \in 0 .. MaxStarts

Init ==
    /\ cache \in FirstCaches
    /\ proc = [p \in Procs |-> Idle]
    /\ made = "foreign"
    /\ starts = 0

---------------------------------------------------------------------------
TwoTo[n \in Nat] == IF n = 0 THEN 1 ELSE 2 * TwoTo[n-1]

\* The exponent of the least power of two that is at least m.
Log2Up(m) == CHOOSE n \in 0 .. m : TwoTo[n] >= m /\ (n = 0 \/ TwoTo[n-1] < m)

PowersFor(rows) == TwoTo[Log2Up(IF rows = 0 THEN 1 ELSE rows)]

\* capacity_for: in a release build next_power_of_two wraps to 0.
CapacityFor(rows) == PowersFor(rows) % Word

\* from_compressed computes the bytes of so many points; the product wraps.
PointsWanted(points) == ((points * PointBytes) % Word) \div PointBytes

\* Elsewhere a process has read and written nothing yet.
Go(p, place) ==
    proc' = [proc EXCEPT ![p].pc = place, ![p].written = 0, ![p].read = <<>>]

\* It goes on with so many powers.
Take(p, place, powers) ==
    proc' = [proc EXCEPT ![p].pc = place, ![p].powers = powers,
                         ![p].written = 0, ![p].read = <<>>]

Is(p, place) == proc[p].pc = place

Capacity(p) == CapacityFor(proc[p].rows)

---------------------------------------------------------------------------
Start(p, serve, rows) ==
    /\ Is(p, "idle")
    /\ starts < MaxStarts
    /\ starts' = starts + 1
    /\ proc' = [proc EXCEPT ![p] = [Idle EXCEPT !.pc = IF serve THEN "look" ELSE "fetch",
                                               !.serve = serve, !.rows = rows]]
    /\ UNCHANGED <<cache, made>>

Look(p) ==
    /\ Is(p, "look")
    /\ Go(p, IF cache.exists THEN "read" ELSE "fetch")
    /\ UNCHANGED <<cache, made, starts>>

\* fs::read: one more call, which returns some of what lies ahead.
ReadPoints(p) ==
    /\ Is(p, "read")
    /\ \E upTo \in Len(proc[p].read) + 1 .. Len(cache.points) :
          proc' = [proc EXCEPT ![p].read =
                      @ \o SubSeq(cache.points, Len(@) + 1, upTo)]
    /\ UNCHANGED <<cache, made, starts>>

AtEnd(p) == Len(proc[p].read) >= Len(cache.points)

\* Mistake: a file that is too short is used as it is.
ReadCache_Short(p) ==
    /\ Is(p, "read") /\ AtEnd(p)
    /\ Take(p, "ready", Len(proc[p].read))
    /\ UNCHANGED <<cache, made, starts>>

\* from_file: what reading so many points can end in.
FromFile(p, wanted) ==
    {"Read"} \cup
    {result \in {"TooSmall", "Ok", "Deserialize"} :
        /\ AtEnd(p)
        /\ result = "TooSmall" <=> wanted > Len(proc[p].read)
        /\ result = "Ok" => \A k \in 1 .. wanted : proc[p].read[k]
        /\ result = "Deserialize" => \E k \in 1 .. wanted : ~proc[p].read[k]}

\* Too short a file is fetched anew; any other error ends serve.
ReadCache(p) ==
    LET wanted == PointsWanted(Capacity(p)) IN
    /\ Is(p, "read")
    /\ \E result \in FromFile(p, wanted) :
          \/ result = "TooSmall" /\ Go(p, "fetch")
          \/ result \in {"Read", "Deserialize"} /\ Go(p, "failed")
          \/ result = "Ok" /\ Take(p, "ready", wanted)
    /\ UNCHANGED <<cache, made, starts>>

\* A file for 2^n holds 2^(n+1) - 1 powers.  A capacity of 0 has no
\* logarithm, and the process panics.
CanFetch(capacity) == capacity > 0 /\ Log2Up(capacity) \in Published

Fetch(p) ==
    /\ Is(p, "fetch")
    /\ \/ CanFetch(Capacity(p)) /\ Take(p, "open", Capacity(p))
       \/ Go(p, "failed")
    /\ UNCHANGED <<cache, made, starts>>

\* The processes that write the file beside p.
Beside(p) == {q \in Procs \ {p} : Is(q, "write")}

MadeBy(p) ==
    made' = IF Beside(p) = {} THEN "alone"
            ELSE IF \A q \in Beside(p) : proc[q].powers <= proc[p].powers THEN "shared"
            ELSE "spoilt"

\* Mistake: the file is opened without truncating it.
OpenCache_Keeps(p) ==
    /\ Is(p, "open")
    /\ cache' = [cache EXCEPT !.exists = TRUE]
    /\ MadeBy(p)
    /\ Go(p, "write")
    /\ UNCHANGED starts

\* fs::write first creates the file or truncates it.
OpenCache(p) ==
    /\ Is(p, "open")
    /\ cache' = [exists |-> TRUE, points |-> <<>>]
    /\ MadeBy(p)
    /\ Go(p, "write")
    /\ UNCHANGED starts

\* The points after the first `from`, up to the one at upTo, become powers; what
\* lies between the end of the file and them becomes zeros.
Written(points, from, upTo) ==
    [k \in 1 .. (IF upTo < Len(points) THEN Len(points) ELSE upTo) |->
        k \in from + 1 .. upTo \/ (k <= Len(points) /\ points[k])]

\* Mistake: after a call that wrote some of the points all of them are written.
WriteCache_Again(p) ==
    /\ Is(p, "write")
    /\ \E m \in 1 .. proc[p].powers :
          LET upTo == proc[p].written + m IN
          /\ cache' = [cache EXCEPT !.points = Written(@, proc[p].written, upTo)]
          /\ IF m < proc[p].powers
             THEN proc' = [proc EXCEPT ![p].written = upTo]
             ELSE Go(p, IF proc[p].serve THEN "ready" ELSE "exited")
    /\ UNCHANGED <<made, starts>>

\* fs::write: one more call, which writes some of what is left.
WriteCache(p) ==
    /\ Is(p, "write")
    /\ \E upTo \in proc[p].written + 1 .. proc[p].powers :
          /\ cache' = [cache EXCEPT !.points = Written(@, proc[p].written, upTo)]
          /\ IF upTo < proc[p].powers
             THEN proc' = [proc EXCEPT ![p].written = upTo]
             ELSE Go(p, IF proc[p].serve THEN "ready" ELSE "exited")
    /\ UNCHANGED <<made, starts>>

\* p writes no more.
Stops(p) == made' = IF Is(p, "write") /\ made = "shared" THEN "spoilt" ELSE made

\* The file cannot be opened, or its disk is full after some of it: the
\* process gives up, serve too, although it holds the powers.
WriteError(p) ==
    /\ Is(p, "open") \/ Is(p, "write")
    /\ Stops(p)
    /\ Go(p, "failed")
    /\ UNCHANGED <<cache, starts>>

\* The process is killed or has ended, and its place is free for another.
Kill(p) ==
    /\ ~Is(p, "idle")
    /\ Stops(p)
    /\ proc' = [proc EXCEPT ![p] = Idle]
    /\ UNCHANGED <<cache, starts>>

Next ==
    \E p \in Procs :
        \/ \E serve \in BOOLEAN, rows \in RowCounts : Start(p, serve, rows)
        \/ Look(p) \/ ReadPoints(p) \/ ReadCache(p) \/ Fetch(p)
        \/ OpenCache(p) \/ WriteCache(p) \/ WriteError(p)
        \/ Kill(p)

Spec == Init /\ [][Next]_vars

---------------------------------------------------------------------------
\* So many powers are counted in bytes without wrapping.
Countable(rows) == PowersFor(rows) * PointBytes < Word

(***************************************************************************)
(* A process that serves, or that wrote a setup, has powers for at least   *)
(* as many rows as it was asked for, however the file it read or wrote was *)
(* cut off, rewritten or written twice at once, if their bytes can be      *)
(* counted.                                                                *)
(***************************************************************************)
CoversRows ==
    \A p \in Procs : proc[p].pc \in {"ready", "exited"} /\ Countable(proc[p].rows)
        => proc[p].powers >= proc[p].rows

(***************************************************************************)
(* A setup.bin that was truncated while no other process was writing it is *)
(* made of powers of tau up to its end at every moment, wherever its       *)
(* writer stops.  One that was truncated beside other writers may have     *)
(* gaps, which a process that still writes will fill, if all of them write *)
(* no more than the one that truncated it, and none stops.  So a process   *)
(* leaves a file on which a later serve fails only if it truncates one     *)
(* that another still writes, and then is smaller or one of them stops.    *)
(***************************************************************************)
OwnCacheIsGood ==
    \A k \in 1 .. Len(cache.points) :
        /\ made = "alone" => cache.points[k]
        /\ made = "shared" =>
             \/ cache.points[k]
             \/ \E p \in Procs : /\ Is(p, "write")
                                 /\ k \in proc[p].written + 1 .. proc[p].powers

(***************************************************************************)
(* What ptau_url_for's comment says, "The ceremony file whose powers cover *)
(* `capacity`": the file asked for is one the ceremony publishes.          *)
(***************************************************************************)
FetchesPublished == \A p \in Procs : Is(p, "fetch") => CanFetch(Capacity(p))

(***************************************************************************)
(* What from_file's comment says, "Fails if the file cannot be read, holds *)
(* fewer than `points` powers": a serve that read its powers from the file *)
(* found as many as its capacity.                                          *)
(***************************************************************************)
FullCapacity ==
    \A p \in Procs : Is(p, "ready") => proc[p].powers = CapacityFor(proc[p].rows)
===========================================================================
