---------------------------- MODULE FactualContext ----------------------------
(***************************************************************************)
(* What race control has said of a session, and the laps under it.         *)
(*                                                                         *)
(* The control state (services/control_state.py): messages are given a     *)
(* meaning, and the meanings are folded into what holds now, by the time   *)
(* they took effect and not by the order in which they arrived.  Only the  *)
(* last MaxHistory of them are kept; once one was dropped, the current     *)
(* fields are no longer folded again but corrected.                        *)
(*                                                                         *)
(* The private factual context (services/intelligence_context.py): the     *)
(* laps of the drivers as race_history.py keeps them, judged by the        *)
(* control state, and the public row of a driver, which RaceStateEngine    *)
(* refreshes only for the drivers that advance_owned calls dirty.          *)
(*                                                                         *)
(* A lap is known by its number and may be sent again, corrected, deleted  *)
(* before or after it is sent, and judged again when race control speaks   *)
(* of a time it was driven at.  No duration and no start are written 0.    *)
(***************************************************************************)
EXTENDS Integers, Sequences, SequencesExt, FiniteSets

CONSTANTS Messages,      \* the kinds of message of race control
          Times,         \* when a message takes effect
          MaxHistory,    \* transitions kept (120 in the code)
          MaxFacts,      \* messages of a behaviour, a bound
          Drivers, Laps, Durations, Starts,
          MaxLaps,          \* laps kept of a driver (120 in the code)
          MaxDrivers,       \* drivers kept (64)
          Stints,           \* laps a stint may start at
          Stops             \* laps that may end in the pits: the next may be an out lap

ControlAssumption ==
    /\ Times \subseteq Nat \ {0} /\ MaxHistory \in Nat \ {0} /\ MaxFacts \in Nat

FactsAssumption ==
    /\ Laps \subseteq Nat \ {0} /\ Durations \subseteq Nat \ {0} /\ Starts \subseteq Nat \ {0}
    /\ MaxLaps \in Nat \ {0} /\ MaxDrivers \in Nat \ {0} /\ Stints \subseteq Nat \ {0} /\ Stops \subseteq Laps

VARIABLES ctl,      \* the ControlProjection
          facts,    \* every transition so far, in arrival order
          laps,        \* history.drivers: the laps of the drivers known
          pits, stint,
          cut,         \* lap or driver history truncated, or a deletion unresolved
          rows,        \* the public rows
          told, gone   \* every lap ever sent, with its last duration; every lap ever deleted

controlVars == <<ctl, facts>>
factVars == <<laps, pits, stint, cut, rows, told, gone>>
vars == <<controlVars, factVars>>

-----------------------------------------------------------------------------
(* What race control says: normalize_control_payload and apply_control. *)

None == "none"
Silent == [lifecycle |-> None, neutral |-> None, drs |-> None, flag |-> None, sector |-> 0]

\* normalize_control_payload, per kind of message; a penalty or an
\* investigation that mentions a condition says nothing.
Meaning(m) ==
    CASE m = "red flag" ->
            [Silent EXCEPT !.lifecycle = "suspended", !.neutral = "red", !.flag = "red"]
      [] m = "suspended" -> [Silent EXCEPT !.lifecycle = "suspended", !.neutral = "red"]
      [] m = "resumed" -> [Silent EXCEPT !.lifecycle = "running"]
      [] m = "finished" -> [Silent EXCEPT !.lifecycle = "finished"]
      [] m = "green" -> [Silent EXCEPT !.neutral = "green", !.flag = "green"]
      [] m = "safety car" -> [Silent EXCEPT !.neutral = "safety_car"]
      [] m = "yellow" -> [Silent EXCEPT !.flag = "yellow"]
      [] m = "sector yellow" -> [Silent EXCEPT !.flag = "yellow", !.sector = 1]
      [] m = "sector clear" -> [Silent EXCEPT !.flag = "green", !.sector = 1]
      [] m = "drs enabled" -> [Silent EXCEPT !.drs = "enabled"]
      [] m = "penalty" -> Silent

Row(m, at, seq) == [at |-> at, seq |-> seq, is |-> Meaning(m)]

Earlier(a, b) == a.at < b.at \/ (a.at = b.at /\ a.seq < b.seq)
InEffect(list) == SortSeq(list, Earlier)
Stamp(row) == [at |-> row.at, seq |-> row.seq]

Unknown == [value |-> "unknown", by |-> [at |-> 0, seq |-> 0]]
Seen(value, row) == [value |-> value, by |-> Stamp(row)]

Empty == [lifecycle |-> Unknown, neutral |-> Unknown, drs |-> Unknown, track |-> Unknown,
          sector |-> Unknown, history |-> <<>>, truncated |-> FALSE]

Observe(old, value, row) ==
    IF value = None \/ Earlier(row, old.by) THEN old ELSE Seen(value, row)

Flags(c, track, row) ==
    [c EXCEPT !.track = IF row.is.sector = 0 THEN Observe(track, row.is.flag, row) ELSE track,
              !.sector = IF row.is.sector # 0 THEN Observe(@, row.is.flag, row) ELSE @]

\* One row of the rebuild: a start or a resume ends a red, nothing ends a finish.
Fold(c, row) ==
    LET open == c.lifecycle.value # "finished"
        lift(o) == IF row.is.lifecycle = "running" /\ open /\ o.value = "red"
                   THEN Seen("unknown", row) ELSE o
    IN  Flags([c EXCEPT !.lifecycle = IF row.is.lifecycle # None /\ open
                                      THEN Seen(row.is.lifecycle, row) ELSE @,
                        !.neutral = Observe(lift(@), row.is.neutral, row),
                        !.drs = Observe(@, row.is.drs, row)],
              lift(c.track), row)

Rebuild(list) == FoldLeft(Fold, Empty, InEffect(list))

Finish(c, row) ==
    IF c.lifecycle.value # "finished" \/ Earlier(row, c.lifecycle.by)
    THEN Seen("finished", row) ELSE c.lifecycle

\* _invalidate_red_before_retained_running
RedEnds(o, list) ==
    LET later == SelectSeq(InEffect(list),
                           LAMBDA r : r.is.lifecycle = "running" /\ Earlier(o.by, r))
    IN  IF o.value = "red" /\ later # <<>> THEN Seen("unknown", Head(later)) ELSE o

\* The current fields once the history was truncated.
Correct(c, row, kept) ==
    LET resumes == row.is.lifecycle = "running" /\ c.lifecycle.value # "finished"
        neutral == IF resumes /\ c.neutral.value = "red" THEN "unknown" ELSE row.is.neutral
        flag == IF resumes /\ c.track.value = "red" THEN "unknown" ELSE row.is.flag
        said == [row EXCEPT !.is.neutral = neutral, !.is.flag = flag]
        next == Flags([c EXCEPT
                    !.lifecycle = IF row.is.lifecycle = "finished" THEN Finish(c, row)
                                  ELSE IF @.value = "finished" THEN @
                                  ELSE Observe(@, row.is.lifecycle, row),
                    !.neutral = Observe(@, neutral, row),
                    !.drs = Observe(@, row.is.drs, row)], c.track, said)
    IN  [next EXCEPT !.neutral = RedEnds(@, kept), !.track = RedEnds(@, kept)]

Kept(list) == IF Len(list) > MaxHistory THEN Tail(list) ELSE list

\* apply_control: a message that means nothing is not kept.
Applied(c, row) ==
    LET grown == IF row.is = Silent THEN c.history ELSE Append(c.history, row)
        over == Len(grown) > MaxHistory
        kept == Kept(grown)
        now == IF c.truncated \/ over THEN Correct(c, row, kept) ELSE Rebuild(kept)
    IN  [now EXCEPT !.history = kept, !.truncated = c.truncated \/ over]

-----------------------------------------------------------------------------

Tell(m, at) ==
    LET row == Row(m, at, Len(facts) + 1)
    IN  /\ Len(facts) < MaxFacts
        /\ ctl' = Applied(ctl, row)
        /\ facts' = Append(facts, row)

ControlNext == \E m \in Messages, at \in Times : Tell(m, at)

(***************************************************************************)
(* lap_control_context: what a lap was driven under.                       *)
(***************************************************************************)

Unsafe(flag) == flag \in {"yellow", "red"}

Flagged(c, row) ==
    IF row.is.flag = None THEN c
    ELSE IF row.is.sector = 0 THEN [c EXCEPT !.track = row.is.flag]
    ELSE [c EXCEPT !.sector = row.is.flag]

Danger(c) == Unsafe(c.track) \/ Unsafe(c.sector)

LapStep(c, row, starts) ==
    LET first == row.at > starts /\ ~c.known
        known == c.known \/ (first /\ c.neutral # "unknown")
        before == c.unsafe \/ (first /\ (c.neutral # "green" \/ Danger(c)))
        resumes == row.is.lifecycle = "running"
        clear(v) == IF resumes /\ v = "red" THEN "unknown" ELSE v
        neutral == IF row.is.neutral # None THEN row.is.neutral ELSE clear(c.neutral)
        said == Flagged([c EXCEPT !.neutral = neutral, !.track = clear(@)], row)
    IN  IF c.lost \/ (first /\ c.neutral = "unknown") THEN [c EXCEPT !.lost = TRUE]
        ELSE [said EXCEPT !.known = known,
                          !.unsafe = before \/ (row.at >= starts
                              /\ (neutral \notin {"green", "unknown"} \/ Danger(said)))]

LapContext(c, starts, ends) ==
    LET list == InEffect(SelectSeq(c.history, LAMBDA r : r.at <= ends))
        start == [neutral |-> "unknown", track |-> "none", sector |-> "none",
                  known |-> FALSE, unsafe |-> FALSE, lost |-> FALSE]
        seen == FoldLeft(LAMBDA s, r : LapStep(s, r, starts), start, list)
    IN  CASE ends < starts \/ c.truncated \/ seen.lost -> "unknown"
          [] OTHER -> IF seen.unsafe THEN "neutralized"
                      ELSE IF seen.neutral = "unknown" \/ "unknown" \in {seen.track, seen.sector}
                      THEN "unknown"
                      ELSE IF seen.neutral # "green" \/ Danger(seen) THEN "neutralized"
                      ELSE "green"

-----------------------------------------------------------------------------
(* The laps under the control state. *)

Known == DOMAIN laps
Lap(n, dur, start, deleted, excl) ==
    [n |-> n, dur |-> dur, start |-> start, span |-> IF start = 0 THEN 0 ELSE dur,
     deleted |-> deleted, excl |-> excl]
Same(S, n) == {l \in S : l.n = n}

\* The latest laps of a driver are kept.
Latest(S) == {l \in S : Cardinality({o \in S : o.n > l.n}) < MaxLaps}

\* What a lap was driven under, as far as is known.
Context(c, l) == IF l.start = 0 THEN "unknown" ELSE LapContext(c, l.start, l.start + l.span)
ByControl == {"neutralized", "control_unknown"}

Judged(c, l) ==
    [l EXCEPT !.excl = (@ \ ByControl) \cup CASE Context(c, l) = "green" -> {}
                                              [] Context(c, l) = "neutralized" -> {"neutralized"}
                                              [] OTHER -> {"control_unknown"}]

AllJudged(c, S) == {Judged(c, l) : l \in S}

-----------------------------------------------------------------------------
(* The public row of a driver: _refresh_driver_history. *)

Clean(l) == l.dur # 0 /\ ~l.deleted /\ l.excl = {}
Timed(S) == {l \in S : l.dur # 0}
Valid(S) == {l \in Timed(S) : ~l.deleted}

NoRow == [completed |-> 0, latest |-> 0, best |-> 0, said |-> "unknown", pace |-> {}]

Public(S, from, missing) ==
    LET last == IF Timed(S) = {} THEN 0 ELSE Max({l.n : l \in Timed(S)})
    IN  [completed |-> last,
         latest |-> IF Same(Valid(S), last) = {} THEN 0
                    ELSE (CHOOSE l \in Same(Valid(S), last) : TRUE).dur,
         best |-> IF missing \/ Valid(S) = {} THEN 0 ELSE Min({l.dur : l \in Valid(S)}),
         said |-> IF missing THEN "partial" ELSE IF Valid(S) = {} THEN "unknown" ELSE "available",
         pace |-> IF from = 0 THEN {} ELSE {l.n : l \in {o \in S : o.n >= from /\ Clean(o)}}]

Dirty(own, before, after, of) == IF before = after THEN own ELSE of

Refresh(H, missing, dirty, base) ==
    [d \in Drivers |-> IF d \in dirty \cap DOMAIN H THEN Public(H[d], stint'[d], missing)
                       ELSE base[d]]

-----------------------------------------------------------------------------
FactsInit ==
    /\ ctl = Empty /\ facts = <<>>
    /\ laps = << >> /\ pits = [d \in Drivers |-> {}] /\ stint = [d \in Drivers |-> 0]
    /\ cut = FALSE /\ rows = [d \in Drivers |-> NoRow]
    /\ told = << >> /\ gone = {}

\* A driver who does not fit in the roster is not kept.
Enters(d) == d \in Known \/ Cardinality(Known) < MaxDrivers
With(d, S) == [x \in Known \cup {d} |-> IF x = d THEN S ELSE laps[x]]
Of(d) == IF d \in Known THEN laps[d] ELSE {}

\* _apply_event writes what the payload says before the row is refreshed.
Raw(d, n, dur) ==
    [rows EXCEPT ![d].completed = Max({@, n}),
                 ![d].latest = IF dur = 0 THEN @ ELSE dur,
                 ![d].best = IF dur = 0 \/ (@ # 0 /\ @ < dur) THEN @ ELSE dur]

Keep(d, S, base) ==
    LET kept == Latest(S)
        missing == cut \/ kept # S
    IN  /\ laps' = With(d, kept) /\ cut' = missing
        /\ rows' = Refresh(laps', missing, Dirty({d}, cut, missing, Drivers), base)

Miss(base) ==
    /\ cut' = TRUE /\ UNCHANGED laps
    /\ rows' = Refresh(laps, TRUE, Dirty({}, cut, TRUE, Drivers), base)

\* A correction keeps the deletion, the pit exit and the start it does not name.
Merged(old, new) ==
    IF old = {} THEN new
    ELSE LET was == CHOOSE l \in old : TRUE
             timed == new.start # 0 /\ new.dur # 0
         IN  [new EXCEPT !.deleted = was.deleted,
                         !.start = IF timed THEN @ ELSE was.start,
                         !.span = IF timed THEN @ ELSE was.span,
                         !.excl = @ \cup (was.excl \cap {"pit_out"})]

LapCompleted(d, n, dur, start, out) ==
    LET excl == (IF dur = 0 THEN {"missing_duration"} ELSE {})
                    \cup (IF out THEN {"pit_out"} ELSE {})
                    \cup (IF n \in pits[d] THEN {"pit_in"} ELSE {})
        timed == IF dur = 0 THEN 0 ELSE start
        lap == Merged(Same(Of(d), n), Lap(n, dur, timed, FALSE, excl))
        base == Raw(d, n, dur)
    IN  /\ UNCHANGED <<controlVars, pits, stint, gone>>
        /\ IF Enters(d) THEN Keep(d, (Of(d) \ Same(Of(d), n)) \cup {Judged(ctl, lap)}, base)
           ELSE Miss(base)
        /\ told' = [x \in DOMAIN told \cup {<<d, n>>} |-> IF x = <<d, n>> THEN dur ELSE told[x]]

\* The deletion of a lap not sent yet is kept as a lap without a duration.
Deleted(S, n) ==
    LET of == IF Same(S, n) = {} THEN {Lap(n, 0, 0, FALSE, {"missing_duration"})} ELSE Same(S, n)
    IN  (S \ Same(S, n)) \cup {[l EXCEPT !.deleted = TRUE] : l \in of}

LapDeleted(d, n) ==
    /\ UNCHANGED <<controlVars, pits, stint, told>>
    /\ IF Enters(d)
       THEN Keep(d, {IF l.n = n THEN Judged(ctl, l) ELSE l : l \in Deleted(Of(d), n)}, rows)
       ELSE Miss(rows)
    /\ gone' = gone \cup {<<d, n>>}

\* A deletion that names no driver or no lap: which lap it was is not known.
LapDeletedUnnamed ==
    /\ UNCHANGED <<controlVars, pits, stint, told, gone>>
    /\ Miss(rows)

Pitted(S, n) == {IF l.n = n THEN [l EXCEPT !.excl = @ \cup {"pit_in"}] ELSE l : l \in S}

PitStop(d, n) ==
    /\ UNCHANGED <<controlVars, stint, told, gone>>
    /\ IF Enters(d)
       THEN /\ pits' = [pits EXCEPT ![d] = @ \cup {n}]
            /\ Keep(d, {IF l.n = n THEN Judged(ctl, l) ELSE l : l \in Pitted(Of(d), n)}, rows)
       ELSE Miss(rows) /\ UNCHANGED pits

StintUpdate(d, from) ==
    /\ stint' = IF Enters(d) THEN [stint EXCEPT ![d] = from] ELSE stint
    /\ IF Enters(d) THEN Keep(d, Of(d), rows) ELSE Miss(rows)
    /\ UNCHANGED <<controlVars, pits, told, gone>>

\* Race control speaks: every lap is judged again, and the drivers of whom one
\* was judged otherwise are refreshed.
Control(m, at) ==
    /\ Tell(m, at)
    /\ UNCHANGED <<pits, stint, cut, told, gone>>
    /\ laps' = [d \in Known |-> AllJudged(ctl', laps[d])]
    /\ rows' = Refresh(laps', cut, {d \in Known : laps'[d] # laps[d]}, rows)

FactsNext ==
    \/ \E d \in Drivers, n \in Laps :
            \/ \E dur \in Durations \cup {0}, start \in Starts \cup {0} :
                    \/ LapCompleted(d, n, dur, start, FALSE)
                    \/ n - 1 \in Stops /\ LapCompleted(d, n, dur, start, TRUE)
            \/ LapDeleted(d, n)
            \/ n \in Stops /\ PitStop(d, n)
    \/ LapDeletedUnnamed
    \/ \E d \in Drivers, from \in Stints : StintUpdate(d, from)
    \/ \E m \in Messages, at \in Times : Control(m, at)

-----------------------------------------------------------------------------
Values == {"unknown", "suspended", "running", "finished", "red", "green", "safety_car", "yellow",
           "enabled"}
Observations == [value : Values, by : [at : Times \cup {0}, seq : 0..MaxFacts]]

\* What race control holds has its type, and the history its bound.
ControlTypeOK ==
    /\ \A f \in {"lifecycle", "neutral", "drs", "track", "sector"} : ctl[f] \in Observations
    /\ Len(ctl.history) <= MaxHistory /\ ctl.truncated \in BOOLEAN

Rows(is(_)) == {r \in {facts[i] : i \in DOMAIN facts} : is(r)}

\* A session that was ever called finished stays finished, by the finish that
\* took effect first, also when the messages before it were dropped.
FinishKept ==
    LET ends == Rows(LAMBDA r : r.is.lifecycle = "finished")
    IN  IF ends = {} THEN ctl.lifecycle.value # "finished"
        ELSE /\ ctl.lifecycle.value = "finished"
             /\ \A r \in ends : ~Earlier(r, ctl.lifecycle.by)

\* The latest message in effect is the one that holds, whatever was dropped
\* and in whatever order messages came; where a red was lifted by a resume
\* nothing may be known, but nothing older is shown.
Holds(o, value(_)) ==
    LET said == Rows(LAMBDA r : value(r) # None)
    IN  \A r \in said :
            (\A q \in said : ~Earlier(r, q)) =>
                \/ o.value = value(r)
                \/ o.value = "unknown" /\ \E q \in said : value(q) = "red"
LatestHolds ==
    /\ Holds(ctl.neutral, LAMBDA r : r.is.neutral)
    /\ Holds(ctl.drs, LAMBDA r : r.is.drs)
    /\ Holds(ctl.track, LAMBDA r : IF r.is.sector = 0 THEN r.is.flag ELSE None)
    /\ Holds(ctl.sector, LAMBDA r : IF r.is.sector # 0 THEN r.is.flag ELSE None)

\* A lap up to now that is called green agrees with what holds now, although
\* the two are folded by different code.
GreenAgrees ==
    \A at \in Times :
        LapContext(ctl, at, Max(Times)) = "green" =>
            /\ ctl.neutral.value = "green"
            /\ ~Unsafe(ctl.track.value) /\ ~Unsafe(ctl.sector.value)

Exclusions == {"missing_duration", "pit_out", "pit_in"} \cup ByControl

\* What is kept of the drivers has its type and its bounds, and nobody keeps a
\* lap twice.
FactsTypeOK ==
    /\ Known \subseteq Drivers /\ Cardinality(Known) <= MaxDrivers
    /\ \A d \in Known :
        /\ Cardinality(laps[d]) <= MaxLaps
        /\ \A l \in laps[d] :
            l.n \in Laps /\ l.dur \in Durations \cup {0} /\ l.excl \subseteq Exclusions
                /\ Cardinality(Same(laps[d], l.n)) = 1

\* A best lap that is called available is the best of all the laps ever sent
\* that nobody deleted, in whatever order laps, corrections and deletions came.
BestIsBest ==
    \A d \in Drivers :
        LET counted == {told[x] : x \in {y \in DOMAIN told \ gone : y[1] = d /\ told[y] # 0}}
        IN  rows[d].said = "available" => counted # {} /\ rows[d].best = Min(counted)

\* Every lap is excluded for what race control says of its time now, although
\* only the lap an event addresses is judged again.
JudgedNow ==
    \A d \in Known : \A l \in laps[d] : l = Judged(ctl, l)

\* The lap of a stop is not a racing lap, whichever came first; one known only
\* by its deletion has no duration to count.
StopsExcluded ==
    \A d \in Known : \A l \in laps[d] : l.n \in pits[d] /\ l.dur # 0 => "pit_in" \in l.excl

\* The public row of a driver is what his history says, although only the
\* drivers called dirty are refreshed.
RowsCurrent == \A d \in Known : rows[d] = Public(laps[d], stint[d], cut)
=============================================================================
