-------------------------------- MODULE Times --------------------------------
(***************************************************************************)
(* A moment on its way into the history and out of it again: the gateway's *)
(* timestamp is read and normalised (normaliseTime and timeInstant,        *)
(* src/gateway/decode.ts), or the clock is (instantOfDate); it is written  *)
(* into a TIMESTAMP of whole seconds (src/db/time.ts, src/persistence.ts)  *)
(* and listed from there.                                                  *)
(*                                                                         *)
(* A text is a day and clock reading, counted in seconds (`local`), a      *)
(* fraction, which may be finer than a nanosecond, and a zone.  Malformed  *)
(* texts are not here: they refuse the whole answer, as in Decoding.  Time *)
(* is counted in the units below, fewer to the next one than there are.    *)
(*                                                                         *)
(* External: MySQL rounds to the second and refuses what a TIMESTAMP does  *)
(* not reach.                                                              *)
(***************************************************************************)
EXTENDS Integers, FiniteSets

CONSTANTS
    FinePerNano, NanosPerMicro, MicrosPerMilli, MillisPerSecond,
    SecondsPerMinute, MinutesPerHour, HoursPerDay,
    ZERO_SECONDS,                \* the zero time, and the first second of year 1
    LastSecond,                  \* the end of year 9999
    FirstStored, LastStored,     \* the first and the last second a TIMESTAMP holds
    Stamps,                      \* timestamps of the gateway: [local, fraction, zone]
    Clocks,                      \* readings of the clock, in milliseconds
    Events                       \* what is recorded

MicrosPerSecond == MicrosPerMilli * MillisPerSecond
NanosPerSecond  == NanosPerMicro * MicrosPerSecond
Day             == HoursPerDay * MinutesPerHour * SecondsPerMinute

Z == [sign |-> "Z", hours |-> 0, minutes |-> 0]

ASSUME TimesAssumption ==
    /\ {FinePerNano, NanosPerMicro, MicrosPerMilli, MillisPerSecond,
        SecondsPerMinute, MinutesPerHour, HoursPerDay} \subseteq Nat \ {0}
    /\ MicrosPerSecond % 2 = 0
    /\ {ZERO_SECONDS, FirstStored, LastStored, LastSecond} \cup Clocks \subseteq Int
    /\ ZERO_SECONDS < FirstStored /\ FirstStored < LastStored /\ LastStored < LastSecond
    /\ \A s \in Stamps : /\ s.local \in Int /\ s.fraction \in 0..(FinePerNano * NanosPerSecond - 1)
                         /\ s.zone = Z \/ s.zone.sign \in {"+", "-"}
                         /\ s.zone.hours \in 0..HoursPerDay /\ s.zone.minutes \in 0..MinutesPerHour

VARIABLES
    what,    \* per event: "trade", "contract" (that holds a time) or "delivery"
    stamp,   \* the gateway's timestamp
    clock,   \* the clock's reading when the event is recorded
    field,   \* the decoded timestamp: [text, encodable], or Unread
    column   \* what the write left: [state, second], nothing so far, a row, or none because it failed

timesVars == <<what, stamp, clock, field, column>>

Unread == [text |-> [local |-> 0, fraction |-> 0, zone |-> [Z EXCEPT !.sign = ""]], encodable |-> FALSE]

Unwritten      == [state |-> "none", second |-> 0]
Lost           == [state |-> "lost", second |-> 0]
Stored(second) == [state |-> "stored", second |-> second]

-----------------------------------------------------------------------------
(* The offset a zone writes, in seconds. *)
Offset(zone) == (zone.hours * MinutesPerHour + zone.minutes) * SecondsPerMinute

(* Mutant: the offset's sign is overlooked. *)
UnsignedInstant(text) ==
    [seconds |-> text.local - Offset(text.zone), nanos |-> text.fraction \div FinePerNano]

(* The instant a text names: what it says beyond the nanosecond is cut off. *)
TimeInstant(text) ==
    [seconds |-> text.local - (IF text.zone.sign = "-" THEN 0 - Offset(text.zone) ELSE Offset(text.zone)),
     nanos   |-> text.fraction \div FinePerNano]

(* The zone as it is written again: any zero offset is Z, sixty minutes are an hour. *)
Recomputed(zone) ==
    IF Offset(zone) = 0 THEN Z
    ELSE [sign    |-> zone.sign,
          hours   |-> Offset(zone) \div (MinutesPerHour * SecondsPerMinute),
          minutes |-> (Offset(zone) % (MinutesPerHour * SecondsPerMinute)) \div SecondsPerMinute]

(* normaliseTime: an offset of a day or more is read, but kept as it was, and cannot be written. *)
NormaliseTime(text) ==
    IF Offset(text.zone) >= Day THEN [text |-> text, encodable |-> FALSE]
    ELSE [encodable |-> TRUE,
          text |-> [local    |-> text.local,
                    fraction |-> FinePerNano * (text.fraction \div FinePerNano),
                    zone     |-> Recomputed(text.zone)]]

InstantOfDate(ms) ==
    [seconds |-> ms \div MillisPerSecond, nanos |-> (ms % MillisPerSecond) * MicrosPerMilli * NanosPerMicro]

IsZeroTime(t) == t.seconds = ZERO_SECONDS /\ t.nanos = 0

(* Mutant: the zero time is a time like any other. *)
StampAsItIs(value, now) == TimeInstant(value.text)

(* occurredAt: the gateway's timestamp, or now when it is the zero time. *)
OccurredAt(value, now) == IF IsZeroTime(TimeInstant(value.text)) THEN InstantOfDate(now) ELSE TimeInstant(value.text)

(* fields: a year outside 1..9999 is an error. *)
Writable(t) == ZERO_SECONDS <= t.seconds /\ t.seconds <= LastSecond

(* toSqlTime: microseconds, the rest cut off. *)
ToSqlTime(t) == [seconds |-> t.seconds, micros |-> t.nanos \div NanosPerMicro]

(* The second MySQL makes of it. *)
Rounded(text) == IF 2 * text.micros >= MicrosPerSecond THEN text.seconds + 1 ELSE text.seconds

(* What is in the column then; a write that is refused is logged and the caller still answered. *)
Column(t) ==
    IF Writable(t) /\ Rounded(ToSqlTime(t)) \in FirstStored..LastStored THEN Stored(Rounded(ToSqlTime(t))) ELSE Lost

-----------------------------------------------------------------------------
TimesInit ==
    /\ what \in [Events -> {"trade", "contract", "delivery"}]
    /\ stamp \in [Events -> Stamps]
    /\ clock \in [Events -> Clocks]
    /\ field = [e \in Events |-> Unread]
    /\ column = [e \in Events |-> Unwritten]

(* The gateway's answer is decoded. *)
DecodeTime(e) ==
    /\ what[e] # "delivery" /\ field[e] = Unread
    /\ field' = [field EXCEPT ![e] = NormaliseTime(stamp[e])]
    /\ UNCHANGED <<what, stamp, clock, column>>

(* persistShipPurchase and persistCargoTrade. *)
PersistTrade(e) ==
    /\ what[e] = "trade" /\ field[e] # Unread /\ column[e] = Unwritten
    /\ column' = [column EXCEPT ![e] = Column(OccurredAt(field[e], clock[e]))]
    /\ UNCHANGED <<what, stamp, clock, field>>

(* persistContract: a contract that cannot be marshalled is not stored, and any other as of now. *)
PersistContract(e) ==
    /\ what[e] = "contract" /\ field[e] # Unread /\ column[e] = Unwritten
    /\ column' = [column EXCEPT ![e] = IF field[e].encodable THEN Column(InstantOfDate(clock[e])) ELSE Lost]
    /\ UNCHANGED <<what, stamp, clock, field>>

(* recordDelivery: delivered now. *)
RecordDelivery(e) ==
    /\ what[e] = "delivery" /\ column[e] = Unwritten
    /\ column' = [column EXCEPT ![e] = Column(InstantOfDate(clock[e]))]
    /\ UNCHANGED <<what, stamp, clock, field>>

TimesNext == \E e \in Events : DecodeTime(e) \/ PersistTrade(e) \/ PersistContract(e) \/ RecordDelivery(e)

TimesSpec == TimesInit /\ [][TimesNext]_timesVars
-----------------------------------------------------------------------------
(* When an event was, in nanoseconds: as the gateway's text says it, or else by the clock. *)
Written(text) ==
    LET shift == NanosPerSecond * Offset(text.zone)
        here  == NanosPerSecond * text.local + text.fraction \div FinePerNano
    IN  IF text.zone.sign = "-" THEN here + shift ELSE here - shift

Missing(e) == Written(stamp[e]) = NanosPerSecond * ZERO_SECONDS

When(e) ==
    IF what[e] # "trade" \/ Missing(e) THEN clock[e] * MicrosPerMilli * NanosPerMicro ELSE Written(stamp[e])

(***************************************************************************)
(* What is listed of an event is the second next to the moment the caller  *)
(* was told, to half a second, however the zone and the fraction were      *)
(* written and however often they are rewritten on the way; a trade        *)
(* without a timestamp is as of now.  Nothing is lost but what the column  *)
(* cannot hold and a contract whose time cannot be written.  (src/db/      *)
(* time.ts:49, src/persistence.ts:44, src/gateway/decode.ts:118.)          *)
(***************************************************************************)
ListedAsTold ==
    \A e \in Events :
        /\ field[e].encodable => /\ Written(field[e].text) = Written(stamp[e])
                                 /\ NormaliseTime(field[e].text) = field[e]
        /\ column[e].state = "stored" =>
               2 * NanosPerSecond * column[e].second - 2 * When(e) \in (0 - NanosPerSecond)..NanosPerSecond
        /\ column[e] = Lost =>
               \/ what[e] = "contract" /\ ~field[e].encodable
               \/ 2 * When(e) < 2 * NanosPerSecond * FirstStored - NanosPerSecond
               \/ 2 * When(e) >= 2 * NanosPerSecond * LastStored + NanosPerSecond

(***************************************************************************)
(* The lists are ordered by the column: an event is never listed as older  *)
(* than one that was before it, not by a fraction that is cut, rounded or  *)
(* carried into the next second, nor by a zone.  (src/db/history.ts:178.)  *)
(***************************************************************************)
ListedInOrder ==
    \A d, e \in Events :
        column[d].state = "stored" /\ column[e].state = "stored" /\ When(d) <= When(e)
            => column[d].second <= column[e].second
(* The history tells the time of an event, and the order of events, as the caller was told them. *)
HistoryKeepsTime == ListedAsTold /\ ListedInOrder
=============================================================================
