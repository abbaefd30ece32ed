------------------------------- MODULE Alerts -------------------------------
(***************************************************************************)
(* The alerts worker (app/worker/alerts.py, domain/alerts.py, notifier.py) *)
(* for one box of the dashboard.  A check takes an advisory try-lock,      *)
(* reads box, settings and states, decides, sends one message after the    *)
(* other to Telegram and then stores the states of the accepted ones; the  *)
(* price, the box, the settings and the clock move on meanwhile.           *)
(*                                                                         *)
(* Codes are named by their letters: a, b (top / bottom reached), c, d     *)
(* (near), e (expiry reached), f (expiry near).                            *)
(***************************************************************************)
EXTENDS Integers, FiniteSets

CONSTANTS
    Workers,        \* processes that may run a check (pm2 worker, manual run)
    Codes,          \* the codes modelled, among "a" .. "f"
    Situations,     \* sets of price codes that can be hit at the same time
    SettingValues,  \* what a setting may become: "none" (no row), "off", "on"
    Expiries,       \* the last expiries the box can have, as times
    Horizon,        \* bound: later than this, all times are alike
    Lead,           \* [time codes -> Nat]: thresholds of e and f, in time units
    Grace,          \* ALERTS_EXPIRY_GRACE_HOURS
    Rearm,          \* ALERTS_REARM_MINUTES
    EndsMayShrink,  \* a leg with the latest expiry may be moved out of the box
    MaxFaults       \* bound: messages or checks that go wrong

PriceCodes == Codes \cap {"a", "b", "c", "d"}
TimeCodes == Codes \cap {"e", "f"}
SuppressedBy == [c |-> "a", d |-> "b", f |-> "e"]
Covering(c) == IF c \in DOMAIN SuppressedBy THEN {SuppressedBy[c]} \cap Codes ELSE {}
Rank == [a |-> 1, b |-> 2, c |-> 3, d |-> 4, e |-> 5, f |-> 6]

None == "none"
NoExpiry == -1

ASSUME AlertsAssumption ==
    /\ None \notin Workers
    /\ Codes \subseteq {"a", "b", "c", "d", "e", "f"}
    /\ Situations \subseteq SUBSET PriceCodes /\ Situations # {}
    /\ SettingValues \subseteq {"none", "off", "on"}
    /\ Expiries \subseteq Nat /\ Expiries # {}
    /\ Horizon \in Nat /\ Grace \in Nat /\ Rearm \in Nat /\ MaxFaults \in Nat
    /\ Lead \in [TimeCodes -> Nat]
    /\ EndsMayShrink \in BOOLEAN

VARIABLES
    hit,        \* price codes on whose far side the price is now
    known,      \* a current price can be had
    leg,        \* the box's last leg: "open", "gone" (closed early, or not seen
                \* any more and no close collected yet), or "settled" at its expiry
    ends,       \* gold.box_shape.ends_at: the last expiry
    now,        \* the clock, standing still at Horizon
    setting,    \* core.notification_setting
    watched,    \* the box exists and its send_notifications is on
    armed,      \* core.notification_state.armed
    fired,      \* core.notification_state.fired_for_ends_at
    age,        \* time since last_sent_at, standing still at Rearm
    lock,       \* holder of the alerts advisory lock
    check,      \* what each worker's check has decided and done
    faults,     \* faults so far
    copies,     \* history: messages delivered per crossing, see below
    heard       \* history: what the chat was told of since it was last armed

box == <<hit, known, leg, ends, now, setting, watched>>
states == <<armed, fired, age>>
vars == <<box, states, lock, check, faults, copies, heard>>

\* A crossing is <<price code, 0>>, an expiry is <<time code, expiry>>.
Crossing(c) == <<c, 0>>
Occasions == (PriceCodes \X {0}) \cup (TimeCodes \X Expiries)
Occasion(c, e) == IF c \in PriceCodes THEN Crossing(c) ELSE <<c, e>>

NoCheck == [pc |-> "idle", todo |-> {}, ok |-> {}, rearm |-> {}, done |-> {},
            age |-> 0, ends |-> 0]

Init ==
    /\ hit \in Situations /\ known = TRUE
    /\ leg = "open" /\ ends \in Expiries /\ now = 0
    /\ setting = [c \in Codes |-> "on"] /\ watched = TRUE
    /\ armed = [c \in PriceCodes |-> TRUE]
    /\ fired = [c \in TimeCodes |-> NoExpiry]
    /\ age = [c \in PriceCodes |-> Rearm]
    /\ lock = None
    /\ check = [w \in Workers |-> NoCheck]
    /\ faults = 0
    /\ copies = [o \in Occasions |-> 0]
    /\ heard = {}

---------------------------------------------------------------------------
(* What the check finds.                                                   *)

\* is_alive: a leg that is open and not expired
Alive == leg = "open" /\ now < ends

\* load_boxes: still open, or past the last expiry by less than the grace
Listed == watched /\ (leg = "open" \/ now <= ends + Grace)

\* price codes compared with the price in this check
Compared == {c \in PriceCodes : setting[c] = "on" /\ Alive /\ known}

\* Mutant: an unknown price counts as back on the other side
ForgetsWithoutPrice ==
    {c \in PriceCodes : /\ setting[c] # "none" /\ ~armed[c]
                        /\ ~Alive \/ ~known \/ c \notin hit}

\* box gone quiet, or price back on the other side: re-arm
ToRearm ==
    {c \in PriceCodes : /\ setting[c] # "none" /\ ~armed[c]
                        /\ ~Alive \/ c \in Compared \ hit}

PriceReady == {c \in Compared \cap hit : armed[c]}
PriceCovered == {c \in PriceReady : Covering(c) \cap Compared \cap hit # {}}
PriceDue == {c \in PriceReady \ PriceCovered : age[c] >= Rearm}

Due(c) == ends - Lead[c]

\* due, not too late, and open now or right before the last expiry
TimeHit(c) ==
    /\ Due(c) <= now
    /\ now < ends \/ now < Due(c) + Grace
    /\ leg # "gone"

\* Mutant: the expiry a message was sent for is not remembered
TimeReadyAlways == {c \in TimeCodes : setting[c] = "on" /\ TimeHit(c)}

TimeReady ==
    {c \in TimeCodes : setting[c] = "on" /\ fired[c] # ends /\ TimeHit(c)}
TimeCovered ==
    {c \in TimeReady : \E s \in Covering(c) : setting[s] = "on" /\ Due(s) <= now}

\* marked done because the critical code covers it
ToMarkDone == PriceCovered \cup TimeCovered
ToSend == PriceDue \cup (TimeReady \ TimeCovered)

---------------------------------------------------------------------------
(* One check (run_once).                                                   *)

\* Mutant: the lock is not asked for
BeginUnlocked(w) ==
    /\ check[w].pc = "idle" /\ Listed
    /\ \E c \in Codes : setting[c] = "on"
    /\ lock' = w
    /\ check' = [check EXCEPT ![w] =
                    [pc |-> "sending", todo |-> ToSend, ok |-> {}, rearm |-> ToRearm,
                     done |-> ToMarkDone, age |-> 0, ends |-> ends]]
    /\ UNCHANGED <<box, states, faults, copies, heard>>

\* take the lock, read, decide; a check that finds the lock taken does nothing
Begin(w) ==
    /\ lock = None
    /\ check[w].pc = "idle" /\ Listed
    /\ \E c \in Codes : setting[c] = "on"
    /\ lock' = w
    /\ check' = [check EXCEPT ![w] =
                    [pc |-> "sending", todo |-> ToSend, ok |-> {}, rearm |-> ToRearm,
                     done |-> ToMarkDone, age |-> 0, ends |-> ends]]
    /\ UNCHANGED <<box, states, faults, copies, heard>>

NextMessage(w) == {c \in check[w].todo : \A d \in check[w].todo : Rank[c] <= Rank[d]}

Key(w, c) == Occasion(c, check[w].ends)

\* a delivered message tells of its code and of the codes it covers
Tells(w, c) == {Key(w, d) : d \in {d \in Codes : d = c \/ c \in Covering(d)}}

\* Telegram delivers the next message and says so
Accept(w) ==
    /\ \E c \in NextMessage(w) :
          /\ check' = [check EXCEPT ![w].todo = @ \ {c}, ![w].ok = @ \cup {c}]
          /\ copies' = [copies EXCEPT ![Key(w, c)] = @ + 1]
          /\ heard' = heard \cup Tells(w, c)
    /\ UNCHANGED <<box, states, lock, faults>>

Fault == faults < MaxFaults /\ faults' = faults + 1

\* Mutant: a refused message counts as sent
RefusedAsSent(w) ==
    /\ Fault
    /\ \E c \in NextMessage(w) :
          check' = [check EXCEPT ![w].todo = @ \ {c}, ![w].ok = @ \cup {c}]
    /\ UNCHANGED <<box, states, lock, copies, heard>>

\* Telegram refuses it, or cannot be reached
Refuse(w) ==
    /\ Fault
    /\ \E c \in NextMessage(w) : check' = [check EXCEPT ![w].todo = @ \ {c}]
    /\ UNCHANGED <<box, states, lock, copies, heard>>

\* Telegram delivers it, but the answer is lost (a timeout is a TelegramError)
AnswerLost(w) ==
    /\ Fault
    /\ \E c \in NextMessage(w) :
          /\ check' = [check EXCEPT ![w].todo = @ \ {c}]
          /\ heard' = heard \cup Tells(w, c)
    /\ UNCHANGED <<box, states, lock, copies>>

\* the delivered messages of the check whose outcome is not stored any more
Forget(w) ==
    copies' = [o \in Occasions |->
                 IF (\E c \in check[w].ok : o = Key(w, c)) /\ copies[o] > 0
                 THEN copies[o] - 1 ELSE copies[o]]

\* send_many catches an exception: every flag of the batch is False
BatchRaises(w) ==
    /\ Fault
    /\ check[w].todo \cup check[w].ok # {}
    /\ check' = [check EXCEPT ![w].todo = {}, ![w].ok = {}]
    /\ Forget(w)
    /\ UNCHANGED <<box, states, lock, heard>>

\* what is stored as sent or covered
Stored(w) == check[w].ok \cup check[w].done

\* Mutant: the time of the check is stored instead of the expiry
SentForNow(w) == now

\* the expiry a time code is stored for: the one the check read
SentFor(w) == check[w].ends

\* save_states for the accepted messages and the updates; release the lock
Store(w) ==
    /\ check[w].pc = "sending" /\ check[w].todo = {}
    /\ armed' = [c \in PriceCodes |-> IF c \in check[w].rearm THEN TRUE
                                      ELSE armed[c] /\ c \notin Stored(w)]
    /\ fired' = [c \in TimeCodes |-> IF c \in Stored(w) THEN SentFor(w) ELSE fired[c]]
    /\ age' = [c \in PriceCodes |-> IF c \in check[w].ok THEN check[w].age ELSE age[c]]
    /\ heard' = heard \ {Crossing(c) : c \in check[w].rearm}
    /\ check' = [check EXCEPT ![w] = NoCheck]
    /\ lock' = None
    /\ UNCHANGED <<box, faults, copies>>

\* Mutant: the lock outlives the process
AbandonLocked(w) ==
    /\ Fault
    /\ check[w].pc = "sending"
    /\ check' = [check EXCEPT ![w] = NoCheck]
    /\ Forget(w)
    /\ UNCHANGED <<box, states, lock, heard>>

\* the process dies, or storing raises: nothing is stored, the lock is free
Abandon(w) ==
    /\ Fault
    /\ check[w].pc = "sending"
    /\ check' = [check EXCEPT ![w] = NoCheck]
    /\ lock' = None
    /\ Forget(w)
    /\ UNCHANGED <<box, states, heard>>

---------------------------------------------------------------------------
(* What moves on its own: the market, the clock, the pipeline, the admin.  *)

InPlay(c) == c \in hit /\ Alive

\* a crossing begins or ends
NewCrossings ==
    copies' = [o \in Occasions |->
                 IF o[1] \in PriceCodes /\ InPlay(o[1])' # InPlay(o[1])
                 THEN 0 ELSE copies[o]]

\* the price, the strikes or a threshold move; a price source fails or is back
PriceMoves ==
    /\ hit' \in Situations /\ known' \in BOOLEAN
    /\ UNCHANGED <<leg, ends, now, setting, watched, states, lock, check, faults, heard>>
    /\ NewCrossings

Tick ==
    /\ now' = IF now < Horizon THEN now + 1 ELSE now
    /\ age' = [c \in PriceCodes |-> IF age[c] < Rearm THEN age[c] + 1 ELSE age[c]]
    /\ check' = [w \in Workers |->
                   IF check[w].pc = "sending" /\ check[w].age < Rearm
                   THEN [check[w] EXCEPT !.age = @ + 1] ELSE check[w]]
    /\ UNCHANGED <<hit, known, leg, ends, setting, watched, armed, fired, lock, faults, heard>>
    /\ NewCrossings

\* the pipeline finds the last leg closed, missing, or there again
LegChanges ==
    /\ leg # "settled"
    /\ leg' \in {"open", "gone"} \cup IF now >= ends THEN {"settled"} ELSE {}
    /\ UNCHANGED <<hit, known, ends, now, setting, watched, states, lock, check, faults, heard>>
    /\ NewCrossings

\* the box gets a leg with a later expiry, or loses the one with the latest
Roll ==
    /\ \E e \in Expiries \ {ends} :
          /\ e > now /\ (e > ends \/ EndsMayShrink)
          /\ ends' = e
    /\ leg' = "open"
    /\ UNCHANGED <<hit, known, now, setting, watched, states, lock, check, faults, heard>>
    /\ NewCrossings

\* Settings tab; the Box builder's notification switch
Switch ==
    /\ \/ /\ \E c \in Codes, v \in SettingValues : setting' = [setting EXCEPT ![c] = v]
          /\ UNCHANGED watched
       \/ watched' = ~watched /\ UNCHANGED setting
    /\ UNCHANGED <<hit, known, leg, ends, now, states, lock, check, faults, copies, heard>>

Next ==
    \/ \E w \in Workers :
          \/ Begin(w) \/ Accept(w) \/ Store(w)
          \/ Refuse(w) \/ AnswerLost(w) \/ BatchRaises(w) \/ Abandon(w)
    \/ PriceMoves \/ Tick \/ LegChanges \/ Roll \/ Switch

Spec == Init /\ [][Next]_vars

\* A worker checks again and again (the interval job of a pm2 process), a
\* message is answered, a check ends, time passes.
Fairness ==
    /\ WF_vars(Tick)
    /\ WF_vars(\E w \in Workers : Begin(w))
    /\ \A w \in Workers : WF_vars(Accept(w)) /\ WF_vars(Store(w))

FairSpec == Spec /\ Fairness
---------------------------------------------------------------------------
(* Properties.                                                             *)

Check == [pc : {"idle", "sending"}, todo : SUBSET Codes, ok : SUBSET Codes,
          rearm : SUBSET PriceCodes, done : SUBSET Codes, age : 0..Rearm,
          ends : Expiries \cup {0}]

\* The type invariant: rows and checks are well formed.
TypeOK ==
    /\ hit \in SUBSET PriceCodes /\ known \in BOOLEAN
    /\ leg \in {"open", "gone", "settled"} /\ ends \in Expiries /\ now \in 0..Horizon
    /\ setting \in [Codes -> {"none", "off", "on"}] /\ watched \in BOOLEAN
    /\ armed \in [PriceCodes -> BOOLEAN]
    /\ fired \in [TimeCodes -> Expiries \cup {NoExpiry}]
    /\ age \in [PriceCodes -> 0..Rearm]
    /\ lock \in Workers \cup {None}
    /\ check \in [Workers -> Check]
    /\ faults \in 0..MaxFaults
    /\ copies \in [Occasions -> Nat]
    /\ heard \subseteq Occasions

\* "an advisory try-lock keeps two workers from double-sending": two checks
\* never overlap, although either may die in the middle.
OneCheck ==
    \A v, w \in Workers : check[v].pc = "sending" /\ check[w].pc = "sending" => v = w

\* "Each notification goes out once per crossing": while the price stays on
\* the far side and the box alive, a price code's message is delivered once;
\* copies whose outcome the worker could not learn or store are not counted.
OncePerCrossing == \A c \in PriceCodes : copies[Crossing(c)] <= 1

\* "time codes (e, f) are sent once per last-expiry value".
OncePerExpiry == \A c \in TimeCodes, e \in Expiries : copies[<<c, e>>] <= 1

Marked(c) == IF c \in PriceCodes THEN ~armed[c] ELSE fired[c] # NoExpiry
MarkedOccasion(c) == IF c \in PriceCodes THEN Crossing(c) ELSE <<c, fired[c]>>

\* A critical code (nothing covers it) is never marked as sent when nothing
\* was delivered since it was last armed, or for that expiry: a refused or
\* failed message stays to be tried again.
CriticalNotSwallowed ==
    \A c \in Codes : Covering(c) = {} /\ Marked(c) => MarkedOccasion(c) \in heard

Pressing(c) == InPlay(c) /\ known /\ watched /\ setting[c] = "on"
Relaxed(c) == Alive /\ c \notin hit /\ known /\ watched /\ setting[c] = "on"

\* Whatever failed before, a critical price code that stays hit does not stay
\* armed: it is sent, or was for an earlier crossing after which no check saw
\* the price on the near side; and one that stays there is armed again.
AlertsGetOut ==
    \A c \in PriceCodes : Covering(c) = {} =>
        /\ [](([]Pressing(c)) => <>~armed[c])
        /\ [](([]Relaxed(c)) => <>armed[c])

---------------------------------------------------------------------------
(* The inductive invariant of the proofs.                                  *)

LockOK == \A w \in Workers : check[w].pc = "sending" <=> lock = w

\* what one check decides about a code is one thing
CheckOK ==
    \A w \in Workers :
        /\ check[w].pc = "idle" => check[w] = NoCheck
        /\ check[w].ok \cap (check[w].todo \cup check[w].rearm \cup check[w].done) = {}
        /\ check[w].todo \cap (check[w].rearm \cup check[w].done) = {}
        /\ check[w].rearm \cap check[w].done = {}
        /\ check[w].pc = "sending" => check[w].ends \in Expiries
        /\ \A c \in check[w].done : Covering(c) # {}
        /\ \A c \in check[w].ok : Key(w, c) \in heard

\* an armed code whose crossing goes on has not been delivered in it
CrossingOK ==
    \A c \in PriceCodes :
        /\ copies[Crossing(c)] <= 1
        /\ (armed[c] /\ InPlay(c) /\ \A w \in Workers : c \notin check[w].ok)
              => copies[Crossing(c)] = 0
        /\ \A w \in Workers :
              /\ c \in check[w].todo => copies[Crossing(c)] = 0
              /\ c \in check[w].rearm /\ InPlay(c) => copies[Crossing(c)] = 0

IInv == TypeOK /\ LockOK /\ CheckOK /\ CrossingOK /\ CriticalNotSwallowed
=============================================================================
