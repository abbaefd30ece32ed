---------------------------- MODULE AlertsProofs ----------------------------
(***************************************************************************)
(* Proofs about module Alerts, for any number of workers, any codes,       *)
(* settings, thresholds and expiries, and any bound on faults.             *)
(***************************************************************************)
EXTENDS Alerts, TLAPS

LEMMA CodeKinds ==
    /\ PriceCodes \cap TimeCodes = {}
    /\ Codes = PriceCodes \cup TimeCodes
<1> QED
    BY AlertsAssumption DEF PriceCodes, TimeCodes

\* The occasion a message of a check is counted for.
LEMMA Keys ==
    ASSUME NEW w \in Workers
    PROVE  /\ \A c \in PriceCodes : Key(w, c) = <<c, 0>>
           /\ \A c \in TimeCodes : Key(w, c) = <<c, check[w].ends>>
           /\ \A c, d \in Codes : Key(w, c) = Key(w, d) => c = d
<1> QED
    BY CodeKinds DEF Key, Occasion, Crossing

LEMMA OccasionsAre ==
    /\ \A c \in PriceCodes : <<c, 0>> \in Occasions
    /\ \A c \in TimeCodes, e \in Expiries : <<c, e>> \in Occasions
<1> QED
    BY DEF Occasions

\* The message taken next is one of those left.
LEMMA NextIsLeft == ASSUME NEW w \in Workers PROVE NextMessage(w) \subseteq check[w].todo
<1> QED
    BY DEF NextMessage

LEMMA InitIInv == Init => IInv
<1> SUFFICES ASSUME Init PROVE IInv
    OBVIOUS
<1> USE AlertsAssumption DEF Init, NoCheck
<1>1. TypeOK
    <2>1. hit \in SUBSET PriceCodes
        OBVIOUS
    <2>2. check \in [Workers -> Check]
        BY DEF Check
    <2>3. copies \in [Occasions -> Nat] /\ heard \subseteq Occasions
        OBVIOUS
    <2>4. setting \in [Codes -> {"none", "off", "on"}]
        OBVIOUS
    <2>5. QED
        BY <2>1, <2>2, <2>3, <2>4 DEF TypeOK
<1>2. LockOK
    BY DEF LockOK
<1>3. CheckOK
    BY DEF CheckOK
<1>4. CrossingOK
    <2>1. \A c \in PriceCodes : copies[Crossing(c)] = 0
        BY OccasionsAre DEF Crossing
    <2>2. \A w \in Workers : check[w].todo = {} /\ check[w].rearm = {}
        OBVIOUS
    <2>3. QED
        BY <2>1, <2>2 DEF CrossingOK
<1>5. CriticalNotSwallowed
    BY CodeKinds DEF CriticalNotSwallowed, Marked
<1>6. QED
    BY <1>1, <1>2, <1>3, <1>4, <1>5 DEF IInv

---------------------------------------------------------------------------
(* What the steps do to the copies.                                        *)

\* Only the worker that holds the lock has anything in its check.
LEMMA OthersIdle ==
    ASSUME IInv, NEW w \in Workers, check[w].pc = "sending", NEW v \in Workers, v # w
    PROVE  check[v] = NoCheck
<1>1. lock = w /\ lock # v
    BY DEF IInv, LockOK
<1>2. check[v].pc # "sending"
    BY <1>1 DEF IInv, LockOK
<1>3. check[v] \in Check
    BY DEF IInv, TypeOK
<1>4. check[v].pc = "idle"
    BY <1>2, <1>3 DEF Check
<1>5. QED
    BY <1>4 DEF IInv, CheckOK

\* A check that has something left or delivered is running.
LEMMA BusyIsSending ==
    ASSUME IInv, NEW w \in Workers, check[w].todo \cup check[w].ok # {}
    PROVE  check[w].pc = "sending" /\ check[w].ends \in Expiries /\ lock = w
<1>1. check[w] \in Check /\ check[w] # NoCheck
    BY DEF IInv, TypeOK, NoCheck
<1>2. check[w].pc = "sending"
    BY <1>1 DEF IInv, CheckOK, Check
<1>3. QED
    BY <1>2 DEF IInv, CheckOK, LockOK

\* Forgetting the outcome of a check takes back exactly its own messages.
LEMMA ForgetCopies ==
    ASSUME IInv, NEW w \in Workers, Forget(w), check[w].pc = "sending"
    PROVE  /\ copies' \in [Occasions -> Nat]
           /\ \A o \in Occasions : copies'[o] <= copies[o]
           /\ \A c \in PriceCodes : c \in check[w].ok => copies'[<<c, 0>>] = 0
           /\ \A c \in PriceCodes : c \notin check[w].ok => copies'[<<c, 0>>] = copies[<<c, 0>>]
<1>1. copies \in [Occasions -> Nat]
    BY DEF IInv, TypeOK
<1>2. copies' \in [Occasions -> Nat] /\ \A o \in Occasions : copies'[o] <= copies[o]
    BY <1>1 DEF Forget
<1>3. \A c \in PriceCodes : copies[<<c, 0>>] <= 1 /\ copies[<<c, 0>>] \in Nat
    BY <1>1, OccasionsAre DEF IInv, CrossingOK, Crossing
<1>4. ASSUME NEW c \in PriceCodes, c \in check[w].ok PROVE copies'[<<c, 0>>] = 0
    <2>1. \E d \in check[w].ok : <<c, 0>> = Key(w, d)
        BY <1>4, Keys
    <2>2. QED
        BY <2>1, <1>3, OccasionsAre DEF Forget
<1>5. ASSUME NEW c \in PriceCodes, c \notin check[w].ok
      PROVE  copies'[<<c, 0>>] = copies[<<c, 0>>]
    <2>1. check[w].ok \subseteq Codes
        BY DEF IInv, TypeOK, Check
    <2>2. ~ \E d \in check[w].ok : <<c, 0>> = Key(w, d)
        BY <1>5, <2>1, Keys, CodeKinds
    <2>3. QED
        BY <2>2, OccasionsAre DEF Forget
<1>6. QED
    BY <1>2, <1>4, <1>5

\* When the market, the clock or the pipeline moves, a count starts again
\* exactly if a crossing begins or ends, and only for price codes.
LEMMA CopiesRestart ==
    ASSUME IInv, NewCrossings
    PROVE  /\ copies' \in [Occasions -> Nat]
           /\ \A c \in PriceCodes :
                 \/ (InPlay(c)' <=> InPlay(c)) /\ copies'[<<c, 0>>] = copies[<<c, 0>>]
                 \/ copies'[<<c, 0>>] = 0
           /\ \A c \in TimeCodes, e \in Expiries : copies'[<<c, e>>] = copies[<<c, e>>]
<1>1. copies \in [Occasions -> Nat]
    BY DEF IInv, TypeOK
<1>2. copies' \in [Occasions -> Nat]
    BY <1>1 DEF NewCrossings
<1>3. ASSUME NEW c \in PriceCodes
      PROVE  \/ (InPlay(c)' <=> InPlay(c)) /\ copies'[<<c, 0>>] = copies[<<c, 0>>]
             \/ copies'[<<c, 0>>] = 0
    <2>1. copies'[<<c, 0>>] = IF InPlay(c)' # InPlay(c) THEN 0 ELSE copies[<<c, 0>>]
        BY OccasionsAre DEF NewCrossings
    <2>2. QED
        BY <2>1 DEF InPlay, Alive
<1>4. ASSUME NEW c \in TimeCodes, NEW e \in Expiries
      PROVE  copies'[<<c, e>>] = copies[<<c, e>>]
    <2>1. <<c, e>>[1] \notin PriceCodes
        BY CodeKinds
    <2>2. QED
        BY <2>1, OccasionsAre DEF NewCrossings
<1>5. QED
    BY <1>2, <1>3, <1>4

---------------------------------------------------------------------------
(* The type invariant.                                                     *)

\* What a check finds is made of codes.
LEMMA FoundCodes ==
    /\ ToSend \subseteq Codes /\ ToMarkDone \subseteq Codes /\ ToRearm \subseteq PriceCodes
<1> QED
    BY CodeKinds DEF ToSend, ToMarkDone, ToRearm, PriceDue, PriceCovered, PriceReady,
       Compared, TimeCovered, TimeReady

\* What the chat is told by a message of a running check.
LEMMA Told ==
    ASSUME IInv, NEW w \in Workers, check[w].ends \in Expiries, NEW c \in Codes
    PROVE  Tells(w, c) \subseteq Occasions /\ Key(w, c) \in Tells(w, c)
                /\ Key(w, c) \in Occasions
<1>1. \A d \in Codes : Key(w, d) \in Occasions
    BY Keys, OccasionsAre, CodeKinds
<1>2. QED
    BY <1>1 DEF Tells

\* Taking messages off a check, and noting delivered ones, leaves it a check.
LEMMA CheckTyped ==
    ASSUME NEW x \in Check, NEW t \in SUBSET Codes, NEW k \in SUBSET Codes
    PROVE  [x EXCEPT !.todo = t, !.ok = k] \in Check
<1> QED
    BY DEF Check

LEMMA TypeStep == IInv /\ [Next]_vars => TypeOK'
<1> SUFFICES ASSUME IInv, [Next]_vars PROVE TypeOK'
    OBVIOUS
<1> USE AlertsAssumption DEF IInv, TypeOK
<1>1. ASSUME NEW w \in Workers, Begin(w) PROVE TypeOK'
    <2>1. check' \in [Workers -> Check]
        BY <1>1, FoundCodes DEF Begin, Check
    <2>2. QED
        BY <1>1, <2>1 DEF Begin, box, states
<1>2. ASSUME NEW w \in Workers, Accept(w) PROVE TypeOK'
    <2>1. PICK c \in NextMessage(w) :
             /\ check' = [check EXCEPT ![w].todo = @ \ {c}, ![w].ok = @ \cup {c}]
             /\ copies' = [copies EXCEPT ![Key(w, c)] = @ + 1]
             /\ heard' = heard \cup Tells(w, c)
        BY <1>2 DEF Accept
    <2>2. c \in Codes /\ check[w].ends \in Expiries
        BY NextIsLeft, BusyIsSending DEF Check
    <2> DEFINE x == [check[w] EXCEPT !.todo = @ \ {c}, !.ok = @ \cup {c}]
    <2>3. check' \in [Workers -> Check]
        <3>1. x \in Check
            <4>1. check[w] \in Check
                OBVIOUS
            <4>2. check[w].todo \in SUBSET Codes /\ check[w].ok \in SUBSET Codes
                BY <4>1 DEF Check
            <4>3. QED
                BY <4>1, <4>2, <2>2, CheckTyped
        <3>2. \A v \in Workers : check'[v] = IF v = w THEN x ELSE check[v]
            BY <2>1
        <3>3. check' = [v \in Workers |-> IF v = w THEN x ELSE check[v]]
            BY <2>1, <3>2
        <3>4. QED
            BY <3>1, <3>3
    <2>4. copies' \in [Occasions -> Nat]
        <3>1. copies \in [Occasions -> Nat] /\ Key(w, c) \in Occasions
            BY <2>2, Told
        <3>2. copies' = [o \in Occasions |->
                            IF o = Key(w, c) THEN copies[o] + 1 ELSE copies[o]]
            BY <2>1, <3>1
        <3>3. QED
            BY <3>1, <3>2
    <2>5. heard' \subseteq Occasions
        BY <2>1, <2>2, Told
    <2>6. QED
        BY <1>2, <2>3, <2>4, <2>5 DEF Accept, box, states
<1>3. ASSUME NEW w \in Workers, Store(w) PROVE TypeOK'
    <2>1. check[w] \in Check /\ check[w].ends \in Expiries
        BY <1>3 DEF Store, CheckOK
    <2>2. check' \in [Workers -> Check]
        BY <1>3 DEF Store, NoCheck, Check
    <2>3. armed' \in [PriceCodes -> BOOLEAN]
        BY <1>3 DEF Store
    <2>4. fired' \in [TimeCodes -> Expiries \cup {NoExpiry}]
        BY <1>3, <2>1 DEF Store, SentFor
    <2>5. age' \in [PriceCodes -> 0..Rearm]
        BY <1>3, <2>1 DEF Store, Check
    <2>6. heard' \subseteq Occasions
        BY <1>3 DEF Store
    <2>7. QED
        BY <1>3, <2>2, <2>3, <2>4, <2>5, <2>6 DEF Store, box
<1>4. ASSUME NEW w \in Workers, Refuse(w) PROVE TypeOK'
    <2>1. check' \in [Workers -> Check]
        BY <1>4 DEF Refuse, Check
    <2>2. faults' \in 0..MaxFaults
        BY <1>4 DEF Refuse, Fault
    <2>3. QED
        BY <1>4, <2>1, <2>2 DEF Refuse, box, states
<1>5. ASSUME NEW w \in Workers, AnswerLost(w) PROVE TypeOK'
    <2>1. PICK c \in NextMessage(w) :
             /\ check' = [check EXCEPT ![w].todo = @ \ {c}]
             /\ heard' = heard \cup Tells(w, c)
        BY <1>5 DEF AnswerLost
    <2>2. c \in Codes /\ check[w].ends \in Expiries
        BY NextIsLeft, BusyIsSending DEF Check
    <2>3. check' \in [Workers -> Check]
        BY <2>1 DEF Check
    <2>4. heard' \subseteq Occasions
        BY <2>1, <2>2, Told
    <2>5. faults' \in 0..MaxFaults
        BY <1>5 DEF AnswerLost, Fault
    <2>6. QED
        BY <1>5, <2>3, <2>4, <2>5 DEF AnswerLost, box, states
<1>6. ASSUME NEW w \in Workers, BatchRaises(w) PROVE TypeOK'
    <2>1. copies' \in [Occasions -> Nat]
        BY <1>6, BusyIsSending, ForgetCopies DEF BatchRaises
    <2>2. check' \in [Workers -> Check]
        <3> DEFINE x == [check[w] EXCEPT !.todo = {}, !.ok = {}]
        <3>1. x \in Check
            BY CheckTyped
        <3>2. check' = [v \in Workers |-> IF v = w THEN x ELSE check[v]]
            BY <1>6 DEF BatchRaises
        <3>3. QED
            BY <3>1, <3>2
    <2>3. faults' \in 0..MaxFaults
        BY <1>6 DEF BatchRaises, Fault
    <2>4. QED
        BY <1>6, <2>1, <2>2, <2>3 DEF BatchRaises, box, states
<1>7. ASSUME NEW w \in Workers, Abandon(w) PROVE TypeOK'
    <2>1. copies' \in [Occasions -> Nat]
        BY <1>7, ForgetCopies DEF Abandon
    <2>2. check' \in [Workers -> Check]
        BY <1>7 DEF Abandon, NoCheck, Check
    <2>3. faults' \in 0..MaxFaults
        BY <1>7 DEF Abandon, Fault
    <2>4. QED
        BY <1>7, <2>1, <2>2, <2>3 DEF Abandon, box, states
<1>8. CASE PriceMoves
    <2>1. copies' \in [Occasions -> Nat]
        BY <1>8, CopiesRestart DEF PriceMoves
    <2>2. QED
        BY <1>8, <2>1 DEF PriceMoves, states
<1>9. CASE Tick
    <2>1. copies' \in [Occasions -> Nat]
        BY <1>9, CopiesRestart DEF Tick
    <2>2. check' \in [Workers -> Check]
        <3>1. ASSUME NEW w \in Workers, check[w].age < Rearm
              PROVE  [check[w] EXCEPT !.age = @ + 1] \in Check
            BY <3>1 DEF Check
        <3>2. QED
            BY <1>9, <3>1 DEF Tick
    <2>3. age' \in [PriceCodes -> 0..Rearm] /\ now' \in 0..Horizon
        BY <1>9 DEF Tick
    <2>4. QED
        BY <1>9, <2>1, <2>2, <2>3 DEF Tick
<1>10. CASE LegChanges
    <2>1. copies' \in [Occasions -> Nat]
        BY <1>10, CopiesRestart DEF LegChanges
    <2>2. QED
        BY <1>10, <2>1 DEF LegChanges, states
<1>11. CASE Roll
    <2>1. copies' \in [Occasions -> Nat]
        BY <1>11, CopiesRestart DEF Roll
    <2>2. QED
        BY <1>11, <2>1 DEF Roll, states
<1>12. CASE Switch
    <2>1. setting' \in [Codes -> {"none", "off", "on"}] /\ watched' \in BOOLEAN
        BY <1>12 DEF Switch
    <2>2. QED
        BY <1>12, <2>1 DEF Switch, states
<1>13. CASE UNCHANGED vars
    BY <1>13 DEF vars, box, states
<1>14. QED
    BY <1>1, <1>2, <1>3, <1>4, <1>5, <1>6, <1>7, <1>8, <1>9, <1>10, <1>11, <1>12, <1>13
       DEF Next

---------------------------------------------------------------------------
(* The lock, and what a check holds.                                       *)

\* The clock only ages a check.
LEMMA TickAges ==
    ASSUME IInv, Tick, NEW w \in Workers
    PROVE  /\ check'[w].pc = check[w].pc /\ check'[w].todo = check[w].todo
           /\ check'[w].ok = check[w].ok /\ check'[w].rearm = check[w].rearm
           /\ check'[w].done = check[w].done /\ check'[w].ends = check[w].ends
           /\ check[w].pc = "idle" => check'[w] = check[w]
<1> QED
    BY DEF Tick, IInv, TypeOK, Check

LEMMA LockStep == IInv /\ [Next]_vars => LockOK'
<1> SUFFICES ASSUME IInv, [Next]_vars PROVE LockOK'
    OBVIOUS
<1>0. check \in [Workers -> Check] /\ None \notin Workers /\ LockOK
    BY AlertsAssumption DEF IInv, TypeOK
<1> USE <1>0 DEF LockOK
<1>1. ASSUME NEW w \in Workers, Begin(w) PROVE LockOK'
    BY <1>1 DEF Begin
<1>2. ASSUME NEW w \in Workers, Accept(w) PROVE LockOK'
    BY <1>2 DEF Accept
<1>3. ASSUME NEW w \in Workers, Store(w) PROVE LockOK'
    BY <1>3 DEF Store, NoCheck
<1>4. ASSUME NEW w \in Workers, Refuse(w) PROVE LockOK'
    BY <1>4 DEF Refuse
<1>5. ASSUME NEW w \in Workers, AnswerLost(w) PROVE LockOK'
    BY <1>5 DEF AnswerLost
<1>6. ASSUME NEW w \in Workers, BatchRaises(w) PROVE LockOK'
    BY <1>6 DEF BatchRaises
<1>7. ASSUME NEW w \in Workers, Abandon(w) PROVE LockOK'
    BY <1>7 DEF Abandon, NoCheck
<1>8. CASE Tick
    BY <1>8, TickAges DEF Tick
<1>9. CASE PriceMoves \/ LegChanges \/ Roll \/ Switch \/ UNCHANGED vars
    BY <1>9 DEF PriceMoves, LegChanges, Roll, Switch, vars
<1>10. QED
    BY <1>1, <1>2, <1>3, <1>4, <1>5, <1>6, <1>7, <1>8, <1>9 DEF Next

\* What CheckOK says of one worker, for the check x and what was heard.
CheckFits(x, h) ==
    /\ x.pc = "idle" => x = NoCheck
    /\ x.ok \cap (x.todo \cup x.rearm \cup x.done) = {}
    /\ x.todo \cap (x.rearm \cup x.done) = {}
    /\ x.rearm \cap x.done = {}
    /\ x.pc = "sending" => x.ends \in Expiries
    /\ \A c \in x.done : Covering(c) # {}
    /\ \A c \in x.ok : Occasion(c, x.ends) \in h

LEMMA CheckOKFits == CheckOK <=> \A w \in Workers : CheckFits(check[w], heard)
<1> QED
    BY DEF CheckOK, CheckFits, Key

LEMMA CheckOKFitsNext == CheckOK' <=> \A w \in Workers : CheckFits(check'[w], heard')
<1> QED
    BY DEF CheckOK, CheckFits, Key, Occasion, Crossing, Covering

\* A decision never says two things of one code.
LEMMA DecisionFits ==
    /\ ToSend \cap (ToRearm \cup ToMarkDone) = {}
    /\ ToRearm \cap ToMarkDone = {}
    /\ \A c \in ToMarkDone : Covering(c) # {}
<1>1. /\ PriceDue \subseteq PriceReady \ PriceCovered /\ PriceCovered \subseteq PriceReady
      /\ TimeCovered \subseteq TimeReady
      /\ PriceReady \subseteq PriceCodes /\ TimeReady \subseteq TimeCodes
    BY DEF PriceDue, PriceCovered, PriceReady, Compared, TimeCovered, TimeReady
<1>2. ToRearm \subseteq PriceCodes /\ ToRearm \cap PriceReady = {}
    BY DEF ToRearm, PriceReady
<1>3. \A c \in ToMarkDone : Covering(c) # {}
    BY DEF ToMarkDone, PriceCovered, TimeCovered
<1>4. QED
    BY <1>1, <1>2, <1>3, CodeKinds DEF ToSend, ToMarkDone

LEMMA CheckStep == IInv /\ [Next]_vars => CheckOK'
<1> SUFFICES ASSUME IInv, [Next]_vars, NEW v \in Workers PROVE CheckFits(check'[v], heard')
    BY CheckOKFitsNext
<1>0. /\ check \in [Workers -> Check] /\ ends \in Expiries
      /\ \A w \in Workers : CheckFits(check[w], heard)
    BY CheckOKFits DEF IInv, TypeOK
<1>a. CheckFits(NoCheck, heard')
    BY DEF CheckFits, NoCheck
<1>b. ASSUME heard \subseteq heard', check'[v] = check[v] PROVE CheckFits(check'[v], heard')
    BY <1>0, <1>b DEF CheckFits
<1>1. ASSUME NEW w \in Workers, Begin(w) PROVE CheckFits(check'[v], heard')
    <2>1. CASE v = w
        BY <1>0, <1>1, <2>1, DecisionFits DEF Begin, CheckFits
    <2>2. CASE v # w
        BY <1>0, <1>1, <1>b, <2>2 DEF Begin
    <2>3. QED
        BY <2>1, <2>2
<1>2. ASSUME NEW w \in Workers, Accept(w) PROVE CheckFits(check'[v], heard')
    <2>1. PICK c \in NextMessage(w) :
             /\ check' = [check EXCEPT ![w].todo = @ \ {c}, ![w].ok = @ \cup {c}]
             /\ heard' = heard \cup Tells(w, c)
        BY <1>2 DEF Accept
    <2>2. c \in check[w].todo /\ c \in Codes /\ check[w].ends \in Expiries
        BY <1>0, NextIsLeft, BusyIsSending DEF Check
    <2>3. Key(w, c) \in heard'
        BY <2>1, <2>2, Told
    <2>4. CASE v = w
        <3>1. check'[v] = [check[w] EXCEPT !.todo = @ \ {c}, !.ok = @ \cup {c}]
            BY <1>0, <2>1, <2>4
        <3>2. check[w].pc = "sending"
            BY <2>2, BusyIsSending
        <3>3. CheckFits(check[w], heard)
            BY <1>0
        <3>4. Occasion(c, check[w].ends) \in heard'
            BY <2>3 DEF Key
        <3>5. check[w] \in Check
            BY <1>0
        <3>6. /\ check'[v].pc = "sending" /\ check'[v].ends = check[w].ends
              /\ check'[v].todo = check[w].todo \ {c} /\ check'[v].ok = check[w].ok \cup {c}
              /\ check'[v].rearm = check[w].rearm /\ check'[v].done = check[w].done
            BY <3>1, <3>2, <3>5 DEF Check
        <3>7. \A d \in check'[v].ok : Occasion(d, check'[v].ends) \in heard'
            <4>1. heard \subseteq heard'
                BY <2>1
            <4>2. \A d \in check[w].ok : Occasion(d, check[w].ends) \in heard
                BY <3>3 DEF CheckFits
            <4>3. check'[v].ok = check[w].ok \cup {c} /\ check'[v].ends = check[w].ends
                BY <3>6
            <4>4. QED
                BY <3>4, <4>1, <4>2, <4>3
        <3>8. QED
            BY <2>2, <3>3, <3>6, <3>7 DEF CheckFits
    <2>5. CASE v # w
        BY <1>0, <1>b, <2>1, <2>5
    <2>6. QED
        BY <2>4, <2>5
<1>3. ASSUME NEW w \in Workers, Store(w) PROVE CheckFits(check'[v], heard')
    <2>1. CASE v = w
        BY <1>0, <1>3, <1>a, <2>1 DEF Store
    <2>2. CASE v # w
        <3>1. check'[v] = NoCheck
            BY <1>0, <1>3, <2>2, OthersIdle DEF Store
        <3>2. QED
            BY <3>1, <1>a
    <2>3. QED
        BY <2>1, <2>2
<1>4. ASSUME NEW w \in Workers, Refuse(w) \/ AnswerLost(w) PROVE CheckFits(check'[v], heard')
    <2>1. PICK c \in NextMessage(w) : check' = [check EXCEPT ![w].todo = @ \ {c}]
        BY <1>4 DEF Refuse, AnswerLost
    <2>2. heard \subseteq heard'
        BY <1>4 DEF Refuse, AnswerLost
    <2>3. CASE v = w
        <3>1. check'[v] = [check[w] EXCEPT !.todo = @ \ {c}]
            BY <1>0, <2>1, <2>3
        <3>2. check[w].pc = "sending"
            BY <2>1, NextIsLeft, BusyIsSending
        <3>3. CheckFits(check[w], heard) /\ check[w] \in Check
            BY <1>0
        <3>4. QED
            BY <2>2, <3>1, <3>2, <3>3 DEF CheckFits, Check
    <2>4. CASE v # w
        BY <1>0, <1>b, <2>1, <2>2, <2>4
    <2>5. QED
        BY <2>3, <2>4
<1>5. ASSUME NEW w \in Workers, BatchRaises(w) PROVE CheckFits(check'[v], heard')
    <2>1. CASE v = w
        <3>1. check'[v] = [check[w] EXCEPT !.todo = {}, !.ok = {}]
            BY <1>0, <1>5, <2>1 DEF BatchRaises
        <3>2. check[w].pc = "sending"
            BY <1>5, BusyIsSending DEF BatchRaises
        <3>3. CheckFits(check[w], heard) /\ check[w] \in Check
            BY <1>0
        <3>4. QED
            BY <3>1, <3>2, <3>3 DEF CheckFits, Check
    <2>2. CASE v # w
        BY <1>0, <1>5, <1>b, <2>2 DEF BatchRaises
    <2>3. QED
        BY <2>1, <2>2
<1>6. ASSUME NEW w \in Workers, Abandon(w) PROVE CheckFits(check'[v], heard')
    BY <1>0, <1>6, <1>a, <1>b DEF Abandon
<1>7. CASE Tick
    <2>1. heard' = heard
        BY <1>7 DEF Tick
    <2>2. CheckFits(check[v], heard)
        BY <1>0
    <2>3. check'[v].pc = "idle" => check'[v] = NoCheck
        BY <1>7, <2>2, TickAges DEF CheckFits
    <2>4. QED
        BY <1>7, <2>1, <2>2, <2>3, TickAges DEF CheckFits
<1>8. CASE PriceMoves \/ LegChanges \/ Roll \/ Switch \/ UNCHANGED vars
    BY <1>8, <1>b DEF PriceMoves, LegChanges, Roll, Switch, vars
<1>9. QED
    BY <1>1, <1>2, <1>3, <1>4, <1>5, <1>6, <1>7, <1>8 DEF Next

---------------------------------------------------------------------------
(* Crossings.                                                              *)

\* What CrossingOK says of the code c: n copies, armed or not, in play or not.
CrossingFits(c, n, isArmed, inPlay, chk) ==
    /\ n <= 1
    /\ (isArmed /\ inPlay /\ \A w \in Workers : c \notin chk[w].ok) => n = 0
    /\ \A w \in Workers : /\ c \in chk[w].todo => n = 0
                          /\ c \in chk[w].rearm /\ inPlay => n = 0

LEMMA CrossingOKFits ==
    CrossingOK <=> \A c \in PriceCodes :
        CrossingFits(c, copies[<<c, 0>>], armed[c], InPlay(c), check)
<1> QED
    BY DEF CrossingOK, CrossingFits, Crossing

LEMMA CrossingOKFitsNext ==
    CrossingOK' <=> \A c \in PriceCodes :
        CrossingFits(c, copies'[<<c, 0>>], armed'[c], InPlay(c)', check')
<1> QED
    BY DEF CrossingOK, CrossingFits, Crossing, InPlay, Alive

\* A decision to send is about an armed code in play, a decision to re-arm is not.
LEMMA DecisionPlays ==
    \A c \in PriceCodes : /\ c \in ToSend => armed[c] /\ InPlay(c)
                          /\ c \in ToRearm => ~InPlay(c)
<1> QED
    BY CodeKinds DEF ToSend, ToRearm, PriceDue, PriceReady, Compared, TimeReady, InPlay

LEMMA CrossingStep == IInv /\ [Next]_vars => CrossingOK'
<1> SUFFICES ASSUME IInv, [Next]_vars, NEW c \in PriceCodes
             PROVE  CrossingFits(c, copies'[<<c, 0>>], armed'[c], InPlay(c)', check')
    BY CrossingOKFitsNext
<1> DEFINE Goal == CrossingFits(c, copies'[<<c, 0>>], armed'[c], InPlay(c)', check')
<1>0. /\ check \in [Workers -> Check] /\ armed \in [PriceCodes -> BOOLEAN]
      /\ copies \in [Occasions -> Nat] /\ copies[<<c, 0>>] \in Nat
      /\ CrossingFits(c, copies[<<c, 0>>], armed[c], InPlay(c), check)
    BY CrossingOKFits, OccasionsAre DEF IInv, TypeOK
<1>a. ASSUME UNCHANGED <<hit, leg, ends, now>> PROVE InPlay(c)' <=> InPlay(c)
    BY <1>a DEF InPlay, Alive
<1>1. ASSUME NEW w \in Workers, Begin(w) PROVE Goal
    <2>1. /\ copies' = copies /\ armed' = armed /\ (InPlay(c)' <=> InPlay(c))
          /\ \A v \in Workers : v # w => check'[v] = check[v]
          /\ check'[w].todo = ToSend /\ check'[w].ok = {} /\ check'[w].rearm = ToRearm
        BY <1>0, <1>1, <1>a DEF Begin, box, states
    <2>2. \A v \in Workers : check[v].ok = {}
        BY <1>1, AlertsAssumption, BusyIsSending DEF Begin
    <2>3. armed[c] /\ InPlay(c) => copies[<<c, 0>>] = 0
        BY <1>0, <2>2 DEF CrossingFits
    <2>4. QED
        BY <1>0, <2>1, <2>3, DecisionPlays DEF CrossingFits
<1>2. ASSUME NEW w \in Workers, Accept(w) PROVE Goal
    <2>1. PICK d \in NextMessage(w) :
             /\ check' = [check EXCEPT ![w].todo = @ \ {d}, ![w].ok = @ \cup {d}]
             /\ copies' = [copies EXCEPT ![Key(w, d)] = @ + 1]
        BY <1>2 DEF Accept
    <2>2. armed' = armed /\ (InPlay(c)' <=> InPlay(c))
        BY <1>2, <1>a DEF Accept, box, states
    <2>3. d \in check[w].todo /\ d \in Codes
        BY <1>0, NextIsLeft DEF Check
    <2>4. check[w].pc = "sending"
        BY <2>3, BusyIsSending
    <2>5. \A v \in Workers : v # w => check'[v] = NoCheck
        BY <1>0, <2>1, <2>4, OthersIdle
    <2>6. /\ check'[w].todo = check[w].todo \ {d} /\ check'[w].ok = check[w].ok \cup {d}
          /\ check'[w].rearm = check[w].rearm
        BY <1>0, <2>1 DEF Check
    <2>7. CASE d = c
        <3>1. Key(w, d) = <<c, 0>>
            BY <2>7, Keys
        <3>2. copies[<<c, 0>>] = 0
            BY <1>0, <2>3, <2>7 DEF CrossingFits
        <3>3. copies'[<<c, 0>>] = 1
            BY <1>0, <2>1, <3>1, <3>2, OccasionsAre
        <3>4. c \notin check[w].rearm
            BY <2>3, <2>7 DEF IInv, CheckOK
        <3>5. QED
            BY <2>5, <2>6, <2>7, <3>3, <3>4 DEF CrossingFits, NoCheck
    <2>8. CASE d # c
        <3>1. Key(w, d) # <<c, 0>>
            BY <2>3, <2>8, Keys, CodeKinds
        <3>2. copies'[<<c, 0>>] = copies[<<c, 0>>]
            BY <1>0, <2>1, <3>1, OccasionsAre
        <3>3. (\A v \in Workers : c \notin check'[v].ok) => \A v \in Workers : c \notin check[v].ok
            BY <2>4, <2>6, OthersIdle DEF NoCheck
        <3>4. QED
            BY <1>0, <2>2, <2>5, <2>6, <3>2, <3>3 DEF CrossingFits, NoCheck
    <2>9. QED
        BY <2>7, <2>8
<1>3. ASSUME NEW w \in Workers, Store(w) PROVE Goal
    <2>1. copies' = copies /\ (InPlay(c)' <=> InPlay(c))
        BY <1>3, <1>a DEF Store, box
    <2>2. \A v \in Workers : check'[v] = NoCheck
        BY <1>0, <1>3, OthersIdle DEF Store
    <2>3. ASSUME armed'[c], InPlay(c) PROVE copies[<<c, 0>>] = 0
        <3>1. CASE c \in check[w].rearm
            BY <1>0, <2>3, <3>1 DEF CrossingFits
        <3>2. CASE c \notin check[w].rearm
            <4>1. armed[c] /\ c \notin check[w].ok
                BY <1>3, <2>3, <3>2 DEF Store, Stored
            <4>2. \A v \in Workers : c \notin check[v].ok
                BY <1>3, <4>1, OthersIdle DEF Store, NoCheck
            <4>3. QED
                BY <1>0, <2>3, <4>1, <4>2 DEF CrossingFits
        <3>3. QED
            BY <3>1, <3>2
    <2>4. QED
        BY <1>0, <2>1, <2>2, <2>3 DEF CrossingFits, NoCheck
<1>4. ASSUME NEW w \in Workers, Refuse(w) \/ AnswerLost(w) PROVE Goal
    <2>1. PICK d \in NextMessage(w) : check' = [check EXCEPT ![w].todo = @ \ {d}]
        BY <1>4 DEF Refuse, AnswerLost
    <2>2. armed' = armed /\ copies' = copies /\ (InPlay(c)' <=> InPlay(c))
        BY <1>4, <1>a DEF Refuse, AnswerLost, box, states
    <2>3. \A v \in Workers : /\ check'[v].todo \subseteq check[v].todo
                             /\ check'[v].ok = check[v].ok /\ check'[v].rearm = check[v].rearm
        BY <1>0, <2>1 DEF Check
    <2>4. QED
        BY <1>0, <2>2, <2>3 DEF CrossingFits
<1>5. ASSUME NEW w \in Workers, BatchRaises(w) \/ Abandon(w) PROVE Goal
    <2>1. check[w].pc = "sending" /\ Forget(w)
        BY <1>5, BusyIsSending DEF BatchRaises, Abandon
    <2>2. armed' = armed /\ (InPlay(c)' <=> InPlay(c))
        BY <1>5, <1>a DEF BatchRaises, Abandon, box, states
    <2>3. /\ check'[w].todo = {} /\ check'[w].ok = {}
          /\ check'[w].rearm \subseteq check[w].rearm
        BY <1>0, <1>5 DEF BatchRaises, Abandon, NoCheck, Check
    <2>4. \A v \in Workers : v # w => check'[v] = NoCheck /\ check[v] = NoCheck
        BY <1>0, <1>5, <2>1, OthersIdle DEF BatchRaises, Abandon
    <2>5. CASE c \in check[w].ok
        <3>1. copies'[<<c, 0>>] = 0
            BY <2>1, <2>5, ForgetCopies
        <3>2. QED
            BY <3>1 DEF CrossingFits
    <2>6. CASE c \notin check[w].ok
        <3>1. copies'[<<c, 0>>] = copies[<<c, 0>>]
            BY <2>1, <2>6, ForgetCopies
        <3>2. \A v \in Workers : c \notin check[v].ok
            BY <2>4, <2>6 DEF NoCheck
        <3>3. QED
            BY <1>0, <2>2, <2>3, <2>4, <3>1, <3>2 DEF CrossingFits, NoCheck
    <2>7. QED
        BY <2>5, <2>6
<1>6. CASE PriceMoves \/ Tick \/ LegChanges \/ Roll
    <2>1. NewCrossings /\ armed' = armed
        BY <1>6 DEF PriceMoves, Tick, LegChanges, Roll, states
    <2>2. \A v \in Workers : /\ check'[v].todo = check[v].todo /\ check'[v].ok = check[v].ok
                             /\ check'[v].rearm = check[v].rearm
        BY <1>6, TickAges DEF PriceMoves, LegChanges, Roll
    <2>3. \/ (InPlay(c)' <=> InPlay(c)) /\ copies'[<<c, 0>>] = copies[<<c, 0>>]
          \/ copies'[<<c, 0>>] = 0
        BY <2>1, CopiesRestart
    <2>4. QED
        BY <1>0, <2>1, <2>2, <2>3 DEF CrossingFits
<1>7. CASE Switch \/ UNCHANGED vars
    <2>1. UNCHANGED <<hit, leg, ends, now, armed, copies, check>>
        BY <1>7 DEF Switch, vars, box, states
    <2>2. InPlay(c)' <=> InPlay(c)
        BY <1>a, <2>1
    <2>3. copies' = copies /\ armed' = armed /\ check' = check
        BY <2>1
    <2>4. QED
        BY <1>0, <2>2, <2>3 DEF CrossingFits
<1>8. QED
    BY <1>1, <1>2, <1>3, <1>4, <1>5, <1>6, <1>7 DEF Next

---------------------------------------------------------------------------
(* Critical codes are marked only when the chat was told.                  *)

LEMMA SwallowedFits ==
    CriticalNotSwallowed <=>
        /\ \A c \in PriceCodes : Covering(c) = {} /\ ~armed[c] => <<c, 0>> \in heard
        /\ \A c \in TimeCodes : Covering(c) = {} /\ fired[c] # NoExpiry
                                    => <<c, fired[c]>> \in heard
<1> QED
    BY CodeKinds DEF CriticalNotSwallowed, Marked, MarkedOccasion, Crossing

LEMMA SwallowedFitsNext ==
    CriticalNotSwallowed' <=>
        /\ \A c \in PriceCodes : Covering(c) = {} /\ ~armed'[c] => <<c, 0>> \in heard'
        /\ \A c \in TimeCodes : Covering(c) = {} /\ fired'[c] # NoExpiry
                                    => <<c, fired'[c]>> \in heard'
<1> QED
    BY CodeKinds DEF CriticalNotSwallowed, Marked, MarkedOccasion, Crossing, Covering

LEMMA HeardStep == IInv /\ [Next]_vars => CriticalNotSwallowed'
<1> SUFFICES ASSUME IInv, [Next]_vars PROVE CriticalNotSwallowed'
    OBVIOUS
<1>0. CriticalNotSwallowed
    BY DEF IInv
<1>a. ASSUME armed' = armed, fired' = fired, heard \subseteq heard'
      PROVE  CriticalNotSwallowed'
    BY <1>0, <1>a, SwallowedFits, SwallowedFitsNext
<1>1. ASSUME NEW w \in Workers, Store(w) PROVE CriticalNotSwallowed'
    <2>1. CheckFits(check[w], heard) /\ check[w] \in Check
        BY CheckOKFits DEF IInv, TypeOK
    <2>2. ASSUME NEW c \in PriceCodes, Covering(c) = {}, ~armed'[c]
          PROVE  <<c, 0>> \in heard'
        <3>1. c \notin check[w].rearm /\ (~armed[c] \/ c \in check[w].ok)
            BY <1>1, <2>1, <2>2 DEF Store, Stored, CheckFits
        <3>2. <<c, 0>> \in heard
            <4>1. CASE ~armed[c]
                BY <1>0, <2>2, <4>1, SwallowedFits
            <4>2. CASE c \in check[w].ok
                BY <2>1, <4>2 DEF CheckFits, Occasion, Crossing
            <4>3. QED
                BY <3>1, <4>1, <4>2
        <3>3. QED
            BY <1>1, <3>1, <3>2 DEF Store, Crossing
    <2>3. ASSUME NEW c \in TimeCodes, Covering(c) = {}, fired'[c] # NoExpiry
          PROVE  <<c, fired'[c]>> \in heard'
        <3>1. <<c, fired'[c]>> \in heard
            <4>1. CASE c \in Stored(w)
                <5>1. fired'[c] = check[w].ends
                    BY <1>1, <4>1 DEF Store, SentFor
                <5>2. c \in check[w].ok
                    BY <2>1, <2>3, <4>1 DEF CheckFits, Stored
                <5>3. Occasion(c, check[w].ends) \in heard
                    BY <2>1, <5>2 DEF CheckFits
                <5>4. Occasion(c, check[w].ends) = <<c, check[w].ends>>
                    BY <2>3, CodeKinds DEF Occasion
                <5>5. QED
                    BY <5>1, <5>3, <5>4
            <4>2. CASE c \notin Stored(w)
                <5>1. fired'[c] = fired[c]
                    BY <1>1, <4>2 DEF Store
                <5>2. QED
                    BY <1>0, <2>3, <5>1, SwallowedFits
            <4>3. QED
                BY <4>1, <4>2
        <3>2. \A d \in check[w].rearm : <<c, fired'[c]>> # Crossing(d)
            BY <2>1, CodeKinds DEF Check, Crossing
        <3>3. QED
            BY <1>1, <3>1, <3>2 DEF Store
    <2>4. QED
        BY <2>2, <2>3, SwallowedFitsNext
<1>2. ASSUME NEW w \in Workers,
             \/ Begin(w) \/ Accept(w) \/ Refuse(w) \/ AnswerLost(w)
             \/ BatchRaises(w) \/ Abandon(w)
      PROVE  CriticalNotSwallowed'
    <2>1. armed' = armed /\ fired' = fired /\ heard \subseteq heard'
        BY <1>2 DEF Begin, Accept, Refuse, AnswerLost, BatchRaises, Abandon, states
    <2>2. QED
        BY <1>a, <2>1
<1>3. CASE PriceMoves \/ Tick \/ LegChanges \/ Roll \/ Switch \/ UNCHANGED vars
    <2>1. armed' = armed /\ fired' = fired /\ heard \subseteq heard'
        BY <1>3 DEF PriceMoves, Tick, LegChanges, Roll, Switch, vars, states
    <2>2. QED
        BY <1>a, <2>1
<1>4. QED
    BY <1>1, <1>2, <1>3 DEF Next

---------------------------------------------------------------------------
LEMMA StepIInv == IInv /\ [Next]_vars => IInv'
<1> QED
    BY TypeStep, LockStep, CheckStep, CrossingStep, HeardStep DEF IInv

LEMMA Inductive == Spec => []IInv
<1> QED
    BY InitIInv, StepIInv, PTL DEF Spec

\* Settings, states and checks stay well formed.
THEOREM TypeCorrect == Spec => []TypeOK
<1>1. IInv => TypeOK
    BY DEF IInv
<1> QED
    BY Inductive, <1>1, PTL

\* Checks never overlap, whatever the processes do (alerts_lock).
THEOREM Exclusion == Spec => []OneCheck
<1>1. IInv => OneCheck
    BY DEF IInv, LockOK, OneCheck
<1> QED
    BY Inductive, <1>1, PTL

\* A price code is sent once per crossing: evaluate disarms and re-arms on
\* states as old as the last check, and the price moves while it sends.
THEOREM SentOncePerCrossing == Spec => []OncePerCrossing
<1>1. IInv => OncePerCrossing
    BY DEF IInv, CrossingOK, OncePerCrossing
<1> QED
    BY Inductive, <1>1, PTL

\* No refused, failed or forgotten message leaves a critical code marked.
THEOREM NothingSwallowed == Spec => []CriticalNotSwallowed
<1>1. IInv => CriticalNotSwallowed
    BY DEF IInv
<1> QED
    BY Inductive, <1>1, PTL

---------------------------------------------------------------------------
(* Expiries, when the last expiry of a box only moves on.                  *)

\* The strengthening, for the time code c, fired for f, with copies n, the
\* last expiry e and the checks chk: expiries only move on, a message is for
\* one newer than the last, and a copy is of the past or of a running check.
ExpiryFits(c, f, n, e, chk) ==
    /\ f <= e
    /\ \A w \in Workers : chk[w].pc = "sending" => chk[w].ends <= e /\ f <= chk[w].ends
    /\ \A x \in Expiries :
          /\ n[<<c, x>>] <= 1
          /\ n[<<c, x>>] = 1 => x <= f \/ \E w \in Workers : c \in chk[w].ok /\ chk[w].ends = x
    /\ \A w \in Workers : c \in chk[w].todo \cup chk[w].ok => f < chk[w].ends

ExpiryFitsAll == \A c \in TimeCodes : ExpiryFits(c, fired[c], copies, ends, check)

LEMMA ExpiryInit == Init => ExpiryFitsAll
<1> SUFFICES ASSUME Init, NEW c \in TimeCodes
             PROVE  ExpiryFits(c, fired[c], copies, ends, check)
    BY DEF ExpiryFitsAll
<1>1. fired[c] = -1 /\ ends \in Nat /\ \A x \in Expiries : copies[<<c, x>>] = 0
    BY AlertsAssumption, OccasionsAre DEF Init, NoExpiry
<1>2. \A w \in Workers : check[w] = NoCheck
    BY DEF Init
<1>3. QED
    BY <1>1, <1>2 DEF ExpiryFits, NoCheck

\* What forgetting the outcome of a check does to the copies of a time code.
LEMMA ForgetExpiry ==
    ASSUME IInv, NEW w \in Workers, Forget(w), check[w].pc = "sending",
           NEW c \in TimeCodes, NEW x \in Expiries, copies[<<c, x>>] <= 1
    PROVE  IF c \in check[w].ok /\ x = check[w].ends THEN copies'[<<c, x>>] = 0
                                                     ELSE copies'[<<c, x>>] = copies[<<c, x>>]
<1>1. copies[<<c, x>>] \in Nat /\ <<c, x>> \in Occasions
    BY OccasionsAre DEF IInv, TypeOK
<1>2. check[w].ok \subseteq Codes
    BY DEF IInv, TypeOK, Check
<1>3. CASE c \in check[w].ok /\ x = check[w].ends
    <2>1. <<c, x>> = Key(w, c)
        BY <1>3, Keys
    <2>2. QED
        BY <1>1, <1>3, <2>1 DEF Forget
<1>4. CASE ~(c \in check[w].ok /\ x = check[w].ends)
    <2>1. \A d \in check[w].ok : <<c, x>> # Key(w, d)
        BY <1>2, <1>4, Keys, CodeKinds
    <2>2. QED
        BY <1>1, <1>4, <2>1 DEF Forget
<1>5. QED
    BY <1>3, <1>4

LEMMA ExpiryStep ==
    ASSUME ~EndsMayShrink
    PROVE  IInv /\ ExpiryFitsAll /\ [Next]_vars => ExpiryFitsAll'
<1> SUFFICES ASSUME IInv, ExpiryFitsAll, [Next]_vars, NEW c \in TimeCodes
             PROVE  ExpiryFits(c, fired'[c], copies', ends', check')
    BY DEF ExpiryFitsAll, ExpiryFits
<1> DEFINE Goal == ExpiryFits(c, fired'[c], copies', ends', check')
<1>0. /\ check \in [Workers -> Check] /\ copies \in [Occasions -> Nat]
      /\ ends \in Nat /\ fired[c] \in Int /\ c \in Codes
      /\ Expiries \subseteq Nat
      /\ \A x \in Expiries : copies[<<c, x>>] \in Nat
      /\ ExpiryFits(c, fired[c], copies, ends, check)
    <2>1. ExpiryFits(c, fired[c], copies, ends, check)
        BY DEF ExpiryFitsAll
    <2>2. check \in [Workers -> Check] /\ copies \in [Occasions -> Nat]
        BY DEF IInv, TypeOK
    <2>3. Expiries \subseteq Nat /\ c \in Codes
        BY AlertsAssumption, CodeKinds
    <2>4. ends \in Nat /\ fired[c] \in Int
        <3>1. ends \in Expiries /\ fired \in [TimeCodes -> Expiries \cup {NoExpiry}]
            BY DEF IInv, TypeOK
        <3>2. Expiries \cup {NoExpiry} \subseteq Int
            BY <2>3 DEF NoExpiry
        <3>3. fired[c] \in Expiries \cup {NoExpiry}
            BY <3>1
        <3>4. fired[c] \in Int
            BY <3>2, <3>3
        <3>5. ends \in Nat
            BY <2>3, <3>1
        <3>6. QED
            BY <3>4, <3>5
    <2>5. \A x \in Expiries : copies[<<c, x>>] \in Nat
        BY <2>2, OccasionsAre
    <2>6. QED
        BY <2>1, <2>2, <2>3, <2>4, <2>5
<1>1. ASSUME NEW w \in Workers, Begin(w) PROVE Goal
    <2>1. /\ copies' = copies /\ fired' = fired /\ ends' = ends
          /\ \A v \in Workers : v # w => check'[v] = check[v]
          /\ check'[w].todo = ToSend /\ check'[w].ok = {} /\ check'[w].ends = ends
        BY <1>0, <1>1 DEF Begin, box, states
    <2>2. \A v \in Workers : check[v].ok = {} /\ check[v].todo = {}
        BY <1>1, AlertsAssumption, BusyIsSending DEF Begin
    <2>3. c \in ToSend => fired[c] # ends
        BY CodeKinds DEF ToSend, PriceDue, PriceReady, Compared, TimeReady
    <2>4. fired[c] <= ends /\ \A x \in Expiries :
              copies[<<c, x>>] <= 1 /\ (copies[<<c, x>>] = 1 => x <= fired[c])
        BY <1>0, <2>2 DEF ExpiryFits
    <2>5. \A v \in Workers : check'[v].pc = "sending" =>
              check'[v].ends <= ends /\ fired[c] <= check'[v].ends
        BY <1>0, <2>1, <2>4 DEF ExpiryFits
    <2>6. \A v \in Workers : c \in check'[v].todo \cup check'[v].ok => fired[c] < check'[v].ends
        BY <1>0, <2>1, <2>2, <2>3, <2>4
    <2>7. QED
        BY <2>1, <2>4, <2>5, <2>6 DEF ExpiryFits
<1>2. ASSUME NEW w \in Workers, Accept(w) PROVE Goal
    <2>1. PICK d \in NextMessage(w) :
             /\ check' = [check EXCEPT ![w].todo = @ \ {d}, ![w].ok = @ \cup {d}]
             /\ copies' = [copies EXCEPT ![Key(w, d)] = @ + 1]
        BY <1>2 DEF Accept
    <2>2. fired' = fired /\ ends' = ends
        BY <1>2 DEF Accept, box, states
    <2>3. d \in check[w].todo /\ d \in Codes
        BY <1>0, NextIsLeft DEF Check
    <2>4. check[w].pc = "sending"
        BY <2>3, BusyIsSending
    <2>5. \A v \in Workers : v # w => check'[v] = NoCheck /\ check[v] = NoCheck
        BY <1>0, <2>1, <2>4, OthersIdle
    <2>6. /\ check'[w].todo = check[w].todo \ {d} /\ check'[w].ok = check[w].ok \cup {d}
          /\ check'[w].ends = check[w].ends /\ check'[w].pc = "sending"
        BY <1>0, <2>1, <2>4 DEF Check
    <2>7. \A x \in Expiries : copies'[<<c, x>>] =
              IF d = c /\ x = check[w].ends THEN copies[<<c, x>>] + 1 ELSE copies[<<c, x>>]
        <3>1. \A x \in Expiries : <<c, x>> = Key(w, d) <=> d = c /\ x = check[w].ends
            BY <2>3, Keys, CodeKinds
        <3>2. QED
            BY <1>0, <2>1, <3>1, OccasionsAre
    <2>8. d = c => copies[<<c, check[w].ends>>] = 0
        <3>1. SUFFICES ASSUME d = c PROVE copies[<<c, check[w].ends>>] = 0
            OBVIOUS
        <3>2. check[w].ends \in Expiries /\ fired[c] < check[w].ends
            BY <1>0, <2>3, <3>1, BusyIsSending DEF ExpiryFits
        <3>3. \A v \in Workers : c \notin check[v].ok
            BY <2>3, <2>5, <3>1 DEF IInv, CheckOK, NoCheck
        <3>4. check[w].ends \in Nat /\ copies[<<c, check[w].ends>>] \in Nat
            BY <1>0, <3>2
        <3>5. /\ copies[<<c, check[w].ends>>] <= 1
              /\ copies[<<c, check[w].ends>>] = 1 => check[w].ends <= fired[c]
            BY <1>0, <3>2, <3>3 DEF ExpiryFits
        <3>6. QED
            BY <1>0, <3>2, <3>4, <3>5
    <2>9. \A x \in Expiries :
              /\ copies'[<<c, x>>] <= 1
              /\ copies'[<<c, x>>] = 1 =>
                    x <= fired[c] \/ \E v \in Workers : c \in check'[v].ok /\ check'[v].ends = x
        <3>1. ASSUME NEW x \in Expiries, d = c, x = check[w].ends
              PROVE  /\ copies'[<<c, x>>] <= 1
                     /\ \E v \in Workers : c \in check'[v].ok /\ check'[v].ends = x
            BY <2>6, <2>7, <2>8, <3>1
        <3>2. ASSUME NEW x \in Expiries, ~(d = c /\ x = check[w].ends)
              PROVE  /\ copies'[<<c, x>>] <= 1
                     /\ copies'[<<c, x>>] = 1 => x <= fired[c] \/
                           \E v \in Workers : c \in check'[v].ok /\ check'[v].ends = x
            <4>1. copies'[<<c, x>>] = copies[<<c, x>>]
                BY <2>7, <3>2
            <4>2. \A v \in Workers : check[v].ok \subseteq check'[v].ok
                                        /\ (c \in check[v].ok => check'[v].ends = check[v].ends)
                BY <2>5, <2>6 DEF NoCheck
            <4>3. QED
                BY <1>0, <4>1, <4>2 DEF ExpiryFits
        <3>3. QED
            BY <3>1, <3>2
    <2>10. fired[c] <= ends /\ \A v \in Workers : check'[v].pc = "sending" =>
              check'[v].ends <= ends /\ fired[c] <= check'[v].ends
        BY <1>0, <2>4, <2>5, <2>6 DEF ExpiryFits, NoCheck
    <2>11. \A v \in Workers : c \in check'[v].todo \cup check'[v].ok => fired[c] < check'[v].ends
        <3>1. c \in check'[w].todo \cup check'[w].ok => c \in check[w].todo \cup check[w].ok
            BY <2>3, <2>6
        <3>2. QED
            BY <1>0, <2>5, <2>6, <3>1 DEF ExpiryFits, NoCheck
    <2>12. QED
        BY <2>2, <2>9, <2>10, <2>11 DEF ExpiryFits
<1>3. ASSUME NEW w \in Workers, Store(w) PROVE Goal
    <2>1. copies' = copies /\ ends' = ends
        BY <1>3 DEF Store, box
    <2>2. \A v \in Workers : check'[v] = NoCheck /\ (v # w => check[v] = NoCheck)
        BY <1>0, <1>3, OthersIdle DEF Store
    <2>3. check[w].ends \in Nat /\ fired[c] <= check[w].ends /\ check[w].ends <= ends
        BY <1>0, <1>3 DEF Store, ExpiryFits, IInv, CheckOK
    <2>4. fired'[c] = IF c \in Stored(w) THEN check[w].ends ELSE fired[c]
        BY <1>3 DEF Store, SentFor
    <2>5. ASSUME NEW x \in Expiries, copies[<<c, x>>] = 1 PROVE x <= fired'[c]
        <3>1. x <= fired[c] \/ (c \in check[w].ok /\ check[w].ends = x)
            BY <1>0, <2>2, <2>5 DEF ExpiryFits, NoCheck
        <3>2. QED
            BY <1>0, <2>3, <2>4, <3>1 DEF Stored
    <2>6. fired'[c] <= ends /\ \A x \in Expiries : copies[<<c, x>>] <= 1
        BY <1>0, <2>3, <2>4 DEF ExpiryFits
    <2>7. QED
        BY <2>1, <2>2, <2>5, <2>6 DEF ExpiryFits, NoCheck
<1>4. ASSUME NEW w \in Workers, Refuse(w) \/ AnswerLost(w) PROVE Goal
    <2>1. PICK d \in NextMessage(w) : check' = [check EXCEPT ![w].todo = @ \ {d}]
        BY <1>4 DEF Refuse, AnswerLost
    <2>2. fired' = fired /\ copies' = copies /\ ends' = ends
        BY <1>4 DEF Refuse, AnswerLost, box, states
    <2>3. \A v \in Workers : /\ check'[v].todo \subseteq check[v].todo /\ check'[v].ok = check[v].ok
                             /\ check'[v].pc = check[v].pc /\ check'[v].ends = check[v].ends
        BY <1>0, <2>1 DEF Check
    <2>4. QED
        BY <1>0, <2>2, <2>3 DEF ExpiryFits
<1>5. ASSUME NEW w \in Workers, BatchRaises(w) \/ Abandon(w) PROVE Goal
    <2>1. check[w].pc = "sending" /\ Forget(w)
        BY <1>5, BusyIsSending DEF BatchRaises, Abandon
    <2>2. fired' = fired /\ ends' = ends
        BY <1>5 DEF BatchRaises, Abandon, box, states
    <2>3. \A v \in Workers : /\ check'[v].todo = {} /\ check'[v].ok = {}
                             /\ check'[v].pc = "sending" =>
                                    check[v].pc = "sending" /\ check'[v].ends = check[v].ends
        <3>1. \A v \in Workers : v # w => check'[v] = NoCheck
            BY <1>0, <1>5, <2>1, OthersIdle DEF BatchRaises, Abandon
        <3>2. QED
            BY <1>0, <1>5, <3>1 DEF BatchRaises, Abandon, NoCheck, Check
    <2>4. ASSUME NEW x \in Expiries
          PROVE  copies'[<<c, x>>] <= 1 /\ (copies'[<<c, x>>] = 1 => x <= fired[c])
        <3>1. copies[<<c, x>>] <= 1
            BY <1>0 DEF ExpiryFits
        <3>2. CASE c \in check[w].ok /\ x = check[w].ends
            BY <2>1, <3>1, <3>2, ForgetExpiry
        <3>3. CASE ~(c \in check[w].ok /\ x = check[w].ends)
            <4>1. copies'[<<c, x>>] = copies[<<c, x>>]
                BY <2>1, <3>1, <3>3, ForgetExpiry
            <4>2. ~ \E v \in Workers : c \in check[v].ok /\ check[v].ends = x
                BY <2>1, <3>3, OthersIdle DEF NoCheck
            <4>3. QED
                BY <1>0, <4>1, <4>2 DEF ExpiryFits
        <3>4. QED
            BY <3>2, <3>3
    <2>5. QED
        BY <1>0, <2>2, <2>3, <2>4 DEF ExpiryFits
<1>6. CASE PriceMoves \/ Tick \/ LegChanges \/ Roll
    <2>1. NewCrossings /\ fired' = fired
        BY <1>6 DEF PriceMoves, Tick, LegChanges, Roll, states
    <2>2. \A v \in Workers : /\ check'[v].todo = check[v].todo /\ check'[v].ok = check[v].ok
                             /\ check'[v].pc = check[v].pc /\ check'[v].ends = check[v].ends
        BY <1>6, TickAges DEF PriceMoves, LegChanges, Roll
    <2>3. \A x \in Expiries : copies'[<<c, x>>] = copies[<<c, x>>]
        BY <2>1, CopiesRestart
    <2>4. ends' \in Nat /\ ends <= ends'
        BY <1>0, <1>6 DEF PriceMoves, Tick, LegChanges, Roll
    <2>5. fired[c] <= ends' /\ \A v \in Workers : check[v].pc = "sending" => check[v].ends <= ends'
        <3>1. \A v \in Workers : check[v].pc = "sending" => check[v].ends \in Nat
            BY <1>0 DEF IInv, CheckOK
        <3>2. QED
            BY <1>0, <2>4, <3>1 DEF ExpiryFits
    <2>6. \A x \in Expiries :
              /\ copies'[<<c, x>>] <= 1
              /\ copies'[<<c, x>>] = 1 =>
                    x <= fired[c] \/ \E v \in Workers : c \in check'[v].ok /\ check'[v].ends = x
        <3> SUFFICES ASSUME NEW x \in Expiries
                     PROVE  /\ copies'[<<c, x>>] <= 1
                            /\ copies'[<<c, x>>] = 1 => x <= fired[c] \/
                                 \E v \in Workers : c \in check'[v].ok /\ check'[v].ends = x
            OBVIOUS
        <3>1. /\ copies[<<c, x>>] <= 1
              /\ copies[<<c, x>>] = 1 => x <= fired[c] \/
                    \E v \in Workers : c \in check[v].ok /\ check[v].ends = x
            BY <1>0 DEF ExpiryFits
        <3>2. copies'[<<c, x>>] = copies[<<c, x>>]
            BY <2>3
        <3>3. QED
            BY <2>2, <3>1, <3>2
    <2>7. \A v \in Workers :
              /\ check'[v].pc = "sending" =>
                    check'[v].ends <= ends' /\ fired[c] <= check'[v].ends
              /\ c \in check'[v].todo \cup check'[v].ok => fired[c] < check'[v].ends
        BY <1>0, <2>2, <2>5 DEF ExpiryFits
    <2>8. QED
        BY <2>1, <2>5, <2>6, <2>7 DEF ExpiryFits
<1>7. CASE Switch \/ UNCHANGED vars
    <2>1. fired' = fired /\ copies' = copies /\ ends' = ends /\ check' = check
        BY <1>7 DEF Switch, vars, box, states
    <2>2. QED
        BY <1>0, <2>1 DEF ExpiryFits
<1>8. QED
    BY <1>1, <1>2, <1>3, <1>4, <1>5, <1>6, <1>7 DEF Next

\* A time code is sent once per last expiry (fired_for_ends_at), provided that
\* the last expiry of the box never moves back.
THEOREM SentOncePerExpiry == ~EndsMayShrink => (Spec => []OncePerExpiry)
<1> SUFFICES ASSUME ~EndsMayShrink PROVE Spec => []OncePerExpiry
    OBVIOUS
<1>1. Init => IInv /\ ExpiryFitsAll
    BY InitIInv, ExpiryInit
<1>2. IInv /\ ExpiryFitsAll /\ [Next]_vars => (IInv /\ ExpiryFitsAll)'
    BY StepIInv, ExpiryStep
<1>3. ExpiryFitsAll => OncePerExpiry
    BY DEF ExpiryFitsAll, ExpiryFits, OncePerExpiry
<1> QED
    BY <1>1, <1>2, <1>3, PTL DEF Spec
=============================================================================
