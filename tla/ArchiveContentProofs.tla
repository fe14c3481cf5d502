------------------------- MODULE ArchiveContentProofs -------------------------
(***************************************************************************)
(* Proofs about ArchiveContent, for any calls, archives, passwords,        *)
(* budget, permits, capacity of the LRU and number of clears.              *)
(***************************************************************************)
EXTENDS ArchiveContent, SumLemmas, SequenceTheorems

-----------------------------------------------------------------------------
(***************************************************************************)
(* Where each step is in the plan of each operation.                       *)
(***************************************************************************)

LEMMA PlanIs ==
  /\ DOMAIN Plan = {"prepare", "unlock", "list", "read", "stat"}
  /\ Plan["prepare"] = <<"resolve", "password", "format", "probe", "answer">>
  /\ Plan["unlock"] = <<"resolve", "format", "probe", "choose", "stat", "read", "keep">>
  /\ Plan["list"] = <<"resolve", "peek", "format", "password", "catalog">>
  /\ Plan["read"] = <<"resolve", "password", "probe", "format", "stat", "read">>
  /\ Plan["stat"] = <<"resolve", "format", "password", "stat">>
BY DEF Plan

\* The step that op is at after i - 1 others, in a form that needs no plan.
Place(op, i, s) ==
  \/ op = "prepare" /\ ((i = 1 /\ s = "resolve") \/ (i = 2 /\ s = "password") \/ (i = 3 /\ s = "format") \/
                        (i = 4 /\ s = "probe") \/ (i = 5 /\ s = "answer"))
  \/ op = "unlock" /\ ((i = 1 /\ s = "resolve") \/ (i = 2 /\ s = "format") \/ (i = 3 /\ s = "probe") \/
                       (i = 4 /\ s = "choose") \/ (i = 5 /\ s = "stat") \/ (i = 6 /\ s = "read") \/
                       (i = 7 /\ s = "keep"))
  \/ op = "list" /\ ((i = 1 /\ s = "resolve") \/ (i = 2 /\ s = "peek") \/ (i = 3 /\ s = "format") \/
                     (i = 4 /\ s = "password") \/ (i = 5 /\ s = "catalog"))
  \/ op = "read" /\ ((i = 1 /\ s = "resolve") \/ (i = 2 /\ s = "password") \/ (i = 3 /\ s = "probe") \/
                     (i = 4 /\ s = "format") \/ (i = 5 /\ s = "stat") \/ (i = 6 /\ s = "read"))
  \/ op = "stat" /\ ((i = 1 /\ s = "resolve") \/ (i = 2 /\ s = "format") \/ (i = 3 /\ s = "password") \/
                     (i = 4 /\ s = "stat"))

\* How many steps op has.
Steps(op) == CASE op = "unlock" -> 7 [] op = "read" -> 6 [] op = "stat" -> 4 [] OTHER -> 5

LEMMA PlanPlaces ==
  ASSUME NEW op \in DOMAIN Plan
  PROVE  /\ Len(Plan[op]) = Steps(op)
         /\ \A i \in 1 .. Steps(op) : Place(op, i, Plan[op][i])
<1>1. CASE op = "prepare"
  <2>1. Len(Plan[op]) = 5 /\ Steps(op) = 5
    BY <1>1, PlanIs DEF Steps
  <2>2. ASSUME NEW i \in 1 .. 5 PROVE Place("prepare", i, Plan["prepare"][i])
    <3>1. i = 1 \/ i = 2 \/ i = 3 \/ i = 4 \/ i = 5
      OBVIOUS
    <3> QED BY <3>1, PlanIs DEF Place
  <2> QED BY <1>1, <2>1, <2>2
<1>2. CASE op = "unlock"
  <2>1. Len(Plan[op]) = 7 /\ Steps(op) = 7
    BY <1>2, PlanIs DEF Steps
  <2>2. ASSUME NEW i \in 1 .. 7 PROVE Place("unlock", i, Plan["unlock"][i])
    <3>1. i = 1 \/ i = 2 \/ i = 3 \/ i = 4 \/ i = 5 \/ i = 6 \/ i = 7
      OBVIOUS
    <3> QED BY <3>1, PlanIs DEF Place
  <2> QED BY <1>2, <2>1, <2>2
<1>3. CASE op = "list"
  <2>1. Len(Plan[op]) = 5 /\ Steps(op) = 5
    BY <1>3, PlanIs DEF Steps
  <2>2. ASSUME NEW i \in 1 .. 5 PROVE Place("list", i, Plan["list"][i])
    <3>1. i = 1 \/ i = 2 \/ i = 3 \/ i = 4 \/ i = 5
      OBVIOUS
    <3> QED BY <3>1, PlanIs DEF Place
  <2> QED BY <1>3, <2>1, <2>2
<1>4. CASE op = "read"
  <2>1. Len(Plan[op]) = 6 /\ Steps(op) = 6
    BY <1>4, PlanIs DEF Steps
  <2>2. ASSUME NEW i \in 1 .. 6 PROVE Place("read", i, Plan["read"][i])
    <3>1. i = 1 \/ i = 2 \/ i = 3 \/ i = 4 \/ i = 5 \/ i = 6
      OBVIOUS
    <3> QED BY <3>1, PlanIs DEF Place
  <2> QED BY <1>4, <2>1, <2>2
<1>5. CASE op = "stat"
  <2>1. Len(Plan[op]) = 4 /\ Steps(op) = 4
    BY <1>5, PlanIs DEF Steps
  <2>2. ASSUME NEW i \in 1 .. 4 PROVE Place("stat", i, Plan["stat"][i])
    <3>1. i = 1 \/ i = 2 \/ i = 3 \/ i = 4
      OBVIOUS
    <3> QED BY <3>1, PlanIs DEF Place
  <2> QED BY <1>5, <2>1, <2>2
<1> QED BY <1>1, <1>2, <1>3, <1>4, <1>5, PlanIs

-----------------------------------------------------------------------------
(***************************************************************************)
(* One call.                                                               *)
(***************************************************************************)

Name(k) == Plan[k.op][k.at]
At(k, s) == k.at > 0 /\ Name(k) = s
Claimed(k) == IF k.full THEN Budget - About[k.archive].dict ELSE About[k.archive].declared

\* The entry is too large for the budget, whatever anyone else holds.
TooLarge(a) == About[a].dict + Max({About[a].declared, About[a].actual}) > Budget

\* A call is at a step of its plan, waits where the plan has it wait, was
\* admitted since the caches were last emptied, and tries a broken stream twice.
OnItsWay(k) ==
  /\ k.at > 0 => /\ k.op # "none" /\ k.at <= Steps(k.op)
                 /\ cleared <= k.gen /\ k.gen <= generation
  /\ k.sub # "start" => k.at > 0
  /\ k.sub = "run" => At(k, "read")
  /\ k.sub = "wait" => At(k, "read") \/ At(k, "format")
  /\ k.sub = "store" => At(k, "probe") \/ At(k, "catalog")
  /\ k.tries = 2 => k.input = "path" \/ k.sub = "degrade"

\* What a call holds, wants and has claimed of the budget.
WithinBudget(k) ==
  /\ k.held = IF At(k, "read") /\ k.sub = "run"
              THEN PermitCount(About[k.archive].dict + k.reserved) ELSE 0
  /\ k.full => At(k, "read") /\ About[k.archive].dict < Budget
  /\ k.full /\ k.sub = "run" => k.reserved >= Budget - About[k.archive].dict
  /\ At(k, "read") /\ k.sub = "wait" =>
       /\ k.want = PermitCount(Claimed(k) + About[k.archive].dict)
       /\ Claimed(k) + About[k.archive].dict <= Budget

\* What an unlock knows by the time it has come this far, and what a refusal
\* for want of room says.
Knows(k) ==
  /\ k.op = "unlock" /\ k.at >= 5 => About[k.archive].secret # None
  /\ k.op = "unlock" /\ k.at >= 7 => k.password = About[k.archive].secret
  /\ k.result = "ResourceLimitExceeded" => TooLarge(k.archive)

CallOK(k) == k \in CallType /\ OnItsWay(k) /\ WithinBudget(k) /\ Knows(k)

\* An archive as the assumption has it.
LEMMA AnArchive ==
  ASSUME NEW a \in Archives
  PROVE  /\ About[a].format \in Formats
         /\ About[a].dict \in Nat /\ About[a].declared \in Nat /\ About[a].actual \in Nat
         /\ About[a].locked # "none" => About[a].secret # None
         /\ About[a].secret \in Guesses \cup {None}
BY AboutAssumption

\* The maximum of two numbers.
LEMMA MaxOfTwo ==
  ASSUME NEW m \in Nat, NEW n \in Nat
  PROVE  Max({m, n}) \in Nat /\ Max({m, n}) >= m /\ Max({m, n}) >= n
<1>1. Max({m, n}) = IF m >= n THEN m ELSE n
  BY DEF Max
<1> QED BY <1>1

\* An entry that one of its two sizes does not fit is too large.
LEMMA TooLargeWhen ==
  ASSUME NEW a \in Archives, NEW n \in {About[a].declared, About[a].actual},
         n + About[a].dict > Budget
  PROVE  TooLarge(a)
<1>1. About[a].dict \in Nat /\ About[a].declared \in Nat /\ About[a].actual \in Nat
  BY AnArchive
<1>2. Max({About[a].declared, About[a].actual}) \in Nat /\ Max({About[a].declared, About[a].actual}) >= n
  BY <1>1, MaxOfTwo
<1> QED BY <1>1, <1>2, BudgetAssumption DEF TooLarge

LEMMA IdleOK == Idle \in CallType /\ Idle.at = 0 /\ Idle.sub = "start" /\ Idle.held = 0 /\ CallOK(Idle)
<1>1. (CHOOSE a \in Archives : TRUE) \in Archives
  BY BudgetAssumption
<1>2. Idle \in CallType
  BY <1>1, BudgetAssumption DEF Idle, CallType, Results
<1> QED BY <1>2 DEF Idle, CallOK, OnItsWay, WithinBudget, Knows, At

\* A call that has answered r.
Answered(k, r) == [Idle EXCEPT !.op = k.op, !.archive = k.archive, !.result = r]

LEMMA AnsweredOK ==
  ASSUME NEW k \in CallType, NEW r \in Results,
         r = "ResourceLimitExceeded" => TooLarge(k.archive)
  PROVE  /\ CallOK(Answered(k, r))
         /\ Answered(k, r).at = 0 /\ Answered(k, r).held = 0 /\ Answered(k, r).sub = "start"
<1> DEFINE n == Answered(k, r)
<1>1. n \in CallType
  BY IdleOK DEF Answered, CallType
<1>2. /\ n.op = k.op /\ n.archive = k.archive /\ n.result = r /\ n.at = 0 /\ n.sub = "start"
      /\ n.held = 0 /\ ~n.full /\ n.tries = 0
  BY IdleOK DEF Answered, CallType, Idle
<1> HIDE DEF n
<1>3. OnItsWay(n) /\ WithinBudget(n) /\ Knows(n)
  BY <1>2 DEF OnItsWay, WithinBudget, Knows, At
<1> QED BY <1>1, <1>2, <1>3 DEF CallOK, n

\* Where an admitted call is.
LEMMA Placed ==
  ASSUME NEW k, CallOK(k), k.at > 0
  PROVE  /\ Place(k.op, k.at, Name(k)) /\ k.op \in DOMAIN Plan
         /\ k.at \in 1 .. Steps(k.op) /\ Len(Plan[k.op]) = Steps(k.op) /\ Steps(k.op) \in 4 .. 7
<1>1. k.op \in DOMAIN Plan /\ k.at \in 1 .. Steps(k.op)
  BY DEF CallOK, OnItsWay, CallType, Steps
<1>2. Steps(k.op) \in 4 .. 7
  BY DEF Steps
<1> QED BY <1>1, <1>2, PlanPlaces DEF Name

LEMMA OnwardTyped ==
  ASSUME NEW k \in CallType, NEW next \in 0 .. 7, next = k.at + 1
  PROVE  Onward(k) \in CallType
<1>1. Onward(k) = [k EXCEPT !.at = next, !.sub = "start", !.tries = 0]
  BY DEF Onward
<1>2. 0 \in 0 .. 2
  OBVIOUS
<1> QED BY <1>1, <1>2 DEF CallType

\* A call that goes on to its next step, with what it learned in this one.
With(k, pw, input, permit) == [k EXCEPT !.password = pw, !.input = input, !.permit = permit]
Gone(k, pw, input, permit) == With(Onward(k), pw, input, permit)

LEMMA OnwardOK ==
  ASSUME NEW k, CallOK(k), k.at > 0, k.at < Steps(k.op), k.held = 0, ~k.full,
         NEW pw \in Guesses \cup {None}, k.op = "unlock" => pw = k.password,
         NEW input \in {"path", "stream", "none"}, NEW permit \in BOOLEAN,
         k.op = "unlock" /\ k.at = 4 => About[k.archive].secret # None,
         k.op = "unlock" /\ k.at = 6 => k.password = About[k.archive].secret
  PROVE  /\ CallOK(Gone(k, pw, input, permit))
         /\ Gone(k, pw, input, permit).held = 0 /\ Gone(k, pw, input, permit).sub = "start"
<1> DEFINE n == Gone(k, pw, input, permit)
<1>1. k \in CallType /\ k.at \in 1 .. Steps(k.op) /\ Steps(k.op) \in 4 .. 7
  BY Placed DEF CallOK
<1>2. n \in CallType
  <2>1. k.at + 1 \in 0 .. 7
    BY <1>1
  <2>2. Onward(k) \in CallType
    BY <1>1, <2>1, OnwardTyped
  <2> DEFINE o == Onward(k)
  <2> HIDE DEF o
  <2>3. o \in CallType
    BY <2>2 DEF o
  <2>4. [o EXCEPT !.password = pw, !.input = input, !.permit = permit] \in CallType
    <3>1. [o EXCEPT !.password = pw] \in CallType
      BY <2>3 DEF CallType
    <3>2. ASSUME NEW x \in CallType PROVE [x EXCEPT !.input = input] \in CallType
      BY <3>2 DEF CallType
    <3>3. ASSUME NEW x \in CallType PROVE [x EXCEPT !.permit = permit] \in CallType
      BY <3>3 DEF CallType
    <3> QED BY <3>1, <3>2, <3>3
  <2> QED BY <2>4 DEF o, Gone, With
<1>3. /\ n.op = k.op /\ n.archive = k.archive /\ n.result = k.result /\ n.at = k.at + 1
      /\ n.sub = "start" /\ n.held = 0 /\ ~n.full /\ n.tries = 0 /\ n.gen = k.gen
      /\ n.password = pw
  BY <1>1 DEF Onward, CallType, Gone, With
<1> HIDE DEF n
<1>4. OnItsWay(n)
  BY <1>1, <1>3 DEF OnItsWay, CallOK
<1>5. WithinBudget(n)
  BY <1>3 DEF WithinBudget
<1>6. Knows(n)
  BY <1>1, <1>3 DEF Knows, CallOK
<1> QED BY <1>2, <1>3, <1>4, <1>5, <1>6 DEF CallOK, n

-----------------------------------------------------------------------------
(***************************************************************************)
(* What a step makes of its call.                                          *)
(***************************************************************************)

CallsOK == call = [c \in Calls |-> call[c]] /\ \A c \in Calls : CallOK(call[c])

MemoryOK == FreeMemory \in Nat

\* The call c becomes a call that is as it should be, waits for nothing, and
\* takes no memory that is not free.
Settles(c) ==
  \E k : /\ call' = [call EXCEPT ![c] = k]
         /\ CallOK(k) /\ k.sub # "wait"
         /\ k.held <= call[c].held + FreeMemory

\* Holding nothing is always within the budget.
LEMMA SettlesFreely ==
  ASSUME CallsOK, MemoryOK, NEW c \in Calls, NEW k, CallOK(k), k.sub # "wait", k.held = 0,
         call' = [call EXCEPT ![c] = k]
  PROVE  Settles(c)
<1>1. call[c].held \in Nat
  BY DEF CallsOK, CallOK, CallType
<1>2. k.held <= call[c].held + FreeMemory
  BY <1>1 DEF MemoryOK
<1> QED BY <1>2 DEF Settles

LEMMA AnswerSettles ==
  ASSUME CallsOK, MemoryOK, NEW c \in Calls, NEW r \in Results, Answer(c, r),
         r = "ResourceLimitExceeded" => TooLarge(call[c].archive)
  PROVE  Settles(c)
<1> DEFINE n == Answered(call[c], r)
<1>1. call[c] \in CallType
  BY DEF CallsOK, CallOK
<1>2. call' = [call EXCEPT ![c] = n]
  BY DEF Answer, Answered
<1>3. CallOK(n) /\ n.held = 0 /\ n.sub = "start"
  BY <1>1, AnsweredOK
<1> HIDE DEF n
<1> QED BY <1>2, <1>3, SettlesFreely

LEMMA OnwardSettles ==
  ASSUME CallsOK, MemoryOK, NEW c \in Calls, Admitted(c), call[c].at < Steps(call[c].op),
         call[c].held = 0, ~call[c].full,
         call[c].op = "unlock" /\ call[c].at = 4 => About[call[c].archive].secret # None,
         call[c].op = "unlock" /\ call[c].at = 6 => call[c].password = About[call[c].archive].secret,
         NEW pw \in Guesses \cup {None}, call[c].op = "unlock" => pw = call[c].password,
         NEW input \in {"path", "stream", "none"},
         NEW permit \in BOOLEAN,
         call' = [call EXCEPT ![c] = Gone(call[c], pw, input, permit)]
  PROVE  Settles(c)
<1>1. CallOK(call[c]) /\ call[c].at > 0
  BY DEF CallsOK, Admitted
<1>2. /\ CallOK(Gone(call[c], pw, input, permit))
      /\ Gone(call[c], pw, input, permit).held = 0 /\ Gone(call[c], pw, input, permit).sub = "start"
  BY <1>1, OnwardOK
<1> QED BY <1>2, SettlesFreely

\* What a step learns, if it learns only one thing.
LEMMA GoneWith ==
  ASSUME NEW k \in CallType, k.at + 1 \in 0 .. 7
  PROVE  /\ Gone(k, k.password, k.input, k.permit) = Onward(k)
         /\ \A pw : Gone(k, pw, k.input, k.permit) = [Onward(k) EXCEPT !.password = pw]
         /\ \A input : Gone(k, k.password, input, k.permit) = [Onward(k) EXCEPT !.input = input]
         /\ \A permit : Gone(k, k.password, k.input, permit) = [Onward(k) EXCEPT !.permit = permit]
<1> DEFINE o == Onward(k)
<1>1. o.password = k.password /\ o.input = k.input /\ o.permit = k.permit
  BY DEF Onward, CallType
<1>2. o \in CallType
  BY OnwardTyped
<1> HIDE DEF o
<1>3. /\ With(o, o.password, o.input, o.permit) = o
      /\ \A pw : With(o, pw, o.input, o.permit) = [o EXCEPT !.password = pw]
      /\ \A input : With(o, o.password, input, o.permit) = [o EXCEPT !.input = input]
      /\ \A permit : With(o, o.password, o.input, permit) = [o EXCEPT !.permit = permit]
  BY <1>2 DEF CallType, With
<1>4. o.password = k.password /\ o.input = k.input /\ o.permit = k.permit
  BY <1>1 DEF o
<1>5. \A pw, input, permit : Gone(k, pw, input, permit) = With(o, pw, input, permit)
  BY DEF Gone, o
<1> QED BY <1>3, <1>4, <1>5 DEF o

LEMMA AdvanceSettles ==
  ASSUME CallsOK, MemoryOK, NEW c \in Calls, Admitted(c), Advance(c),
         call[c].held = 0, ~call[c].full,
         call[c].op = "unlock" /\ call[c].at = 4 => About[call[c].archive].secret # None,
         call[c].op = "unlock" /\ call[c].at = 6 => call[c].password = About[call[c].archive].secret
  PROVE  Settles(c)
<1>1. CallOK(call[c]) /\ call[c] \in CallType
  BY DEF CallsOK, CallOK
<1>2. Len(Plan[call[c].op]) = Steps(call[c].op) /\ call[c].at \in 1 .. Steps(call[c].op)
      /\ Steps(call[c].op) \in 4 .. 7
  BY <1>1, Placed DEF Admitted
<1>3. CASE call[c].at = Steps(call[c].op)
  <2>1. Answer(c, "ok")
    BY <1>2, <1>3 DEF Advance
  <2> QED BY <2>1, AnswerSettles DEF Results
<1>4. CASE call[c].at # Steps(call[c].op)
  <2>1. call' = [call EXCEPT ![c] = Onward(call[c])]
    BY <1>2, <1>4 DEF Advance
  <2>2. call[c].at < Steps(call[c].op)
    BY <1>2, <1>4
  <2>3. call[c].password \in Guesses \cup {None} /\ call[c].input \in {"path", "stream", "none"}
    BY <1>1 DEF CallType
  <2>4. call[c].at + 1 \in 0 .. 7
    BY <1>2, <2>2
  <2>5. call' = [call EXCEPT ![c] = Gone(call[c], call[c].password, call[c].input, call[c].permit)]
    BY <1>1, <2>1, <2>4, GoneWith
  <2>6. call[c].permit \in BOOLEAN
    BY <1>1 DEF CallType
  <2> QED BY <2>2, <2>3, <2>5, <2>6, OnwardSettles
<1> QED BY <1>3, <1>4

\* What is known of a call at the step s.
LEMMA Whereabouts ==
  ASSUME CallsOK, NEW c \in Calls, NEW s, Step(c, s)
  PROVE  /\ Admitted(c) /\ CallOK(call[c]) /\ call[c] \in CallType /\ At(call[c], s)
         /\ Place(call[c].op, call[c].at, s)
         /\ call[c].at \in 1 .. Steps(call[c].op) /\ Steps(call[c].op) \in 4 .. 7
         /\ s # "read" => call[c].held = 0 /\ ~call[c].full
         /\ call[c].archive \in Archives
<1>1. CallOK(call[c]) /\ call[c].at > 0 /\ Name(call[c]) = s
  BY DEF CallsOK, Step, Admitted, Name
<1>2. s # "read" => call[c].held = 0 /\ ~call[c].full
  BY <1>1 DEF CallOK, WithinBudget, At, CallType
<1> QED BY <1>1, <1>2, Placed DEF CallOK, CallType, Admitted, At

LEMMA ResolveSettles ==
  ASSUME CallsOK, MemoryOK, NEW c \in Calls, NEW input \in {"path", "stream"}, Resolve(c, input)
  PROVE  Settles(c)
<1> DEFINE pw == call[c].password
           permit == call[c].permit
<1>1. Step(c, "resolve") /\ call' = [call EXCEPT ![c] = [Onward(call[c]) EXCEPT !.input = input]]
  BY DEF Resolve
<1>2. /\ Admitted(c) /\ call[c] \in CallType /\ call[c].at = 1 /\ call[c].at < Steps(call[c].op)
      /\ call[c].at + 1 \in 0 .. 7 /\ call[c].held = 0 /\ ~call[c].full
  BY <1>1, Whereabouts DEF Place
<1>3. call' = [call EXCEPT ![c] = Gone(call[c], pw, input, permit)]
  <2>1. Gone(call[c], pw, input, permit) = [Onward(call[c]) EXCEPT !.input = input]
    BY <1>2, GoneWith
  <2> QED BY <1>1, <2>1, Zenon
<1>4. /\ pw \in Guesses \cup {None} /\ permit \in BOOLEAN /\ pw = call[c].password
      /\ input \in {"path", "stream", "none"}
  BY <1>2 DEF CallType
<1> HIDE DEF pw, permit
<1>5. call[c].at # 4 /\ call[c].at # 6
  BY <1>2
<1> QED BY <1>2, <1>3, <1>4, <1>5, OnwardSettles

LEMMA ReadPasswordSettles ==
  ASSUME CallsOK, MemoryOK, NEW c \in Calls, ReadPassword(c),
         passwords \in [Archives -> Guesses \cup {None}]
  PROVE  Settles(c)
<1> DEFINE pw == passwords[call[c].archive]
<1>1. Step(c, "password") /\ call' = [call EXCEPT ![c] = [Onward(call[c]) EXCEPT !.password = pw]]
  BY DEF ReadPassword
<1>2. /\ Admitted(c) /\ call[c] \in CallType /\ call[c].at < Steps(call[c].op) /\ call[c].at + 1 \in 0 .. 7
      /\ call[c].op # "unlock" /\ call[c].held = 0 /\ ~call[c].full /\ call[c].archive \in Archives
  BY <1>1, Whereabouts DEF Place, Steps
<1>3. call' = [call EXCEPT ![c] = Gone(call[c], pw, call[c].input, call[c].permit)]
  <2>1. Gone(call[c], pw, call[c].input, call[c].permit) = [Onward(call[c]) EXCEPT !.password = pw]
    BY <1>2, GoneWith
  <2> QED BY <1>1, <2>1, Zenon
<1>4. pw \in Guesses \cup {None} /\ call[c].input \in {"path", "stream", "none"} /\ call[c].permit \in BOOLEAN
  BY <1>2 DEF CallType
<1> HIDE DEF pw
<1> QED BY <1>2, <1>3, <1>4, OnwardSettles

\* A lookup, a load, a measurement: the call goes on, and holds nothing.
LEMMA AdvanceFrom ==
  ASSUME CallsOK, MemoryOK, NEW c \in Calls, Advance(c),
         NEW s \in {"probe", "peek", "catalog", "stat"}, Step(c, s)
  PROVE  Settles(c)
<1>1. /\ Admitted(c) /\ CallOK(call[c]) /\ call[c].held = 0 /\ ~call[c].full
      /\ call[c].op = "unlock" => call[c].at \in {3, 5}
  BY Whereabouts DEF Place
<1> QED BY <1>1, AdvanceSettles

LEMMA LookupSettles ==
  ASSUME CallsOK, MemoryOK, NEW c \in Calls, LruHit(c) \/ PeekMisses(c) \/ StatDone(c) \/ StoreLoaded(c)
  PROVE  Settles(c)
<1>1. CASE LruHit(c)
  <2>1. \/ Step(c, "probe") /\ Advance(c)
        \/ Answer(c, "ok")
    BY <1>1 DEF LruHit
  <2> QED BY <2>1, AdvanceFrom, AnswerSettles DEF Results
<1>2. CASE PeekMisses(c)
  BY <1>2, AdvanceFrom DEF PeekMisses
<1>3. CASE StatDone(c)
  BY <1>3, AdvanceFrom DEF StatDone
<1>4. CASE StoreLoaded(c)
  <2>1. Admitted(c) /\ call[c].sub = "store" /\ Advance(c)
    BY <1>4 DEF StoreLoaded
  <2>2. Step(c, "probe") \/ Step(c, "catalog")
    BY <2>1 DEF CallsOK, CallOK, OnItsWay, At, Name, Step
  <2> QED BY <2>1, <2>2, AdvanceFrom
<1> QED BY <1>1, <1>2, <1>3, <1>4

LEMMA FailureSettles ==
  ASSUME CallsOK, MemoryOK, NEW c \in Calls, ResolveFails(c) \/ Refused(c) \/ BackendFails(c)
  PROVE  Settles(c)
<1>1. \E r \in Results \ {"ResourceLimitExceeded"} : Answer(c, r)
  <2>1. CASE ResolveFails(c)
    BY <2>1 DEF ResolveFails, Results
  <2>2. CASE Refused(c)
    BY <2>2 DEF Refused, Verdict, Results
  <2>3. CASE BackendFails(c)
    BY <2>3 DEF BackendFails, Results
  <2> QED BY <2>1, <2>2, <2>3
<1> QED BY <1>1, AnswerSettles

\* A call that stays at its step.
LEMMA StaysOK ==
  ASSUME NEW k, CallOK(k), k.at > 0, NEW n \in CallType,
         n.op = k.op, n.archive = k.archive, n.at = k.at, n.gen = k.gen,
         n.password = k.password, n.result = k.result,
         n.sub = "run" => At(k, "read"),
         n.sub = "wait" => At(k, "read") \/ At(k, "format"),
         n.sub = "store" => At(k, "probe") \/ At(k, "catalog"),
         n.tries = 2 => n.input = "path" \/ n.sub = "degrade",
         n.held = IF At(k, "read") /\ n.sub = "run"
                  THEN PermitCount(About[k.archive].dict + n.reserved) ELSE 0,
         n.full => At(k, "read") /\ About[k.archive].dict < Budget,
         n.full /\ n.sub = "run" => n.reserved >= Budget - About[k.archive].dict,
         At(k, "read") /\ n.sub = "wait" =>
           /\ n.want = PermitCount(Claimed(n) + About[k.archive].dict)
           /\ Claimed(n) + About[k.archive].dict <= Budget
  PROVE  CallOK(n)
<1>1. \A s : At(n, s) <=> At(k, s)
  BY DEF At, Name
<1>2. OnItsWay(n)
  BY <1>1 DEF CallOK, OnItsWay
<1>3. WithinBudget(n)
  BY <1>1 DEF WithinBudget
<1>4. Knows(n)
  BY DEF Knows, CallOK
<1> QED BY <1>2, <1>3, <1>4 DEF CallOK

LEMMA LoadedSettles ==
  ASSUME CallsOK, MemoryOK, NEW c \in Calls, Loaded(c)
  PROVE  Settles(c)
<1>1. Step(c, "probe") \/ Step(c, "catalog")
  BY DEF Loaded
<1>2. CASE call[c].gen # generation
  BY <1>1, <1>2, AdvanceFrom DEF Loaded
<1>3. CASE call[c].gen = generation
  <2> DEFINE k == call[c]
             n == [k EXCEPT !.sub = "store"]
  <2>1. call' = [call EXCEPT ![c] = n]
    BY <1>3 DEF Loaded
  <2>2. /\ CallOK(k) /\ k \in CallType /\ k.at > 0 /\ k.held = 0 /\ ~k.full
        /\ At(k, "probe") \/ At(k, "catalog")
    BY <1>1, Whereabouts DEF Admitted
  <2> HIDE DEF k
  <2>3. /\ n \in CallType
        /\ n.op = k.op /\ n.archive = k.archive /\ n.at = k.at /\ n.gen = k.gen /\ n.held = 0
        /\ n.password = k.password /\ n.result = k.result /\ n.sub = "store" /\ ~n.full
        /\ n.tries = k.tries /\ n.input = k.input
    BY <2>2 DEF CallType
  <2>4. k.tries = 2 => k.input = "path" \/ k.sub = "degrade"
    BY <2>2 DEF CallOK, OnItsWay
  <2>5. k.sub # "degrade"
    BY DEF Loaded, Working, k, Step, Admitted
  <2> HIDE DEF n
  <2>6. CallOK(n)
    BY <2>2, <2>3, <2>4, <2>5, StaysOK
  <2> QED BY <2>1, <2>3, <2>6, SettlesFreely
<1> QED BY <1>2, <1>3

LEMMA NetworkFailsSettles ==
  ASSUME CallsOK, MemoryOK, NEW c \in Calls, NetworkFails(c)
  PROVE  Settles(c)
<1> DEFINE k == call[c]
           sub == IF k.tries = 0 THEN "start" ELSE "degrade"
           tries == k.tries + 1
           n == [k EXCEPT !.tries = tries, !.sub = sub, !.held = 0, !.reserved = 0, !.full = FALSE]
<1>1. call' = [call EXCEPT ![c] = n]
  BY DEF NetworkFails
<1>2. CallOK(k) /\ k \in CallType /\ k.at > 0 /\ k.input = "stream" /\ k.sub # "degrade"
  BY DEF NetworkFails, Working, Step, Admitted, CallsOK, CallOK
<1>3. k.tries \in {0, 1}
  <2>1. k.tries # 2 /\ k.tries \in 0 .. 2
    BY <1>2 DEF CallOK, OnItsWay, CallType
  <2> QED BY <2>1
<1>4. tries \in 0 .. 2 /\ sub \in {"start", "degrade"} /\ (tries = 2 => sub = "degrade")
  BY <1>3
<1> HIDE DEF k, sub, tries
<1>5. /\ n \in CallType
      /\ n.op = k.op /\ n.archive = k.archive /\ n.at = k.at /\ n.gen = k.gen /\ n.held = 0
      /\ n.password = k.password /\ n.result = k.result /\ n.sub = sub /\ ~n.full
      /\ n.tries = tries /\ n.input = k.input
  BY <1>2, <1>4 DEF CallType
<1> HIDE DEF n
<1>6. CallOK(n)
  BY <1>2, <1>4, <1>5, StaysOK
<1> QED BY <1>1, <1>4, <1>5, <1>6, SettlesFreely

LEMMA DegradeSettles ==
  ASSUME CallsOK, MemoryOK, NEW c \in Calls, Degrade(c)
  PROVE  Settles(c)
<1>1. CASE \E r \in {"failed", "Cancelled"} : Answer(c, r)
  BY <1>1, AnswerSettles DEF Results
<1>2. CASE call' = [call EXCEPT ![c].input = "path", ![c].sub = "start"]
  <2> DEFINE k == call[c]
             n == [k EXCEPT !.input = "path", !.sub = "start"]
  <2>1. call' = [call EXCEPT ![c] = n]
    <3>1. call = [d \in Calls |-> call[d]]
      BY DEF CallsOK
    <3> QED BY <1>2, <3>1
  <2>2. CallOK(k) /\ k \in CallType /\ k.at > 0 /\ k.sub = "degrade"
    BY DEF Degrade, Admitted, CallsOK, CallOK
  <2>3. k.held = 0
    BY <2>2 DEF CallOK, WithinBudget
  <2> HIDE DEF k
  <2>4. /\ n \in CallType
        /\ n.op = k.op /\ n.archive = k.archive /\ n.at = k.at /\ n.gen = k.gen /\ n.held = 0
        /\ n.password = k.password /\ n.result = k.result /\ n.sub = "start" /\ n.full = k.full
        /\ n.input = "path"
    BY <2>2, <2>3 DEF CallType
  <2>5. k.full => At(k, "read") /\ About[k.archive].dict < Budget
    BY <2>2 DEF CallOK, WithinBudget
  <2> HIDE DEF n
  <2>6. CallOK(n)
    BY <2>2, <2>4, <2>5, StaysOK
  <2> QED BY <2>1, <2>4, <2>6, SettlesFreely
<1> QED BY <1>1, <1>2 DEF Degrade

LEMMA AnswersSettle ==
  ASSUME CallsOK, MemoryOK, NEW c \in Calls,
         AnswerPrepare(c) \/ ChooseCandidate(c) \/ KeepPassword(c)
  PROVE  Settles(c)
<1>1. CASE AnswerPrepare(c)
  <2>1. \E r \in {"EmptyArchive", "PasswordRequired", "Ready"} : Answer(c, r)
    BY <1>1 DEF AnswerPrepare
  <2> QED BY <2>1, AnswerSettles DEF Results
<1>2. CASE ChooseCandidate(c)
  <2>1. Step(c, "choose")
    BY <1>2 DEF ChooseCandidate
  <2>2. \/ \E r \in {"EmptyArchive", "InvalidRequest"} : Answer(c, r)
        \/ Advance(c) /\ About[call[c].archive].locked # "none"
    BY <1>2 DEF ChooseCandidate, Archive
  <2>3. CASE \E r \in {"EmptyArchive", "InvalidRequest"} : Answer(c, r)
    BY <2>3, AnswerSettles DEF Results
  <2>4. CASE Advance(c) /\ About[call[c].archive].locked # "none"
    <3>1. /\ Admitted(c) /\ call[c].held = 0 /\ ~call[c].full /\ call[c].archive \in Archives
          /\ call[c].at = 4
      BY <2>1, Whereabouts DEF Place
    <3>2. About[call[c].archive].secret # None
      BY <2>4, <3>1, AnArchive
    <3>3. call[c].at # 6
      BY <3>1
    <3> QED BY <2>4, <3>1, <3>2, <3>3, AdvanceSettles
  <2> QED BY <2>2, <2>3, <2>4
<1>3. CASE KeepPassword(c)
  BY <1>3, AnswerSettles DEF KeepPassword, Results
<1> QED BY <1>1, <1>2, <1>3

-----------------------------------------------------------------------------
(***************************************************************************)
(* Reading within the budget.                                              *)
(***************************************************************************)

\* The call c becomes a call that waits, and holds nothing.
Lines(c, s) ==
  \E k : /\ call' = [call EXCEPT ![c] = k]
         /\ CallOK(k) /\ k.sub = "wait" /\ k.held = 0 /\ At(k, s)
         /\ k.archive = call[c].archive

\* A read, and what it has of the budget.
LEMMA Reading ==
  ASSUME CallsOK, NEW c \in Calls, Step(c, "read")
  PROVE  /\ CallOK(call[c]) /\ call[c] \in CallType /\ call[c].at = 6 /\ At(call[c], "read")
         /\ call[c].at > 0 /\ call[c].archive \in Archives /\ Archive(c) = About[call[c].archive]
         /\ call[c].op \in {"read", "unlock"}
         /\ Archive(c).dict \in Nat /\ Archive(c).declared \in Nat /\ Archive(c).actual \in Nat
         /\ call[c].held = IF call[c].sub = "run" THEN PermitCount(Archive(c).dict + call[c].reserved) ELSE 0
         /\ call[c].full => Archive(c).dict < Budget
         /\ call[c].full /\ call[c].sub = "run" => call[c].reserved >= Budget - Archive(c).dict
         /\ call[c].reserved \in Nat
         /\ Claim(c) = Claimed(call[c]) /\ Claim(c) \in Nat
<1>1. /\ CallOK(call[c]) /\ call[c] \in CallType /\ call[c].at = 6 /\ At(call[c], "read")
      /\ call[c].archive \in Archives /\ call[c].op \in {"read", "unlock"}
  BY Whereabouts DEF Place
<1>2. Archive(c) = About[call[c].archive]
  BY DEF Archive
<1>3. /\ Archive(c).dict \in Nat /\ Archive(c).declared \in Nat /\ Archive(c).actual \in Nat
  BY <1>1, <1>2, AnArchive
<1>4. /\ call[c].held = IF call[c].sub = "run" THEN PermitCount(Archive(c).dict + call[c].reserved) ELSE 0
      /\ call[c].full => Archive(c).dict < Budget
      /\ call[c].full /\ call[c].sub = "run" => call[c].reserved >= Budget - Archive(c).dict
  BY <1>1, <1>2 DEF CallOK, WithinBudget
<1>5. Claim(c) = Claimed(call[c]) /\ Claim(c) \in Nat
  BY <1>2, <1>3, <1>4, BudgetAssumption DEF Claim, Claimed, OutputCap
<1> QED BY <1>1, <1>2, <1>3, <1>4, <1>5 DEF CallType

LEMMA AskFormatLines ==
  ASSUME CallsOK, MemoryOK, NEW c \in Calls, AskFormat(c)
  PROVE  Lines(c, "format") /\ Archive(c).format \in Formats
<1> DEFINE k == call[c]
           n == [k EXCEPT !.sub = "wait"]
<1>1. Step(c, "format") /\ k.sub = "start" /\ call' = [call EXCEPT ![c] = n]
  BY DEF AskFormat
<1>2. /\ CallOK(k) /\ k \in CallType /\ k.at > 0 /\ At(k, "format") /\ k.held = 0 /\ ~k.full
      /\ k.archive \in Archives
  BY <1>1, Whereabouts DEF Admitted
<1>3. Archive(c).format \in Formats
  BY <1>2, AnArchive DEF Archive
<1>4. k.tries = 2 => k.input = "path"
  BY <1>1, <1>2 DEF CallOK, OnItsWay
<1> HIDE DEF k
<1>5. /\ n \in CallType
      /\ n.op = k.op /\ n.archive = k.archive /\ n.at = k.at /\ n.gen = k.gen /\ n.held = 0
      /\ n.password = k.password /\ n.result = k.result /\ n.sub = "wait" /\ ~n.full
      /\ n.input = k.input /\ n.tries = k.tries
  BY <1>2 DEF CallType
<1> HIDE DEF n
<1>6. ~At(k, "read")
  BY <1>2 DEF At
<1>7. CallOK(n)
  BY <1>2, <1>4, <1>5, <1>6, StaysOK
<1>8. At(n, "format")
  BY <1>2, <1>5 DEF At, Name
<1> QED BY <1>1, <1>3, <1>5, <1>7, <1>8 DEF Lines, k

LEMMA AskMemorySettles ==
  ASSUME CallsOK, MemoryOK, NEW c \in Calls, AskMemory(c)
  PROVE  \/ Settles(c) /\ UNCHANGED memoryQueue
         \/ Lines(c, "read") /\ memoryQueue' = Append(memoryQueue, c)
<1> DEFINE k == call[c]
           dict == Archive(c).dict
           claim == Claim(c)
           need == PermitCount(claim + dict)
<1>1. Step(c, "read") /\ k.sub = "start"
  BY DEF AskMemory
<1>2. /\ CallOK(k) /\ k \in CallType /\ k.at > 0 /\ k.archive \in Archives /\ At(k, "read")
      /\ dict \in Nat /\ Archive(c).declared \in Nat /\ dict = About[k.archive].dict
      /\ k.full => dict < Budget
      /\ claim = Claimed(k) /\ claim \in Nat /\ k.held = 0
  BY <1>1, Reading
<1>3. need \in Nat
  BY <1>2 DEF PermitCount
<1>4. k.tries = 2 => k.input = "path"
  BY <1>1, <1>2 DEF CallOK, OnItsWay
<1>5. CASE claim + dict > Budget
  <2>1. Answer(c, "ResourceLimitExceeded") /\ UNCHANGED memoryQueue
    BY <1>5 DEF AskMemory
  <2>2. ~k.full
    BY <1>2, <1>5, BudgetAssumption DEF Claimed
  <2>3. About[k.archive].declared + About[k.archive].dict > Budget
    BY <1>2, <1>5, <2>2 DEF Claimed
  <2>4. TooLarge(k.archive)
    BY <1>2, <2>3, TooLargeWhen
  <2> QED BY <2>1, <2>4, AnswerSettles DEF Results
<1>6. CASE claim + dict <= Budget /\ memoryQueue = <<>> /\ need <= FreeMemory
  <2> DEFINE n == [k EXCEPT !.sub = "run", !.held = need, !.reserved = claim]
  <2>1. call' = [call EXCEPT ![c] = n] /\ UNCHANGED memoryQueue
    BY <1>2, <1>6, BudgetAssumption DEF AskMemory
  <2> HIDE DEF k, claim, dict, need
  <2>2. /\ n \in CallType
        /\ n.op = k.op /\ n.archive = k.archive /\ n.at = k.at /\ n.gen = k.gen /\ n.held = need
        /\ n.password = k.password /\ n.result = k.result /\ n.sub = "run" /\ n.full = k.full
        /\ n.reserved = claim /\ n.input = k.input /\ n.tries = k.tries
    BY <1>2, <1>3 DEF CallType
  <2> HIDE DEF n
  <2>3. need = PermitCount(About[k.archive].dict + claim)
    <3>1. claim + dict = dict + claim
      BY <1>2
    <3> QED BY <1>2, <3>1 DEF need
  <2>4. k.full => claim >= Budget - About[k.archive].dict
    BY <1>2, BudgetAssumption DEF Claimed
  <2>5. CallOK(n)
    BY <1>2, <1>4, <2>2, <2>3, <2>4, StaysOK
  <2>6. n.held <= k.held + FreeMemory
    BY <1>2, <1>3, <1>6, <2>2 DEF MemoryOK
  <2> QED BY <2>1, <2>2, <2>5, <2>6 DEF Settles, k
<1>7. CASE claim + dict <= Budget /\ ~(memoryQueue = <<>> /\ need <= FreeMemory)
  <2> DEFINE n == [k EXCEPT !.sub = "wait", !.want = need]
  <2>1. call' = [call EXCEPT ![c] = n] /\ memoryQueue' = Append(memoryQueue, c)
    BY <1>2, <1>7, BudgetAssumption DEF AskMemory
  <2> HIDE DEF k, claim, dict, need
  <2>2. /\ n \in CallType
        /\ n.op = k.op /\ n.archive = k.archive /\ n.at = k.at /\ n.gen = k.gen /\ n.held = 0
        /\ n.password = k.password /\ n.result = k.result /\ n.sub = "wait" /\ n.full = k.full
        /\ n.want = need /\ n.input = k.input /\ n.tries = k.tries
    BY <1>2, <1>3 DEF CallType
  <2> HIDE DEF n
  <2>3. Claimed(n) = claim
    BY <1>2, <2>2 DEF Claimed
  <2>4. need = PermitCount(Claimed(n) + About[k.archive].dict)
        /\ Claimed(n) + About[k.archive].dict <= Budget
    BY <1>2, <1>7, <2>3 DEF need
  <2>5. CallOK(n)
    BY <1>2, <1>4, <2>2, <2>4, StaysOK
  <2>6. At(n, "read")
    BY <1>2, <2>2 DEF At, Name
  <2> QED BY <2>1, <2>2, <2>5, <2>6 DEF Lines, k
<1> HIDE DEF need
<1>8. claim + dict > Budget \/ claim + dict <= Budget
  BY <1>2, BudgetAssumption
<1> QED BY <1>5, <1>6, <1>7, <1>8

\* A read that is decoding.
LEMMA Decoding ==
  ASSUME CallsOK, NEW c \in Calls, Working(c), Step(c, "read")
  PROVE  call[c].sub = "run"
BY DEF Working, Step

LEMMA DecodedSettles ==
  ASSUME CallsOK, MemoryOK, NEW c \in Calls, Decoded(c)
  PROVE  Settles(c)
<1>1. Step(c, "read") /\ Working(c) /\ Verdict(c) = "ok" /\ call[c].sub = "run"
  BY Decoding DEF Decoded
<1>2. CASE call[c].op = "read"
  BY <1>2, AnswerSettles DEF Decoded, Results
<1>3. CASE call[c].op # "read"
  <2> DEFINE k == call[c]
             rested == [k EXCEPT !.sub = "start", !.held = 0, !.reserved = 0, !.full = FALSE]
             n == [Onward(k) EXCEPT !.held = 0, !.reserved = 0, !.full = FALSE]
  <2>1. call' = [call EXCEPT ![c] = n]
    BY <1>3 DEF Decoded
  <2>2. /\ CallOK(k) /\ k \in CallType /\ k.at = 6 /\ k.at > 0 /\ k.op = "unlock" /\ Archive(c) = About[k.archive]
    BY <1>1, <1>3, Reading
  <2>3. About[k.archive].secret # None
    BY <2>2 DEF CallOK, Knows
  <2>4. k.password = About[k.archive].secret
    BY <1>1, <2>2, <2>3 DEF Verdict
  <2>5. k.tries = 2 => k.input = "path"
    BY <1>1, <2>2 DEF CallOK, OnItsWay
  <2> HIDE DEF k
  <2>6. /\ rested \in CallType
        /\ rested.op = k.op /\ rested.archive = k.archive /\ rested.at = k.at /\ rested.gen = k.gen
        /\ rested.held = 0 /\ rested.password = k.password /\ rested.result = k.result
        /\ rested.sub = "start" /\ ~rested.full /\ rested.input = k.input /\ rested.tries = k.tries
        /\ rested.permit = k.permit
    BY <2>2 DEF CallType
  <2>7. Onward(rested) = n
    BY <2>2 DEF Onward, CallType
  <2> HIDE DEF rested, n
  <2>8. CallOK(rested)
    BY <2>2, <2>5, <2>6, StaysOK
  <2> DEFINE pw == rested.password
             input == rested.input
             permit == rested.permit
  <2>9. Gone(rested, pw, input, permit) = n
    BY <2>2, <2>6, <2>7, GoneWith
  <2>10. pw \in Guesses \cup {None} /\ input \in {"path", "stream", "none"} /\ permit \in BOOLEAN
    BY <2>6 DEF CallType
  <2>11. Steps(rested.op) = 7 /\ rested.at = 6 /\ rested.at # 4
    BY <2>2, <2>6 DEF Steps
  <2>12. rested.op = "unlock" => pw = rested.password
    OBVIOUS
  <2>13. rested.password = About[rested.archive].secret
    BY <2>4, <2>6
  <2> HIDE DEF pw, input, permit
  <2>14. CallOK(n) /\ n.held = 0 /\ n.sub = "start"
    <3>1. rested.at > 0 /\ rested.at < Steps(rested.op)
      BY <2>11
    <3>2. /\ CallOK(Gone(rested, pw, input, permit))
          /\ Gone(rested, pw, input, permit).held = 0 /\ Gone(rested, pw, input, permit).sub = "start"
      BY <2>6, <2>8, <2>10, <2>11, <2>12, <2>13, <3>1, OnwardOK
    <3> QED BY <2>9, <3>2
  <2> QED BY <2>1, <2>14, SettlesFreely
<1> QED BY <1>2, <1>3

LEMMA TooLongSettles ==
  ASSUME CallsOK, MemoryOK, NEW c \in Calls, TooLong(c)
  PROVE  Settles(c)
<1>1. /\ Step(c, "read") /\ call[c].reserved < Archive(c).actual
      /\ call[c].reserved + 1 > Budget - Archive(c).dict
      /\ Answer(c, "ResourceLimitExceeded")
  BY DEF TooLong, MustGrow, OutputCap
<1>2. /\ call[c].archive \in Archives /\ Archive(c) = About[call[c].archive]
      /\ Archive(c).dict \in Nat /\ Archive(c).actual \in Nat /\ call[c].reserved \in Nat
  BY <1>1, Reading
<1>3. Archive(c).actual + Archive(c).dict > Budget
  BY <1>1, <1>2, BudgetAssumption
<1>4. TooLarge(call[c].archive)
  BY <1>2, <1>3, TooLargeWhen
<1> QED BY <1>1, <1>4, AnswerSettles DEF Results

\* What is left when all who wait are served is free.
LEMMA LeftoverIsFree ==
  ASSUME CallsOK, MemoryOK
  PROVE  Leftover \in Nat /\ Leftover <= FreeMemory
<1> DEFINE w == [c \in Calls |-> IF c \in Range(memoryQueue) THEN call[c].want ELSE 0]
<1>1. \A c \in DOMAIN w : w[c] \in Nat
  BY DEF CallsOK, CallOK, CallType
<1>2. IsFiniteSet(DOMAIN w)
  BY BudgetAssumption
<1> HIDE DEF w
<1>3. SumFunction(w) \in Nat
  BY <1>1, <1>2, SumIsNat
<1>4. Wanted \in Nat
  BY <1>3 DEF Wanted, w
<1> QED BY <1>4 DEF Leftover, MemoryOK

LEMMA GrowSettles ==
  ASSUME CallsOK, MemoryOK, NEW c \in Calls, Grow(c)
  PROVE  Settles(c)
<1> DEFINE k == call[c]
           more == k.reserved + 1
           held == k.held + Increment(c)
           n == [k EXCEPT !.reserved = more, !.held = held]
<1>1. /\ Step(c, "read") /\ k.sub = "run" /\ Increment(c) <= Leftover
      /\ call' = [call EXCEPT ![c] = n]
  BY Decoding DEF Grow, MustGrow
<1>2. /\ CallOK(k) /\ k \in CallType /\ k.at > 0 /\ At(k, "read") /\ Archive(c) = About[k.archive]
      /\ Archive(c).dict \in Nat /\ k.reserved \in Nat
      /\ k.held = PermitCount(Archive(c).dict + k.reserved)
      /\ k.full => Archive(c).dict < Budget /\ k.reserved >= Budget - Archive(c).dict
  BY <1>1, Reading
<1>3. k.tries = 2 => k.input = "path"
  BY <1>1, <1>2 DEF CallOK, OnItsWay
<1>4. /\ held = PermitCount(Archive(c).dict + more) /\ held \in Nat /\ k.held \in Nat
      /\ Increment(c) \in Int
  BY <1>2 DEF Increment, PermitCount
<1>5. more \in Nat /\ (k.full => more >= Budget - Archive(c).dict)
  BY <1>2, BudgetAssumption
<1>6. held <= k.held + FreeMemory
  BY <1>1, <1>4, LeftoverIsFree DEF MemoryOK
<1> HIDE DEF k, more, held
<1>7. /\ n \in CallType
      /\ n.op = k.op /\ n.archive = k.archive /\ n.at = k.at /\ n.gen = k.gen /\ n.held = held
      /\ n.password = k.password /\ n.result = k.result /\ n.sub = k.sub /\ n.full = k.full
      /\ n.reserved = more /\ n.input = k.input /\ n.tries = k.tries
  BY <1>2, <1>4, <1>5 DEF CallType
<1> HIDE DEF n
<1>8. CallOK(n)
  BY <1>1, <1>2, <1>3, <1>4, <1>5, <1>7, StaysOK
<1> QED BY <1>1, <1>6, <1>7, <1>8 DEF Settles, k

\* The second attempt never runs out of memory again: it has claimed all that
\* there is.
LEMMA GrowFailsSettles ==
  ASSUME CallsOK, MemoryOK, NEW c \in Calls, GrowFails(c)
  PROVE  Settles(c)
<1> DEFINE k == call[c]
           n == [k EXCEPT !.full = TRUE, !.sub = "start", !.held = 0, !.reserved = 0]
<1>1. /\ Step(c, "read") /\ k.sub = "run" /\ k.reserved + 1 <= Budget - Archive(c).dict
  BY Decoding DEF GrowFails, MustGrow, OutputCap
<1>2. /\ CallOK(k) /\ k \in CallType /\ k.at > 0 /\ At(k, "read") /\ Archive(c) = About[k.archive]
      /\ Archive(c).dict \in Nat /\ k.reserved \in Nat
      /\ k.full => k.reserved >= Budget - Archive(c).dict
  BY <1>1, Reading
<1>3. ~k.full /\ Archive(c).dict < Budget
  BY <1>1, <1>2, BudgetAssumption
<1>4. call' = [call EXCEPT ![c] = n]
  BY <1>3 DEF GrowFails
<1>5. k.tries = 2 => k.input = "path"
  BY <1>1, <1>2 DEF CallOK, OnItsWay
<1> HIDE DEF k
<1>6. /\ n \in CallType
      /\ n.op = k.op /\ n.archive = k.archive /\ n.at = k.at /\ n.gen = k.gen /\ n.held = 0
      /\ n.password = k.password /\ n.result = k.result /\ n.sub = "start"
      /\ n.input = k.input /\ n.tries = k.tries
  BY <1>2 DEF CallType
<1> HIDE DEF n
<1>7. CallOK(n)
  BY <1>2, <1>3, <1>5, <1>6, StaysOK
<1> QED BY <1>4, <1>6, <1>7, SettlesFreely

-----------------------------------------------------------------------------
(***************************************************************************)
(* The queues of the semaphores.                                           *)
(***************************************************************************)

WaitsForFormat(c, f) == Step(c, "format") /\ call[c].sub = "wait" /\ Archive(c).format = f
WaitsForMemory(c) == Step(c, "read") /\ call[c].sub = "wait"

QueuesOK ==
  /\ formatQueue \in [Formats -> Seq(Calls)] /\ memoryQueue \in Seq(Calls)
  /\ \A f \in Formats : /\ IsInjective(formatQueue[f])
                        /\ \A c \in Calls : c \in Range(formatQueue[f]) <=> WaitsForFormat(c, f)
  /\ IsInjective(memoryQueue)
  /\ \A c \in Calls : c \in Range(memoryQueue) <=> WaitsForMemory(c)

\* One more in a queue.
LEMMA Enqueued ==
  ASSUME NEW S, NEW q \in Seq(S), IsInjective(q), NEW c \in S, c \notin Range(q)
  PROVE  /\ Append(q, c) \in Seq(S) /\ IsInjective(Append(q, c))
         /\ Range(Append(q, c)) = Range(q) \cup {c}
<1> DEFINE a == Append(q, c)
<1>1. /\ a \in Seq(S) /\ Len(a) = Len(q) + 1 /\ DOMAIN a = 1 .. Len(q) + 1 /\ DOMAIN q = 1 .. Len(q)
      /\ Len(q) \in Nat
      /\ \A i \in 1 .. Len(q) : a[i] = q[i]
      /\ a[Len(q) + 1] = c
  BY AppendProperties
<1> HIDE DEF a
<1>2. \A i \in DOMAIN q : q[i] # c
  BY DEF Range
<1>3. IsInjective(a)
  BY <1>1, <1>2 DEF IsInjective
<1>4. Range(a) = Range(q) \cup {c}
  <2>1. ASSUME NEW x \in Range(a) PROVE x \in Range(q) \cup {c}
    BY <1>1, <2>1 DEF Range
  <2>2. ASSUME NEW x \in Range(q) PROVE x \in Range(a)
    <3>1. PICK i \in 1 .. Len(q) : q[i] = x
      BY <1>1 DEF Range
    <3>2. i \in DOMAIN a /\ a[i] = x
      BY <1>1, <3>1
    <3> QED BY <3>2 DEF Range
  <2>3. c \in Range(a)
    <3>1. Len(q) + 1 \in DOMAIN a
      BY <1>1
    <3> QED BY <1>1, <3>1 DEF Range
  <2> QED BY <2>1, <2>2, <2>3
<1> QED BY <1>1, <1>3, <1>4 DEF a

\* The first of a queue leaves it.
LEMMA Dequeued ==
  ASSUME NEW S, NEW q \in Seq(S), q # <<>>, IsInjective(q)
  PROVE  /\ Tail(q) \in Seq(S) /\ IsInjective(Tail(q))
         /\ Head(q) \in S /\ Head(q) \in Range(q)
         /\ Range(Tail(q)) = Range(q) \ {Head(q)}
<1> DEFINE t == Tail(q)
<1>1. /\ t \in Seq(S) /\ Len(q) \in Nat \ {0} /\ DOMAIN q = 1 .. Len(q) /\ DOMAIN t = 1 .. Len(q) - 1
      /\ \A i \in 1 .. Len(q) - 1 : t[i] = q[i + 1]
      /\ Head(q) = q[1] /\ q[1] \in S
  BY HeadTailProperties, ElementOfSeq, LenProperties
<1> HIDE DEF t
<1>2. ASSUME NEW i \in DOMAIN t, NEW j \in DOMAIN t, t[i] = t[j] PROVE i = j
  <2>1. /\ i + 1 \in DOMAIN q /\ j + 1 \in DOMAIN q /\ q[i + 1] = q[j + 1]
        /\ i \in Int /\ j \in Int
    BY <1>1, <1>2
  <2>2. i + 1 = j + 1
    BY <2>1 DEF IsInjective
  <2> QED BY <2>1, <2>2
<1>3. Range(t) = Range(q) \ {Head(q)}
  <2>1. ASSUME NEW x \in Range(t) PROVE x \in Range(q) /\ x # q[1]
    <3>1. PICK i \in 1 .. Len(q) - 1 : q[i + 1] = x
      BY <1>1 DEF Range
    <3>2. i + 1 \in DOMAIN q /\ i + 1 # 1 /\ 1 \in DOMAIN q
      BY <1>1
    <3> QED BY <3>1, <3>2 DEF Range, IsInjective
  <2>2. ASSUME NEW x \in Range(q), x # q[1] PROVE x \in Range(t)
    <3>1. PICK i \in 1 .. Len(q) : q[i] = x
      BY <1>1 DEF Range
    <3>2. i # 1
      BY <2>2, <3>1
    <3>3. i - 1 \in 1 .. Len(q) - 1 /\ (i - 1) + 1 = i
      BY <1>1, <3>2
    <3>4. t[i - 1] = x
      BY <1>1, <3>1, <3>3
    <3> QED BY <1>1, <3>3, <3>4 DEF Range
  <2> QED BY <1>1, <2>1, <2>2
<1>4. Head(q) \in Range(q)
  <2>1. 1 \in DOMAIN q
    BY <1>1
  <2> QED BY <1>1, <2>1 DEF Range
<1> QED BY <1>1, <1>2, <1>3, <1>4 DEF t, IsInjective

\* The call changes, the others do not.
LEMMA OnlyOne ==
  ASSUME CallsOK, NEW c \in Calls, NEW k, call' = [call EXCEPT ![c] = k]
  PROVE  /\ call' = [d \in Calls |-> call'[d]] /\ call'[c] = k
         /\ \A d \in Calls \ {c} : call'[d] = call[d]
BY DEF CallsOK

\* Who is where is read off its record.
LEMMA StepIsAt == \A c, s : Step(c, s) <=> At(call[c], s)
BY DEF Step, At, Name, Admitted

\* Nobody begins or ends to wait.
LEMMA QueuesQuiet ==
  ASSUME CallsOK, QueuesOK, NEW c \in Calls, call[c].sub # "wait",
         NEW k, call' = [call EXCEPT ![c] = k], k.sub # "wait", UNCHANGED <<formatQueue, memoryQueue>>
  PROVE  QueuesOK'
<1>1. /\ call'[c] = k /\ \A d \in Calls \ {c} : call'[d] = call[d]
  BY OnlyOne
<1>2. ASSUME NEW d \in Calls
      PROVE  /\ WaitsForMemory(d)' <=> WaitsForMemory(d)
             /\ \A f \in Formats : WaitsForFormat(d, f)' <=> WaitsForFormat(d, f)
  <2>1. CASE d = c
    BY <1>1, <2>1 DEF WaitsForMemory, WaitsForFormat
  <2>2. CASE d # c
    BY <1>1, <2>2 DEF WaitsForMemory, WaitsForFormat, Step, Admitted, Archive
  <2> QED BY <2>1, <2>2
<1> QED BY <1>2 DEF QueuesOK

\* One more waits for memory, last in its queue.
LEMMA QueuesMemory ==
  ASSUME CallsOK, QueuesOK, NEW c \in Calls, call[c].sub # "wait", Lines(c, "read"),
         memoryQueue' = Append(memoryQueue, c), UNCHANGED formatQueue
  PROVE  QueuesOK'
<1>1. PICK k : /\ call' = [call EXCEPT ![c] = k]
               /\ CallOK(k) /\ k.sub = "wait" /\ At(k, "read")
  BY DEF Lines
<1>2. /\ call'[c] = k /\ \A d \in Calls \ {c} : call'[d] = call[d]
  BY <1>1, OnlyOne
<1>3. ASSUME NEW d \in Calls
      PROVE  /\ WaitsForMemory(d)' <=> (WaitsForMemory(d) \/ d = c)
             /\ \A f \in Formats : WaitsForFormat(d, f)' <=> WaitsForFormat(d, f)
  <2>1. CASE d = c
    BY <1>1, <1>2, <2>1 DEF WaitsForMemory, WaitsForFormat, Step, Admitted, At, Name
  <2>2. CASE d # c
    BY <1>2, <2>2 DEF WaitsForMemory, WaitsForFormat, Step, Admitted, Archive
  <2> QED BY <2>1, <2>2
<1>4. c \notin Range(memoryQueue)
  BY DEF QueuesOK, WaitsForMemory
<1>5. /\ memoryQueue' \in Seq(Calls) /\ IsInjective(memoryQueue')
      /\ Range(memoryQueue') = Range(memoryQueue) \cup {c}
  BY <1>4, Enqueued DEF QueuesOK
<1> QED BY <1>3, <1>5 DEF QueuesOK

LEMMA QueuesFormat ==
  ASSUME CallsOK, QueuesOK, NEW c \in Calls, call[c].sub # "wait", Lines(c, "format"),
         Archive(c).format \in Formats,
         formatQueue' = [formatQueue EXCEPT ![Archive(c).format] = Append(@, c)], UNCHANGED memoryQueue
  PROVE  QueuesOK'
<1> DEFINE g == Archive(c).format
<1>1. PICK k : /\ call' = [call EXCEPT ![c] = k] /\ k.archive = call[c].archive
               /\ CallOK(k) /\ k.sub = "wait" /\ At(k, "format")
  BY DEF Lines
<1>2. /\ call'[c] = k /\ \A d \in Calls \ {c} : call'[d] = call[d]
  BY <1>1, OnlyOne
<1>3. ASSUME NEW d \in Calls
      PROVE  /\ WaitsForMemory(d)' <=> WaitsForMemory(d)
             /\ \A f \in Formats : WaitsForFormat(d, f)' <=> (WaitsForFormat(d, f) \/ (d = c /\ f = g))
  <2>1. CASE d = c
    BY <1>1, <1>2, <2>1 DEF WaitsForMemory, WaitsForFormat, Step, Admitted, At, Name, Archive
  <2>2. CASE d # c
    BY <1>2, <2>2 DEF WaitsForMemory, WaitsForFormat, Step, Admitted, Archive
  <2> QED BY <2>1, <2>2
<1>4. \A f \in Formats : c \notin Range(formatQueue[f])
  BY DEF QueuesOK, WaitsForFormat
<1>5. formatQueue' \in [Formats -> Seq(Calls)] /\ formatQueue'[g] = Append(formatQueue[g], c)
      /\ \A f \in Formats \ {g} : formatQueue'[f] = formatQueue[f]
  BY <1>4, Enqueued DEF QueuesOK
<1>6. /\ IsInjective(formatQueue'[g])
      /\ Range(formatQueue'[g]) = Range(formatQueue[g]) \cup {c}
  BY <1>4, <1>5, Enqueued DEF QueuesOK
<1> HIDE DEF g
<1>7. \A f \in Formats : /\ IsInjective(formatQueue'[f])
                         /\ \A d \in Calls : d \in Range(formatQueue'[f]) <=> WaitsForFormat(d, f)'
  <2>1. ASSUME NEW f \in Formats
        PROVE  /\ IsInjective(formatQueue'[f])
               /\ \A d \in Calls : d \in Range(formatQueue'[f]) <=> WaitsForFormat(d, f)'
    <3>1. CASE f = g
      BY <1>3, <1>6, <3>1 DEF QueuesOK
    <3>2. CASE f # g
      BY <1>3, <1>5, <3>2 DEF QueuesOK
    <3> QED BY <3>1, <3>2
  <2> QED BY <2>1
<1> QED BY <1>3, <1>5, <1>7 DEF QueuesOK

\* The first in the queue of a format gets its permit.
LEMMA GrantFormatStep ==
  ASSUME CallsOK, MemoryOK, QueuesOK, NEW f \in Formats, GrantFormat(f)
  PROVE  QueuesOK' /\ \E c \in Calls : Settles(c)
<1> DEFINE c == Head(formatQueue[f])
           k == call[c]
           n == [Onward(k) EXCEPT !.permit = TRUE]
<1>1. /\ formatQueue[f] # <<>> /\ call' = [call EXCEPT ![c] = n]
      /\ formatQueue' = [formatQueue EXCEPT ![f] = Tail(@)] /\ UNCHANGED memoryQueue
  BY DEF GrantFormat
<1>2. /\ Tail(formatQueue[f]) \in Seq(Calls) /\ IsInjective(Tail(formatQueue[f]))
      /\ c \in Calls /\ c \in Range(formatQueue[f])
      /\ Range(Tail(formatQueue[f])) = Range(formatQueue[f]) \ {c}
  BY <1>1, Dequeued DEF QueuesOK
<1>3. Step(c, "format") /\ k.sub = "wait" /\ Archive(c).format = f
  BY <1>2 DEF QueuesOK, WaitsForFormat
<1> HIDE DEF c
<1>4. /\ Admitted(c) /\ k \in CallType /\ k.at < Steps(k.op) /\ k.at + 1 \in 0 .. 7
      /\ k.held = 0 /\ ~k.full /\ (k.op = "unlock" => k.at = 2)
  BY <1>2, <1>3, Whereabouts DEF Place, Steps
<1> DEFINE pw == k.password
           input == k.input
<1>5. call' = [call EXCEPT ![c] = Gone(k, pw, input, TRUE)]
  <2>1. Gone(k, pw, input, TRUE) = n
    BY <1>4, GoneWith
  <2> QED BY <1>1, <2>1, Zenon
<1>6. /\ pw \in Guesses \cup {None} /\ input \in {"path", "stream", "none"} /\ pw = k.password
      /\ TRUE \in BOOLEAN
  BY <1>4 DEF CallType
<1> HIDE DEF pw, input
<1>7. k.op = "unlock" => k.at # 4 /\ k.at # 6
  BY <1>4
<1>8. Settles(c)
  BY <1>2, <1>4, <1>5, <1>6, <1>7, OnwardSettles DEF k
<1>9. QueuesOK'
  <2>1. PICK m : call' = [call EXCEPT ![c] = m] /\ m.sub # "wait"
    BY <1>8 DEF Settles
  <2>2. call'[c] = m /\ \A d \in Calls \ {c} : call'[d] = call[d]
    BY <1>2, <2>1, OnlyOne
  <2>3. ASSUME NEW d \in Calls
        PROVE  /\ WaitsForMemory(d)' <=> WaitsForMemory(d)
               /\ \A h \in Formats : WaitsForFormat(d, h)' <=> (WaitsForFormat(d, h) /\ ~(d = c /\ h = f))
    <3>1. CASE d = c
      BY <1>3, <2>1, <2>2, <3>1 DEF WaitsForMemory, WaitsForFormat, Step
    <3>2. CASE d # c
      BY <2>2, <3>2 DEF WaitsForMemory, WaitsForFormat, Step, Admitted, Archive
    <3> QED BY <3>1, <3>2
  <2>4. /\ formatQueue' \in [Formats -> Seq(Calls)] /\ formatQueue'[f] = Tail(formatQueue[f])
        /\ \A h \in Formats \ {f} : formatQueue'[h] = formatQueue[h]
    BY <1>1, <1>2 DEF QueuesOK
  <2>5. ASSUME NEW h \in Formats
        PROVE  /\ IsInjective(formatQueue'[h])
               /\ \A d \in Calls : d \in Range(formatQueue'[h]) <=> WaitsForFormat(d, h)'
    <3>1. CASE h = f
      BY <1>2, <2>3, <2>4, <3>1 DEF QueuesOK
    <3>2. CASE h # f
      BY <2>3, <2>4, <3>2 DEF QueuesOK
    <3> QED BY <3>1, <3>2
  <2> QED BY <1>1, <2>3, <2>4, <2>5 DEF QueuesOK
<1> QED BY <1>2, <1>8, <1>9

\* The first in the queue of the memory gets what it wants.
LEMMA GrantMemoryStep ==
  ASSUME CallsOK, MemoryOK, QueuesOK, GrantMemory
  PROVE  QueuesOK' /\ \E c \in Calls : Settles(c)
<1> DEFINE c == Head(memoryQueue)
           k == call[c]
           claim == Claim(c)
           n == [k EXCEPT !.sub = "run", !.held = k.want, !.want = 0, !.reserved = claim]
<1>1. /\ memoryQueue # <<>> /\ call' = [call EXCEPT ![c] = n] /\ k.want <= FreeMemory
      /\ memoryQueue' = Tail(memoryQueue) /\ UNCHANGED formatQueue
  BY DEF GrantMemory
<1>2. /\ Tail(memoryQueue) \in Seq(Calls) /\ IsInjective(Tail(memoryQueue))
      /\ c \in Calls /\ c \in Range(memoryQueue)
      /\ Range(Tail(memoryQueue)) = Range(memoryQueue) \ {c}
  BY <1>1, Dequeued DEF QueuesOK
<1>3. Step(c, "read") /\ k.sub = "wait"
  BY <1>2 DEF QueuesOK, WaitsForMemory
<1> HIDE DEF c
<1>4. /\ CallOK(k) /\ k \in CallType /\ k.at > 0 /\ At(k, "read")
      /\ Archive(c).dict \in Nat /\ Archive(c) = About[k.archive]
      /\ k.full => Archive(c).dict < Budget
      /\ claim = Claimed(k) /\ claim \in Nat /\ k.held = 0
  BY <1>2, <1>3, Reading
<1>5. k.want = PermitCount(claim + Archive(c).dict) /\ k.want \in Nat
  BY <1>3, <1>4 DEF CallOK, WithinBudget, CallType
<1>6. k.tries = 2 => k.input = "path"
  BY <1>3, <1>4 DEF CallOK, OnItsWay
<1> HIDE DEF claim, k
<1>7. /\ n \in CallType
      /\ n.op = k.op /\ n.archive = k.archive /\ n.at = k.at /\ n.gen = k.gen /\ n.held = k.want
      /\ n.password = k.password /\ n.result = k.result /\ n.sub = "run" /\ n.full = k.full
      /\ n.reserved = claim /\ n.input = k.input /\ n.tries = k.tries
  BY <1>4, <1>5 DEF CallType
<1> HIDE DEF n
<1>8. k.want = PermitCount(About[k.archive].dict + claim)
  <2>1. claim + Archive(c).dict = About[k.archive].dict + claim
    BY <1>4
  <2> QED BY <1>5, <2>1
<1>9. k.full => claim >= Budget - About[k.archive].dict
  BY <1>4, BudgetAssumption DEF Claimed
<1>10. CallOK(n)
  BY <1>4, <1>6, <1>7, <1>8, <1>9, StaysOK
<1>11. n.held <= k.held + FreeMemory
  BY <1>1, <1>4, <1>5, <1>7 DEF MemoryOK
<1>12. Settles(c)
  BY <1>1, <1>7, <1>10, <1>11 DEF Settles, k
<1>13. QueuesOK'
  <2>1. call'[c] = n /\ \A d \in Calls \ {c} : call'[d] = call[d]
    BY <1>1, <1>2, OnlyOne
  <2>2. ASSUME NEW d \in Calls
        PROVE  /\ WaitsForMemory(d)' <=> (WaitsForMemory(d) /\ d # c)
               /\ \A h \in Formats : WaitsForFormat(d, h)' <=> WaitsForFormat(d, h)
    <3>1. CASE d = c
      <4>1. \A h \in Formats : ~WaitsForFormat(d, h) /\ ~WaitsForFormat(d, h)'
        <5>1. ~Step(c, "format")
          BY <1>3 DEF Step
        <5> QED BY <1>7, <2>1, <3>1, <5>1 DEF WaitsForFormat
      <4> QED BY <1>7, <2>1, <3>1, <4>1 DEF WaitsForMemory
    <3>2. CASE d # c
      BY <2>1, <3>2 DEF WaitsForMemory, WaitsForFormat, Step, Admitted, Archive
    <3> QED BY <3>1, <3>2
  <2> QED BY <1>1, <1>2, <2>2 DEF QueuesOK
<1> QED BY <1>2, <1>12, <1>13

-----------------------------------------------------------------------------
(***************************************************************************)
(* The catalog LRU and the store of passwords.                             *)
(***************************************************************************)

Item == [archive : Archives, probe : BOOLEAN, catalog : BOOLEAN, gen : 0 .. MaxClears]

\* A sequence of items with one per archive, none older than the last clear.
ItemsOK(s) ==
  /\ s \in Seq(Item)
  /\ \A i, j \in DOMAIN s : s[i].archive = s[j].archive => i = j
  /\ \A i \in DOMAIN s : s[i].gen >= cleared

LruOK == ItemsOK(lru) /\ Len(lru) <= LruCapacity

\* One item leaves.
LEMMA RemovedItem ==
  ASSUME NEW s, ItemsOK(s), NEW p \in DOMAIN s
  PROVE  /\ ItemsOK(RemoveAt(s, p)) /\ Len(RemoveAt(s, p)) = Len(s) - 1
         /\ \A i \in DOMAIN RemoveAt(s, p) : RemoveAt(s, p)[i].archive # s[p].archive
<1>1. s \in Seq(Item) /\ Len(s) \in Nat /\ DOMAIN s = 1 .. Len(s) /\ p \in 1 .. Len(s)
      /\ \A i \in 1 .. Len(s) : s[i] \in Item
  BY ElementOfSeq DEF ItemsOK
<1> DEFINE t == RemoveAt(s, p)
           from(i) == IF i < p THEN i ELSE i + 1
<1>2. /\ t \in Seq(Item) /\ Len(t) = Len(s) - 1 /\ DOMAIN t = 1 .. Len(s) - 1
      /\ \A i \in 1 .. Len(s) - 1 : t[i] = s[from(i)]
  <2>1. /\ SubSeq(s, 1, p - 1) \in Seq(Item) /\ Len(SubSeq(s, 1, p - 1)) = p - 1
        /\ \A i \in 1 .. p - 1 : SubSeq(s, 1, p - 1)[i] = s[i]
    BY <1>1
  <2>2. /\ SubSeq(s, p + 1, Len(s)) \in Seq(Item) /\ Len(SubSeq(s, p + 1, Len(s))) = Len(s) - p
        /\ \A i \in 1 .. Len(s) - p : SubSeq(s, p + 1, Len(s))[i] = s[i + p]
    <3> DEFINE first == p + 1
               last == Len(s)
    <3>1. /\ first \in 1 .. Len(s) + 1 /\ last \in first - 1 .. Len(s)
          /\ (first <= last => first \in 1 .. Len(s))
          /\ last - first + 1 = Len(s) - p
          /\ \A i \in 1 .. Len(s) - p : first + i - 1 = i + p
      BY <1>1
    <3>2. /\ SubSeq(s, first, last) \in Seq(Item)
          /\ Len(SubSeq(s, first, last)) = last - first + 1
          /\ \A i \in 1 .. last - first + 1 : SubSeq(s, first, last)[i] = s[first + i - 1]
      BY <1>1, <3>1, SubSeqProperties, SMTT(30)
    <3> QED BY <3>1, <3>2
  <2>3. /\ t \in Seq(Item) /\ Len(t) = Len(s) - 1
        /\ \A i \in 1 .. Len(s) - 1 :
             t[i] = IF i <= p - 1 THEN SubSeq(s, 1, p - 1)[i]
                    ELSE SubSeq(s, p + 1, Len(s))[i - (p - 1)]
    <3> DEFINE u == SubSeq(s, 1, p - 1)
               v == SubSeq(s, p + 1, Len(s))
    <3>1. t = u \o v
      BY DEF RemoveAt
    <3>2. u \in Seq(Item) /\ v \in Seq(Item) /\ Len(u) = p - 1 /\ Len(v) = Len(s) - p
      BY <2>1, <2>2
    <3> HIDE DEF u, v, t
    <3>3. /\ u \o v \in Seq(Item) /\ Len(u \o v) = Len(u) + Len(v)
          /\ \A i \in 1 .. Len(u) + Len(v) : (u \o v)[i] = IF i <= Len(u) THEN u[i] ELSE v[i - Len(u)]
      BY <3>2, ConcatProperties
    <3>4. Len(u) + Len(v) = Len(s) - 1
      BY <1>1, <3>2
    <3>5. /\ t \in Seq(Item) /\ Len(t) = Len(s) - 1
          /\ \A i \in 1 .. Len(s) - 1 : t[i] = IF i <= p - 1 THEN u[i] ELSE v[i - (p - 1)]
      BY <3>1, <3>2, <3>3, <3>4
    <3> QED BY <3>5 DEF u, v
  <2>4. ASSUME NEW i \in 1 .. Len(s) - 1 PROVE t[i] = s[from(i)]
    <3>1. CASE i < p
      <4>1. i \in 1 .. p - 1
        BY <1>1, <3>1
      <4> QED BY <2>1, <2>3, <3>1, <4>1
    <3>2. CASE ~(i < p)
      <4>1. ~(i <= p - 1) /\ i - (p - 1) \in 1 .. Len(s) - p /\ (i - (p - 1)) + p = i + 1
        BY <1>1, <3>2
      <4> QED BY <2>2, <2>3, <3>2, <4>1
    <3> QED BY <3>1, <3>2
  <2>5. DOMAIN t = 1 .. Len(s) - 1
    BY <2>3, LenProperties
  <2> QED BY <2>3, <2>4, <2>5
<1>3. \A i \in 1 .. Len(s) - 1 : from(i) \in 1 .. Len(s) /\ from(i) # p
  BY <1>1
<1>4. \A i, j \in 1 .. Len(s) - 1 : from(i) = from(j) => i = j
  BY <1>1
<1> HIDE DEF t, from
<1>5. ItemsOK(t)
  <2>1. ASSUME NEW i \in DOMAIN t, NEW j \in DOMAIN t, t[i].archive = t[j].archive PROVE i = j
    <3>1. i \in 1 .. Len(s) - 1 /\ j \in 1 .. Len(s) - 1
      BY <1>2
    <3>2. from(i) \in DOMAIN s /\ from(j) \in DOMAIN s /\ s[from(i)].archive = s[from(j)].archive
      BY <1>1, <1>2, <1>3, <2>1, <3>1
    <3>3. from(i) = from(j)
      BY <3>2 DEF ItemsOK
    <3> QED BY <1>4, <3>1, <3>3
  <2>2. ASSUME NEW i \in DOMAIN t PROVE t[i].gen >= cleared
    <3>1. t[i] = s[from(i)] /\ from(i) \in DOMAIN s
      BY <1>1, <1>2, <1>3
    <3> QED BY <3>1 DEF ItemsOK
  <2> QED BY <1>2, <2>1, <2>2 DEF ItemsOK
<1>6. \A i \in DOMAIN t : t[i].archive # s[p].archive
  BY <1>1, <1>2, <1>3 DEF ItemsOK
<1> QED BY <1>2, <1>5, <1>6 DEF t

\* One item of an archive that has none yet comes last.
LEMMA AppendedItem ==
  ASSUME NEW s, ItemsOK(s), NEW e \in Item, e.gen >= cleared,
         \A i \in DOMAIN s : s[i].archive # e.archive
  PROVE  ItemsOK(Append(s, e)) /\ Len(Append(s, e)) = Len(s) + 1
<1> DEFINE a == Append(s, e)
<1>1. /\ a \in Seq(Item) /\ Len(a) = Len(s) + 1 /\ DOMAIN a = 1 .. Len(s) + 1 /\ DOMAIN s = 1 .. Len(s)
      /\ Len(s) \in Nat
      /\ \A i \in 1 .. Len(s) : a[i] = s[i]
      /\ a[Len(s) + 1] = e
  BY AppendProperties DEF ItemsOK
<1> HIDE DEF a
<1>2. ItemsOK(a)
  BY <1>1 DEF ItemsOK
<1> QED BY <1>1, <1>2 DEF a

LEMMA ForgottenOK ==
  ASSUME LruOK, NEW a
  PROVE  /\ ItemsOK(Forgotten(a)) /\ Len(Forgotten(a)) <= Len(lru)
         /\ \A i \in DOMAIN Forgotten(a) : Forgotten(a)[i].archive # a
         /\ IndexOf(a) # {} => /\ Len(Forgotten(a)) = Len(lru) - 1
                               /\ lru[Position(a)] \in Item /\ lru[Position(a)].archive = a
                               /\ lru[Position(a)].gen >= cleared
<1>1. CASE IndexOf(a) = {}
  BY <1>1 DEF Forgotten, LruOK, IndexOf, ItemsOK
<1>2. CASE IndexOf(a) # {}
  <2>1. Position(a) \in IndexOf(a)
    BY <1>2 DEF Position
  <2>2. Position(a) \in DOMAIN lru /\ lru[Position(a)].archive = a
    BY <2>1 DEF IndexOf
  <2>3. lru[Position(a)] \in Item /\ lru[Position(a)].gen >= cleared /\ Len(lru) \in Nat
    BY <2>2, ElementOfSeq DEF LruOK, ItemsOK
  <2>4. Forgotten(a) = RemoveAt(lru, Position(a))
    BY <1>2 DEF Forgotten
  <2> QED BY <2>2, <2>3, <2>4, RemovedItem DEF LruOK
<1> QED BY <1>1, <1>2

LEMMA RefreshedOK ==
  ASSUME LruOK, NEW a
  PROVE  ItemsOK(Refreshed(a)) /\ Len(Refreshed(a)) <= LruCapacity
<1>1. CASE IndexOf(a) = {}
  BY <1>1 DEF Refreshed, LruOK
<1>2. CASE IndexOf(a) # {}
  <2>1. Refreshed(a) = Append(Forgotten(a), lru[Position(a)])
    BY <1>2 DEF Refreshed
  <2>2. Len(Refreshed(a)) = (Len(lru) - 1) + 1 /\ ItemsOK(Refreshed(a)) /\ Len(lru) \in Nat
    BY <1>2, <2>1, ForgottenOK, AppendedItem DEF LruOK, ItemsOK
  <2> QED BY <2>2 DEF LruOK
<1> QED BY <1>1, <1>2

\* What is stored is no older than the call that stores it.
LEMMA StoredOK ==
  ASSUME LruOK, NEW a \in Archives, NEW what \in {"probe", "catalog"},
         NEW gen \in 0 .. MaxClears, gen >= cleared
  PROVE  ItemsOK(Stored(a, what, gen)) /\ Len(Stored(a, what, gen)) <= LruCapacity
<1> DEFINE item == IF IndexOf(a) = {} THEN [archive |-> a, probe |-> FALSE, catalog |-> FALSE, gen |-> gen]
                   ELSE lru[Position(a)]
           e == [item EXCEPT ![what] = TRUE, !.gen = gen]
           all == Append(Forgotten(a), e)
<1>1. item \in Item /\ item.archive = a
  BY ForgottenOK DEF Item
<1>2. e \in Item /\ e.archive = a /\ e.gen = gen
  <2>1. CASE what = "probe"
    BY <1>1, <2>1 DEF Item
  <2>2. CASE what = "catalog"
    BY <1>1, <2>2 DEF Item
  <2> QED BY <2>1, <2>2
<1> HIDE DEF e
<1>3. ItemsOK(all) /\ Len(all) = Len(Forgotten(a)) + 1
  BY <1>2, ForgottenOK, AppendedItem
<1>4. Len(Forgotten(a)) \in Nat /\ Len(lru) \in Nat /\ Len(Forgotten(a)) <= Len(lru) /\ Len(lru) <= LruCapacity
  BY ForgottenOK DEF LruOK, ItemsOK
<1>5. Stored(a, what, gen) = IF Len(all) > LruCapacity THEN Tail(all) ELSE all
  BY DEF Stored, e
<1> HIDE DEF all
<1>6. CASE Len(all) > LruCapacity
  <2>1. all \in Seq(Item) /\ all # <<>>
    BY <1>3, <1>4, EmptySeq DEF ItemsOK
  <2>2. /\ Tail(all) \in Seq(Item) /\ Len(Tail(all)) = Len(all) - 1 /\ DOMAIN Tail(all) = 1 .. Len(all) - 1
        /\ DOMAIN all = 1 .. Len(all) /\ Len(all) \in Nat
        /\ \A i \in 1 .. Len(all) - 1 : Tail(all)[i] = all[i + 1]
    BY <2>1, HeadTailProperties, LenProperties
  <2>3. ItemsOK(Tail(all))
    BY <1>3, <2>2 DEF ItemsOK
  <2> QED BY <1>3, <1>4, <1>5, <1>6, <2>2, <2>3, BudgetAssumption
<1>7. CASE ~(Len(all) > LruCapacity)
  BY <1>3, <1>4, <1>5, <1>7, BudgetAssumption
<1> QED BY <1>6, <1>7

-----------------------------------------------------------------------------
(***************************************************************************)
(* The inductive invariant.                                                *)
(***************************************************************************)

PasswordsOK == passwords \in [Archives -> Guesses \cup {None}] /\ PasswordsVerified
CountersOK == clearing \in BOOLEAN /\ generation \in 0 .. MaxClears /\ cleared \in 0 .. generation

Inv == CallsOK /\ MemoryOK /\ QueuesOK /\ LruOK /\ PasswordsOK /\ CountersOK

LEMMA InitInv == Init => Inv
<1> SUFFICES ASSUME Init PROVE Inv
  OBVIOUS
<1>1. CallsOK
  BY IdleOK DEF Init, CallsOK
<1>2. MemoryOK
  <2> DEFINE h == [c \in Calls |-> call[c].held]
  <2>1. DOMAIN h = Calls /\ \A c \in DOMAIN h : h[c] = 0
    BY IdleOK DEF Init
  <2> HIDE DEF h
  <2>2. SumFunction(h) = 0
    BY <2>1, BudgetAssumption, SumOfZeros
  <2> QED BY <2>2, BudgetAssumption DEF MemoryOK, FreeMemory, h
<1>3. QueuesOK
  <2>1. \A c \in Calls : call[c].sub = "start"
    BY IdleOK DEF Init
  <2>2. Range(<<>>) = {} /\ IsInjective(<<>>)
    BY DEF Range, IsInjective
  <2> QED BY <2>1, <2>2 DEF Init, QueuesOK, WaitsForFormat, WaitsForMemory
<1>4. LruOK
  BY BudgetAssumption DEF Init, LruOK, ItemsOK
<1>5. PasswordsOK /\ CountersOK
  <2>1. PasswordsOK
    BY DEF Init, PasswordsOK, PasswordsVerified
  <2>2. MaxClears \in Nat
    BY BudgetAssumption
  <2>3. 0 \in 0 .. MaxClears /\ 0 \in 0 .. 0
    BY <2>2
  <2>4. clearing = FALSE /\ generation = 0 /\ cleared = 0
    BY DEF Init
  <2>5. CountersOK
    BY <2>3, <2>4 DEF CountersOK
  <2> QED BY <2>1, <2>5
<1> QED BY <1>1, <1>2, <1>3, <1>4, <1>5 DEF Inv

\* The memory that is free after one call has changed.
LEMMA FreeAfter ==
  ASSUME CallsOK, MemoryOK, NEW c \in Calls, NEW k, CallOK(k),
         call' = [call EXCEPT ![c] = k], k.held <= call[c].held + FreeMemory
  PROVE  MemoryOK'
<1> DEFINE h == [d \in Calls |-> call[d].held]
           g == [d \in Calls |-> call'[d].held]
<1>1. call'[c] = k /\ \A d \in Calls \ {c} : call'[d] = call[d]
  BY OnlyOne
<1>2. k.held \in Nat /\ \A d \in Calls : call[d].held \in Nat
  BY DEF CallsOK, CallOK, CallType
<1>3. /\ DOMAIN h = Calls /\ DOMAIN g = Calls /\ IsFiniteSet(DOMAIN h)
      /\ \A d \in DOMAIN h : h[d] \in Nat
      /\ g[c] = k.held /\ h[c] = call[c].held /\ \A d \in DOMAIN h \ {c} : g[d] = h[d]
  BY <1>1, <1>2, BudgetAssumption
<1>4. FreeMemory = Budget - SumFunction(h) /\ FreeMemory' = Budget - SumFunction(g)
  BY DEF FreeMemory
<1> HIDE DEF h, g
<1>5. SumFunction(g) = SumFunction(h) + g[c] - h[c] /\ SumFunction(h) \in Nat
  BY <1>2, <1>3, SumExcept, SumIsNat
<1>6. FreeMemory' = FreeMemory + call[c].held - k.held
  BY <1>2, <1>3, <1>4, <1>5, BudgetAssumption
<1> QED BY <1>2, <1>6 DEF MemoryOK

\* As long as no clear begins or ends.
LEMMA CallsAfter ==
  ASSUME CallsOK, MemoryOK, UNCHANGED <<generation, cleared>>, NEW c \in Calls,
         Settles(c) \/ \E s : Lines(c, s)
  PROVE  CallsOK' /\ MemoryOK'
<1>1. PICK k : /\ call' = [call EXCEPT ![c] = k] /\ CallOK(k)
               /\ k.held <= call[c].held + FreeMemory
  <2>1. call[c].held \in Nat
    BY DEF CallsOK, CallOK, CallType
  <2> QED BY <2>1 DEF Settles, Lines, MemoryOK
<1>2. /\ call' = [d \in Calls |-> call'[d]] /\ call'[c] = k /\ \A d \in Calls \ {c} : call'[d] = call[d]
  BY <1>1, OnlyOne
<1>3. ASSUME NEW d \in Calls PROVE CallOK(call'[d])
  BY <1>1, <1>2 DEF CallsOK
<1>4. \A d \in Calls : CallOK(call[d])'
  BY <1>3 DEF CallOK, OnItsWay, WithinBudget, Knows, At, Name, TooLarge, Claimed
<1>5. CallsOK'
  BY <1>2, <1>4 DEF CallsOK
<1> QED BY <1>1, <1>5, FreeAfter

\* Who is at a step that waits for nothing does not wait.
LEMMA NotWaiting ==
  ASSUME CallsOK, NEW c \in Calls, NEW s, Step(c, s), s \notin {"read", "format"}
  PROVE  call[c].sub # "wait"
BY DEF CallsOK, CallOK, OnItsWay, At, Name, Step

\* The three kinds of work: a call goes its way, or joins one of the queues.
LEMMA WorkCases ==
  ASSUME Inv, NEW c \in Calls, Work(c)
  PROVE  /\ call[c].sub # "wait" /\ UNCHANGED <<clearing, generation, cleared>>
         /\ \/ Settles(c) /\ UNCHANGED <<formatQueue, memoryQueue>>
            \/ Lines(c, "read") /\ memoryQueue' = Append(memoryQueue, c) /\ UNCHANGED formatQueue
            \/ /\ Lines(c, "format") /\ UNCHANGED memoryQueue /\ Archive(c).format \in Formats
               /\ formatQueue' = [formatQueue EXCEPT ![Archive(c).format] = Append(@, c)]
<1> USE DEF Inv
<1> DEFINE Quiet == Settles(c) /\ call[c].sub # "wait" /\ UNCHANGED <<clearing, generation, cleared>>
                    /\ UNCHANGED <<formatQueue, memoryQueue>>
<1>1. ASSUME NEW input \in {"path", "stream"}, Resolve(c, input) PROVE Quiet
  BY <1>1, ResolveSettles, NotWaiting DEF Resolve
<1>2. CASE ResolveFails(c)
  BY <1>2, FailureSettles, NotWaiting DEF ResolveFails
<1>3. CASE ReadPassword(c)
  BY <1>3, ReadPasswordSettles, NotWaiting DEF ReadPassword, PasswordsOK
<1>4. CASE LruHit(c) \/ PeekMisses(c) \/ StatDone(c) \/ StoreLoaded(c)
  <2>1. Settles(c)
    BY <1>4, LookupSettles
  <2>2. call[c].sub # "wait" /\ UNCHANGED <<clearing, generation, cleared, formatQueue, memoryQueue>>
    BY <1>4, NotWaiting DEF LruHit, PeekMisses, StatDone, StoreLoaded, Working
  <2> QED BY <2>1, <2>2
<1>5. CASE Loaded(c)
  BY <1>5, LoadedSettles, NotWaiting DEF Loaded
<1>6. CASE Refused(c) \/ BackendFails(c) \/ NetworkFails(c)
  <2>1. Settles(c)
    BY <1>6, FailureSettles, NetworkFailsSettles
  <2>2. Working(c) /\ UNCHANGED <<clearing, generation, cleared, formatQueue, memoryQueue>>
    BY <1>6 DEF Refused, BackendFails, NetworkFails
  <2>3. call[c].sub # "wait"
    BY <2>2 DEF Working
  <2> QED BY <2>1, <2>2, <2>3
<1>7. CASE Degrade(c)
  BY <1>7, DegradeSettles DEF Degrade
<1>8. CASE Decoded(c) \/ TooLong(c) \/ Grow(c) \/ GrowFails(c)
  <2>1. Settles(c)
    BY <1>8, DecodedSettles, TooLongSettles, GrowSettles, GrowFailsSettles
  <2>2. Working(c) /\ UNCHANGED <<clearing, generation, cleared, formatQueue, memoryQueue>>
    BY <1>8 DEF Decoded, TooLong, Grow, GrowFails, MustGrow
  <2>3. call[c].sub # "wait"
    BY <2>2 DEF Working
  <2> QED BY <2>1, <2>2, <2>3
<1>9. CASE AnswerPrepare(c) \/ ChooseCandidate(c) \/ KeepPassword(c)
  BY <1>9, AnswersSettle, NotWaiting DEF AnswerPrepare, ChooseCandidate, KeepPassword
<1>10. CASE AskMemory(c)
  <2>1. call[c].sub # "wait" /\ UNCHANGED <<clearing, generation, cleared, formatQueue>>
    BY <1>10 DEF AskMemory
  <2> QED BY <1>10, <2>1, AskMemorySettles
<1>11. CASE AskFormat(c)
  BY <1>11, AskFormatLines DEF AskFormat
<1> QED BY <1>1, <1>2, <1>3, <1>4, <1>5, <1>6, <1>7, <1>8, <1>9, <1>10, <1>11 DEF Work

\* The caches after a step of a call.
LEMMA WorkLru ==
  ASSUME Inv, NEW c \in Calls, Work(c), UNCHANGED cleared
  PROVE  LruOK'
<1> USE DEF Inv
<1>1. SUFFICES ItemsOK(lru') /\ Len(lru') <= LruCapacity
  BY DEF LruOK, ItemsOK
<1>2. CASE LruHit(c) \/ PeekMisses(c)
  BY <1>2, RefreshedOK DEF LruHit, PeekMisses
<1>3. CASE StoreLoaded(c)
  <2> DEFINE k == call[c]
  <2>1. /\ CallOK(k) /\ k \in CallType /\ k.at > 0 /\ k.sub = "store"
        /\ lru' = Stored(k.archive, Name(k), k.gen)
    BY <1>3 DEF StoreLoaded, Admitted, Name, CallsOK, CallOK
  <2>2. Name(k) \in {"probe", "catalog"} /\ k.gen >= cleared /\ k.gen \in 0 .. MaxClears /\ k.archive \in Archives
    BY <2>1 DEF CallOK, OnItsWay, At, CallType, CountersOK
  <2> QED BY <2>1, <2>2, StoredOK
<1>4. CASE Refused(c)
  <2>1. lru' = lru \/ lru' = Forgotten(call[c].archive)
    BY <1>4 DEF Refused
  <2> QED BY <2>1, ForgottenOK, BudgetAssumption DEF LruOK, ItemsOK
<1>5. CASE lru' = lru
  BY <1>5 DEF LruOK
<1>6. LruHit(c) \/ PeekMisses(c) \/ StoreLoaded(c) \/ Refused(c) \/ lru' = lru
  BY DEF Work, Resolve, ResolveFails, ReadPassword, AskFormat, Loaded, StatDone, BackendFails, NetworkFails,
         Degrade, AskMemory, Decoded, TooLong, Grow, GrowFails, AnswerPrepare, ChooseCandidate, KeepPassword
<1> QED BY <1>2, <1>3, <1>4, <1>5, <1>6

\* The passwords after a step of a call: what an unlock keeps, it has proved.
LEMMA WorkPasswords ==
  ASSUME Inv, NEW c \in Calls, Work(c)
  PROVE  PasswordsOK'
<1> USE DEF Inv
<1> DEFINE a == call[c].archive
<1>0. call[c] \in CallType /\ a \in Archives
  BY DEF CallsOK, CallOK, CallType
<1>1. SUFFICES \E pw \in {None, About[a].secret} : passwords' \in {passwords, [passwords EXCEPT ![a] = pw]}
  BY <1>0, AnArchive DEF PasswordsOK, PasswordsVerified
<1>2. CASE KeepPassword(c)
  <2>1. call[c].op = "unlock" /\ call[c].at = 7
    BY <1>2, Whereabouts DEF KeepPassword, Place
  <2>2. call[c].password = About[a].secret
    BY <2>1 DEF CallsOK, CallOK, Knows
  <2> QED BY <1>2, <2>2 DEF KeepPassword
<1>3. CASE Refused(c)
  BY <1>3 DEF Refused
<1>4. CASE passwords' = passwords
  BY <1>4
<1>5. KeepPassword(c) \/ Refused(c) \/ passwords' = passwords
  BY DEF Work, Resolve, ResolveFails, ReadPassword, AskFormat, Loaded, StatDone, BackendFails, NetworkFails,
         Degrade, AskMemory, Decoded, TooLong, Grow, GrowFails, AnswerPrepare, ChooseCandidate, LruHit,
         PeekMisses, StoreLoaded
<1> QED BY <1>2, <1>3, <1>4, <1>5

\* A step of a call.
LEMMA WorkStep ==
  ASSUME Inv, NEW c \in Calls, Work(c)
  PROVE  Inv'
<1>1. /\ call[c].sub # "wait" /\ UNCHANGED <<clearing, generation, cleared>>
      /\ \/ Settles(c) /\ UNCHANGED <<formatQueue, memoryQueue>>
         \/ Lines(c, "read") /\ memoryQueue' = Append(memoryQueue, c) /\ UNCHANGED formatQueue
         \/ /\ Lines(c, "format") /\ UNCHANGED memoryQueue /\ Archive(c).format \in Formats
            /\ formatQueue' = [formatQueue EXCEPT ![Archive(c).format] = Append(@, c)]
  BY WorkCases
<1>2. CallsOK' /\ MemoryOK'
  BY <1>1, CallsAfter DEF Inv
<1>3. QueuesOK'
  <2>1. CASE Settles(c) /\ UNCHANGED <<formatQueue, memoryQueue>>
    <3>1. PICK k : call' = [call EXCEPT ![c] = k] /\ k.sub # "wait"
      BY <2>1 DEF Settles
    <3> QED BY <1>1, <2>1, <3>1, QueuesQuiet DEF Inv
  <2> QED BY <1>1, <2>1, QueuesMemory, QueuesFormat DEF Inv
<1>4. LruOK' /\ PasswordsOK'
  BY <1>1, WorkLru, WorkPasswords
<1>5. CountersOK'
  BY <1>1 DEF CountersOK, Inv
<1> QED BY <1>2, <1>3, <1>4, <1>5 DEF Inv

-----------------------------------------------------------------------------
(***************************************************************************)
(* The other steps.                                                        *)
(***************************************************************************)

\* What touches neither the caches nor the clears.
LEMMA RestKept ==
  ASSUME LruOK, PasswordsOK, CountersOK, UNCHANGED <<lru, passwords, clearing, generation, cleared>>
  PROVE  LruOK' /\ PasswordsOK' /\ CountersOK'
BY DEF LruOK, ItemsOK, PasswordsOK, PasswordsVerified, CountersOK

\* A call that waits for nothing becomes one that does not.
LEMMA OneSettles ==
  ASSUME Inv, NEW c \in Calls, call[c].sub # "wait", Settles(c),
         UNCHANGED <<lru, passwords, formatQueue, memoryQueue, clearing, generation, cleared>>
  PROVE  Inv'
<1>1. CallsOK' /\ MemoryOK'
  BY CallsAfter DEF Inv
<1>2. PICK k : call' = [call EXCEPT ![c] = k] /\ k.sub # "wait"
  BY DEF Settles
<1>3. QueuesOK'
  BY <1>2, QueuesQuiet DEF Inv
<1> QED BY <1>1, <1>3, RestKept DEF Inv

LEMMA BeginStep ==
  ASSUME Inv, NEW c \in Calls, NEW op \in DOMAIN Plan, NEW a \in Archives, NEW pw \in Guesses \cup {None},
         Begin(c, op, a, pw)
  PROVE  Inv'
<1> DEFINE n == [Idle EXCEPT !.op = op, !.archive = a, !.password = pw, !.gen = generation, !.at = 1]
<1>1. /\ call[c] = Idle /\ call' = [call EXCEPT ![c] = n]
      /\ UNCHANGED <<lru, passwords, formatQueue, memoryQueue, clearing, generation, cleared>>
  BY DEF Begin
<1>2. generation \in 0 .. MaxClears /\ cleared <= generation
  BY BudgetAssumption DEF Inv, CountersOK
<1>3. n \in CallType
  <2>1. op \in DOMAIN Plan \cup {"none"} /\ 1 \in 0 .. 7
    OBVIOUS
  <2> QED BY <1>2, <2>1, IdleOK DEF CallType
<1>4. /\ n.op = op /\ n.archive = a /\ n.at = 1 /\ n.gen = generation /\ n.sub = "start" /\ n.held = 0 /\ ~n.full
      /\ n.tries = 0 /\ n.result = "ok"
  BY DEF Idle
<1> HIDE DEF n
<1>5. op # "none" /\ 1 <= Steps(op) /\ Name(n) = "resolve"
  <2>1. op # "none"
    BY PlanIs
  <2>2. Plan[op][1] = "resolve"
    BY PlanIs
  <2> QED BY <1>4, <2>1, <2>2 DEF Steps, Name
<1>6. CallOK(n)
  <2>1. OnItsWay(n)
    BY <1>2, <1>4, <1>5 DEF OnItsWay
  <2>2. WithinBudget(n)
    BY <1>4, <1>5 DEF WithinBudget, At
  <2>3. Knows(n)
    BY <1>4 DEF Knows
  <2> QED BY <1>3, <2>1, <2>2, <2>3 DEF CallOK
<1>7. Settles(c)
  BY <1>1, <1>4, <1>6, SettlesFreely DEF Inv
<1> QED BY <1>1, <1>7, IdleOK, OneSettles

LEMMA TurnedAwayStep ==
  ASSUME Inv, NEW c \in Calls, TurnedAway(c)
  PROVE  Inv'
<1> DEFINE n == [Idle EXCEPT !.op = "prepare", !.result = "Cancelled"]
<1>1. /\ call[c] = Idle /\ call' = [call EXCEPT ![c] = n]
      /\ UNCHANGED <<lru, passwords, formatQueue, memoryQueue, clearing, generation, cleared>>
  BY DEF TurnedAway, Inv, CallsOK, Idle
<1>2. n \in CallType
  BY IdleOK, PlanIs DEF CallType, Results
<1>3. n.at = 0 /\ n.sub = "start" /\ n.held = 0 /\ ~n.full /\ n.tries = 0 /\ n.result = "Cancelled"
  BY DEF Idle
<1> HIDE DEF n
<1>4. CallOK(n)
  BY <1>2, <1>3 DEF CallOK, OnItsWay, WithinBudget, Knows, At
<1>5. Settles(c)
  BY <1>1, <1>3, <1>4, SettlesFreely DEF Inv
<1> QED BY <1>1, <1>5, IdleOK, OneSettles

LEMMA GrantsStep ==
  ASSUME Inv, Grants
  PROVE  Inv'
<1>1. UNCHANGED <<lru, passwords, clearing, generation, cleared>>
  BY DEF Grants, GrantMemory, GrantFormat
<1>2. QueuesOK' /\ \E c \in Calls : Settles(c)
  BY GrantMemoryStep, GrantFormatStep DEF Grants, Inv
<1>3. CallsOK' /\ MemoryOK'
  BY <1>1, <1>2, CallsAfter DEF Inv
<1> QED BY <1>1, <1>2, <1>3, RestKept DEF Inv

\* Nobody moves while the gate is shut or opened.
LEMMA NobodyMoves ==
  ASSUME CallsOK, MemoryOK, QueuesOK, PasswordsOK,
         UNCHANGED <<call, passwords, formatQueue, memoryQueue>>,
         generation' \in Nat, generation \in Nat, generation' >= generation,
         \/ cleared' = cleared
         \/ \A c \in Calls : call[c].at = 0
  PROVE  CallsOK' /\ MemoryOK' /\ QueuesOK' /\ PasswordsOK'
<1>1. ASSUME NEW c \in Calls PROVE CallOK(call[c])'
  <2>1. CallOK(call[c]) /\ call[c].gen \in Int
    BY DEF CallsOK, CallOK, CallType
  <2>2. call[c]' = call[c]
    OBVIOUS
  <2>3. call[c].at > 0 => cleared' = cleared
    OBVIOUS
  <2> QED BY <2>1, <2>2, <2>3 DEF CallOK, OnItsWay, WithinBudget, Knows, At, Name, TooLarge, Claimed
<1>2. CallsOK'
  BY <1>1 DEF CallsOK
<1>3. MemoryOK' /\ PasswordsOK'
  BY DEF MemoryOK, FreeMemory, PasswordsOK, PasswordsVerified
<1>4. QueuesOK'
  BY DEF QueuesOK, WaitsForFormat, WaitsForMemory, Step, Admitted, Archive
<1> QED BY <1>2, <1>3, <1>4

LEMMA ClearStep ==
  ASSUME Inv, BeginClear \/ ClearRuntimeCaches \/ ClearTimesOut
  PROVE  Inv'
<1>1. generation \in 0 .. MaxClears /\ cleared \in 0 .. generation /\ MaxClears \in Nat /\ LruCapacity \in Nat
  BY BudgetAssumption DEF Inv, CountersOK
<1>2. CASE BeginClear
  <2>1. /\ UNCHANGED <<call, lru, passwords, formatQueue, memoryQueue, cleared>>
        /\ clearing' = TRUE /\ generation' = generation + 1 /\ generation < MaxClears
    BY <1>2 DEF BeginClear
  <2>2. CallsOK' /\ MemoryOK' /\ QueuesOK' /\ PasswordsOK'
    BY <1>1, <2>1, NobodyMoves DEF Inv
  <2>3. LruOK'
    BY <2>1 DEF Inv, LruOK, ItemsOK
  <2>4. generation' \in 0 .. MaxClears /\ cleared' \in 0 .. generation' /\ clearing' \in BOOLEAN
    BY <1>1, <2>1
  <2> QED BY <2>2, <2>3, <2>4 DEF Inv, CountersOK
<1>3. CASE ClearRuntimeCaches
  <2>1. /\ UNCHANGED <<call, passwords, formatQueue, memoryQueue, generation>>
        /\ lru' = <<>> /\ clearing' = FALSE /\ cleared' = generation
    BY <1>3 DEF ClearRuntimeCaches
  <2>2. \A c \in Calls : call[c].at = 0
    BY <1>3 DEF ClearRuntimeCaches, Drained, Admitted, Inv, CallsOK, CallOK, CallType
  <2>3. CallsOK' /\ MemoryOK' /\ QueuesOK' /\ PasswordsOK'
    BY <1>1, <2>1, <2>2, NobodyMoves DEF Inv
  <2>4. LruOK'
    BY <1>1, <2>1 DEF LruOK, ItemsOK
  <2>5. generation' \in 0 .. MaxClears /\ cleared' \in 0 .. generation' /\ clearing' \in BOOLEAN
    <3>1. generation' = generation /\ cleared' = generation /\ generation \in 0 .. generation
      BY <1>1, <2>1
    <3> QED BY <1>1, <2>1, <3>1
  <2> QED BY <2>3, <2>4, <2>5 DEF Inv, CountersOK
<1>4. CASE ClearTimesOut
  <2>1. /\ UNCHANGED <<call, lru, passwords, formatQueue, memoryQueue, generation, cleared>>
        /\ clearing' = FALSE
    BY <1>4 DEF ClearTimesOut
  <2>2. CallsOK' /\ MemoryOK' /\ QueuesOK' /\ PasswordsOK'
    BY <1>1, <2>1, NobodyMoves DEF Inv
  <2>3. LruOK' /\ CountersOK'
    BY <2>1 DEF Inv, LruOK, ItemsOK, CountersOK
  <2> QED BY <2>2, <2>3 DEF Inv
<1> QED BY <1>2, <1>3, <1>4

LEMMA InvStep == Inv /\ [Next]_vars => Inv'
<1> SUFFICES ASSUME Inv, [Next]_vars PROVE Inv'
  OBVIOUS
<1>1. ASSUME NEW c \in Calls, Work(c) PROVE Inv'
  BY <1>1, WorkStep
<1>2. ASSUME NEW c \in Calls, NEW op \in DOMAIN Plan, NEW a \in Archives, NEW pw \in Guesses \cup {None},
             Begin(c, op, a, pw)
      PROVE  Inv'
  BY <1>2, BeginStep
<1>3. ASSUME NEW c \in Calls, TurnedAway(c) PROVE Inv'
  BY <1>3, TurnedAwayStep
<1>4. CASE Grants
  BY <1>4, GrantsStep
<1>5. CASE BeginClear \/ ClearRuntimeCaches \/ ClearTimesOut
  BY <1>5, ClearStep
<1>6. CASE UNCHANGED vars
  <2>1. /\ UNCHANGED <<call, passwords, formatQueue, memoryQueue, generation, cleared>>
        /\ UNCHANGED <<lru, clearing>>
    BY <1>6 DEF vars
  <2>2. generation \in Nat
    BY BudgetAssumption DEF Inv, CountersOK
  <2>3. CallsOK' /\ MemoryOK' /\ QueuesOK' /\ PasswordsOK'
    BY <2>1, <2>2, NobodyMoves DEF Inv
  <2>4. LruOK' /\ CountersOK'
    BY <2>1, RestKept DEF Inv
  <2> QED BY <2>3, <2>4 DEF Inv
<1> QED BY <1>1, <1>2, <1>3, <1>4, <1>5, <1>6 DEF Next

LEMMA Invariance == Spec => []Inv
BY InitInv, InvStep, PTL DEF Spec

-----------------------------------------------------------------------------
(***************************************************************************)
(* The theorems.                                                           *)
(***************************************************************************)

\* What the runs call the type invariant follows: the accounts of the memory
\* semaphore are kept, and a call is in a queue exactly as long as it waits.
LEMMA InvTyped == Inv => ContentTypeOK
<1> SUFFICES ASSUME Inv PROVE ContentTypeOK
  OBVIOUS
<1>1. call \in [Calls -> CallType]
  BY DEF Inv, CallsOK, CallOK
<1>2. BudgetKept
  <2>1. FreeMemory >= 0
    BY DEF Inv, MemoryOK
  <2>2. ASSUME NEW c \in Calls
        PROVE  call[c].held = IF Step(c, "read") /\ call[c].sub = "run"
                             THEN PermitCount(Archive(c).dict + call[c].reserved) ELSE 0
    <3>1. WithinBudget(call[c])
      BY DEF Inv, CallsOK, CallOK
    <3> QED BY <3>1, StepIsAt DEF WithinBudget, Archive
  <2> QED BY <2>1, <2>2 DEF BudgetKept
<1>3. /\ lru \in Seq([archive : Archives, probe : BOOLEAN, catalog : BOOLEAN, gen : 0..MaxClears])
      /\ Len(lru) <= LruCapacity /\ \A i, j \in DOMAIN lru : lru[i].archive = lru[j].archive => i = j
  BY DEF Inv, LruOK, ItemsOK, Item
<1>4. passwords \in [Archives -> Guesses \cup {None}]
  BY DEF Inv, PasswordsOK
<1>5. ASSUME NEW c \in Calls
      PROVE  /\ (Step(c, "format") /\ call[c].sub = "wait")
                  <=> (Admitted(c) /\ c \in Range(formatQueue[Archive(c).format]))
             /\ (Step(c, "read") /\ call[c].sub = "wait") <=> c \in Range(memoryQueue)
  <2>1. Archive(c).format \in Formats
    BY <1>1, AnArchive DEF Archive, CallType
  <2>2. c \in Range(formatQueue[Archive(c).format]) <=> WaitsForFormat(c, Archive(c).format)
    BY <2>1 DEF Inv, QueuesOK
  <2>3. c \in Range(memoryQueue) <=> WaitsForMemory(c)
    BY DEF Inv, QueuesOK
  <2> QED BY <2>2, <2>3 DEF WaitsForFormat, WaitsForMemory, Step
<1>6. clearing \in BOOLEAN /\ generation \in 0..MaxClears /\ cleared \in 0..generation
  BY DEF Inv, CountersOK
<1> QED BY <1>1, <1>2, <1>3, <1>4, <1>5, <1>6 DEF ContentTypeOK

\* Types, the accounts of the memory the decoders share, and the two queues:
\* the permits a decoder holds are those its dictionary and its output are
\* worth, and never more than the budget are given out (DecodeBudget).
THEOREM TypeCorrect == Spec => []ContentTypeOK
BY Invariance, InvTyped, PTL

\* An entry is refused for want of room only if it does not fit the budget at
\* all: read_with_budget never gives up because of what others hold.
THEOREM LimitIsRealHolds == Spec => []LimitIsReal
<1>1. Inv => LimitIsReal
  <2> SUFFICES ASSUME Inv, NEW c \in Calls, call[c].result = "ResourceLimitExceeded"
               PROVE  Archive(c).dict + Max({Archive(c).declared, Archive(c).actual}) > Budget
    BY DEF LimitIsReal
  <2>1. TooLarge(call[c].archive)
    BY DEF Inv, CallsOK, CallOK, Knows
  <2> QED BY <2>1 DEF TooLarge, Archive
<1> QED BY <1>1, Invariance, PTL

\* A stored password opens its archive, and nothing in the catalog LRU was read
\* before the caches were last emptied, however the calls and clears interleave.
THEOREM StoresTrueHolds == Spec => []StoresTrue
<1>1. Inv => StoresTrue
  BY DEF Inv, PasswordsOK, LruOK, ItemsOK, StoresTrue, NothingRevived
<1> QED BY <1>1, Invariance, PTL
=============================================================================
