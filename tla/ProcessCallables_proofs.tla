----------------------- MODULE ProcessCallables_proofs -----------------------
(***************************************************************************)
(* Proofs about ProcessCallables, for every number of calls, callables,    *)
(* permitted threads and pool threads: its type invariant, the limit, and  *)
(* what a call leaves behind when it returns.                              *)
(***************************************************************************)
EXTENDS ProcessCallables, SequenceTheorems, FiniteSetTheorems, TLAPS

Elems(s) == {s[i] : i \in 1 .. Len(s)}

\* Len, under a name that the leaves about numbers need not look behind.
Size(s) == Len(s)

\* How far call c has come, and how long its lists are: each place is available
\* or used by a task, and each future is in the tasks or in the result.
CountInv(c) ==
  /\ pc[c] = "assign" => next[c] <= N
  /\ pc[c] \notin {"assign", "scan"} => next[c] = N + 1
  /\ pc[c] = "returned" => tasks[c] = <<>> /\ todo[c] = <<>>
  /\ available[c] + Size(tasks[c]) = Limit
  /\ Size(complete[c]) + Size(tasks[c]) = Size(submitted[c])

\* No future and no callable seen is lost, and the result holds only futures
\* that are done.
CoverInv(c) ==
  /\ 1 .. Size(submitted[c]) \subseteq Elems(tasks[c]) \cup Elems(complete[c])
  /\ \A k \in Elems(complete[c]) : <<c, k>> \in done
  /\ 1 .. next[c] - 1 \subseteq Elems(submitted[c]) \cup Elems(todo[c])

CallInv(c) == CountInv(c) /\ CoverInv(c)

IInv == TypeOK /\ \A c \in Caller : CallInv(c)

-----------------------------------------------------------------------------
(* Sequences.                                                              *)

LEMMA ElemsAppend ==
  ASSUME NEW T, NEW s \in Seq(T), NEW e \in T
  PROVE  /\ Append(s, e) \in Seq(T)
         /\ Size(s) \in Nat /\ Size(Append(s, e)) = Size(s) + 1
         /\ Elems(Append(s, e)) = Elems(s) \cup {e}
BY DEF Elems, Size

\* The same for a list of callables, whose range the solver would turn into
\* inequalities.
LEMMA CallablesAppend ==
  ASSUME NEW s \in Seq(1 .. N), NEW e \in 1 .. N
  PROVE  /\ Append(s, e) \in Seq(1 .. N)
         /\ Size(Append(s, e)) = Size(s) + 1
         /\ Elems(Append(s, e)) = Elems(s) \cup {e}
<1> DEFINE T == 1 .. N
<1>1. s \in Seq(T) /\ e \in T
  OBVIOUS
<1> HIDE DEF T
<1>2. /\ Append(s, e) \in Seq(T)
      /\ Size(Append(s, e)) = Size(s) + 1
      /\ Elems(Append(s, e)) = Elems(s) \cup {e}
  BY <1>1, ElemsAppend
<1> QED BY <1>2 DEF T

LEMMA FuturesAppend ==
  ASSUME NEW s \in Seq(Nat \ {0}), NEW e \in Nat \ {0}
  PROVE  /\ Append(s, e) \in Seq(Nat \ {0})
         /\ Size(Append(s, e)) = Size(s) + 1
         /\ Elems(Append(s, e)) = Elems(s) \cup {e}
<1> DEFINE T == Nat \ {0}
<1>1. s \in Seq(T) /\ e \in T
  OBVIOUS
<1> HIDE DEF T
<1>2. /\ Append(s, e) \in Seq(T)
      /\ Size(Append(s, e)) = Size(s) + 1
      /\ Elems(Append(s, e)) = Elems(s) \cup {e}
  BY <1>1, ElemsAppend
<1> QED BY <1>2 DEF T

LEMMA ElemsTail ==
  ASSUME NEW T, NEW s \in Seq(T), Size(s) > 0
  PROVE  /\ Head(s) \in T
         /\ Tail(s) \in Seq(T)
         /\ Size(Tail(s)) = Size(s) - 1
         /\ Elems(s) = {Head(s)} \cup Elems(Tail(s))
<1>1. /\ Head(s) = s[1] /\ s[1] \in T
      /\ Tail(s) \in Seq(T) /\ Len(Tail(s)) = Len(s) - 1
      /\ \A i \in 1 .. Len(s) - 1 : Tail(s)[i] = s[i + 1]
  BY DEF Size
<1>2. Elems(s) \subseteq {Head(s)} \cup Elems(Tail(s))
  <2> SUFFICES ASSUME NEW i \in 1 .. Len(s)
               PROVE  s[i] \in {Head(s)} \cup Elems(Tail(s))
    BY DEF Elems
  <2>1. CASE i = 1
    BY <1>1, <2>1
  <2>2. CASE i > 1
    <3>1. i - 1 \in 1 .. Len(Tail(s)) /\ Tail(s)[i - 1] = s[i]
      BY <1>1, <2>2
    <3> QED BY <3>1 DEF Elems
  <2> QED BY <2>1, <2>2
<1>3. Elems(Tail(s)) \subseteq Elems(s)
  <2> SUFFICES ASSUME NEW i \in 1 .. Len(Tail(s)) PROVE Tail(s)[i] \in Elems(s)
    BY DEF Elems
  <2>1. i + 1 \in 1 .. Len(s) /\ Tail(s)[i] = s[i + 1]
    BY <1>1
  <2> QED BY <2>1 DEF Elems
<1>4. Head(s) \in Elems(s)
  BY <1>1 DEF Elems
<1> QED BY <1>1, <1>2, <1>3, <1>4 DEF Size

LEMMA CallablesTail ==
  ASSUME NEW s \in Seq(1 .. N), Size(s) > 0
  PROVE  /\ Head(s) \in 1 .. N
         /\ Tail(s) \in Seq(1 .. N)
         /\ Size(Tail(s)) = Size(s) - 1
         /\ Elems(s) = {Head(s)} \cup Elems(Tail(s))
<1> DEFINE T == 1 .. N
<1>1. s \in Seq(T)
  OBVIOUS
<1> HIDE DEF T
<1>2. /\ Head(s) \in T
      /\ Tail(s) \in Seq(T)
      /\ Size(Tail(s)) = Size(s) - 1
      /\ Elems(s) = {Head(s)} \cup Elems(Tail(s))
  BY <1>1, ElemsTail
<1> QED BY <1>2 DEF T

LEMMA ElemsEmpty ==
  ASSUME NEW T, NEW s \in Seq(T)
  PROVE  /\ s = <<>> <=> Size(s) = 0
         /\ s = <<>> => Elems(s) = {}
BY DEF Elems, Size

LEMMA ElemsCardinality ==
  ASSUME NEW T, NEW s \in Seq(T)
  PROVE  IsFiniteSet(Elems(s)) /\ Cardinality(Elems(s)) <= Size(s)
<1>1. IsFiniteSet(1 .. Len(s)) /\ Cardinality(1 .. Len(s)) = Len(s)
  <2>1. Len(s) \in Nat
    OBVIOUS
  <2> QED BY <2>1, FS_Interval
<1>2. s \in Surjection(1 .. Len(s), Elems(s))
  <2>1. s \in [1 .. Len(s) -> T]
    BY LenProperties
  <2>2. s \in [1 .. Len(s) -> Elems(s)]
    BY <2>1 DEF Elems
  <2>3. \A t \in Elems(s) : \E i \in 1 .. Len(s) : s[i] = t
    BY DEF Elems
  <2> QED BY <2>2, <2>3 DEF Surjection
<1> QED BY <1>1, <1>2, FS_Surjection DEF Size

LEMMA LimitType == Limit \in Nat \ {0}
BY CallablesAssumption DEF Limit

-----------------------------------------------------------------------------
(* The steps of a call.                                                    *)

\* A step of one call leaves the other calls, and what is done, alone.
Same(d) ==
  /\ pc'[d] = pc[d] /\ next'[d] = next[d] /\ available'[d] = available[d]
  /\ tasks'[d] = tasks[d] /\ todo'[d] = todo[d] /\ complete'[d] = complete[d]
  /\ submitted'[d] = submitted[d] /\ index'[d] = index[d]

LEMMA SameInv ==
  ASSUME NEW d \in Caller, CallInv(d), Same(d), done \subseteq done'
  PROVE  CallInv(d)'
BY DEF CallInv, CountInv, CoverInv, Same, Limit

\* The types of a call at any of its steps.
ListsTyped(c) ==
  /\ tasks[c] \in Seq(Nat \ {0})
  /\ complete[c] \in Seq(Nat \ {0})
  /\ todo[c] \in Seq(1 .. N)
  /\ submitted[c] \in Seq(1 .. N)

NumbersTyped(c) ==
  /\ pc[c] \in {"assign", "scan", "refill", "wait", "returned"}
  /\ N \in Nat /\ Limit \in Nat \ {0}
  /\ Size(tasks[c]) \in Nat /\ Size(complete[c]) \in Nat
  /\ Size(todo[c]) \in Nat /\ Size(submitted[c]) \in Nat
  /\ next[c] \in 1 .. N + 1 /\ available[c] \in 0 .. Limit /\ index[c] \in Nat
  /\ index[c] <= Size(tasks[c])
  /\ pc[c] = "wait" => index[c] > 0

CallTyped(c) == ListsTyped(c) /\ NumbersTyped(c)

WorkTyped ==
  /\ pool \in Seq(Caller \X (Nat \ {0}))
  /\ executing \in SUBSET (Caller \X (Nat \ {0}))
  /\ done \in SUBSET (Caller \X (Nat \ {0}))

\* Each variable of the calls is a function on them.
Functions ==
  /\ pc = [c \in Caller |-> pc[c]] /\ next = [c \in Caller |-> next[c]]
  /\ available = [c \in Caller |-> available[c]] /\ tasks = [c \in Caller |-> tasks[c]]
  /\ todo = [c \in Caller |-> todo[c]] /\ complete = [c \in Caller |-> complete[c]]
  /\ index = [c \in Caller |-> index[c]] /\ submitted = [c \in Caller |-> submitted[c]]

LEMMA TypeOKByCall ==
  TypeOK <=> Functions /\ WorkTyped /\ \A c \in Caller : CallTyped(c)
<1>1. TypeOK => Functions /\ WorkTyped
  BY DEF TypeOK, Functions, WorkTyped
<1>2. TypeOK => \A c \in Caller : CallTyped(c)
  BY LimitType, CallablesAssumption DEF TypeOK, CallTyped, ListsTyped, NumbersTyped, Size
<1>3. ASSUME Functions, WorkTyped, \A c \in Caller : CallTyped(c)
      PROVE  TypeOK
  <2>1. /\ pc \in [Caller -> {"assign", "scan", "refill", "wait", "returned"}]
        /\ next \in [Caller -> 1 .. N + 1]
        /\ available \in [Caller -> 0 .. Limit]
    BY <1>3 DEF Functions, CallTyped, ListsTyped, NumbersTyped
  <2>2. tasks \in [Caller -> Seq(Nat \ {0})]
    BY <1>3 DEF Functions, CallTyped, ListsTyped, NumbersTyped
  <2>3. todo \in [Caller -> Seq(1 .. N)]
    BY <1>3 DEF Functions, CallTyped, ListsTyped, NumbersTyped
  <2>4. complete \in [Caller -> Seq(Nat \ {0})]
    BY <1>3 DEF Functions, CallTyped, ListsTyped, NumbersTyped
  <2>5. index \in [Caller -> Nat]
    BY <1>3 DEF Functions, CallTyped, ListsTyped, NumbersTyped
  <2>6. submitted \in [Caller -> Seq(1 .. N)]
    BY <1>3 DEF Functions, CallTyped, ListsTyped, NumbersTyped
  <2>7. \A c \in Caller : index[c] <= Len(tasks[c]) /\ (pc[c] = "wait" => index[c] > 0)
    BY <1>3 DEF CallTyped, NumbersTyped, Size
  <2> QED BY <1>3, <2>1, <2>2, <2>3, <2>4, <2>5, <2>6, <2>7 DEF TypeOK, WorkTyped
<1> QED BY <1>1, <1>2, <1>3

LEMMA SubmitStep ==
  ASSUME TypeOK, NEW c \in Caller, NEW callable \in 1 .. N,
         NEW before \in Seq(Nat \ {0}), Submit(c, callable, before)
  PROVE  /\ submitted'[c] \in Seq(1 .. N)
         /\ Size(submitted'[c]) = Size(submitted[c]) + 1
         /\ Elems(submitted'[c]) = Elems(submitted[c]) \cup {callable}
         /\ tasks'[c] \in Seq(Nat \ {0})
         /\ Size(tasks'[c]) = Size(before) + 1
         /\ Elems(tasks'[c]) = Elems(before) \cup {Size(submitted[c]) + 1}
         /\ pool' \in Seq(Caller \X (Nat \ {0}))
         /\ \E s, t : /\ submitted' = [submitted EXCEPT ![c] = s]
                      /\ tasks' = [tasks EXCEPT ![c] = t]
<1> DEFINE s == Append(submitted[c], callable)
           k == Size(submitted[c]) + 1
           t == Append(before, k)
<1>1. submitted[c] \in Seq(1 .. N) /\ Size(submitted[c]) \in Nat
  BY DEF TypeOK, Size
<1>2. s \in Seq(1 .. N) /\ Size(s) = k /\ Elems(s) = Elems(submitted[c]) \cup {callable}
  BY <1>1, CallablesAppend
<1>3. submitted' = [submitted EXCEPT ![c] = s]
  BY DEF Submit
<1> HIDE DEF s
<1>4. submitted'[c] = s
  BY <1>3 DEF TypeOK
<1>5. k \in Nat \ {0}
  BY <1>1
<1>6. tasks' = [tasks EXCEPT ![c] = Append(before, Size(submitted'[c]))]
  BY DEF Submit, Size
<1>7. tasks' = [tasks EXCEPT ![c] = t] /\ pool' = Append(pool, <<c, k>>)
  BY <1>2, <1>4 DEF Submit, Size
<1> HIDE DEF k
<1>8. t \in Seq(Nat \ {0}) /\ Size(t) = Size(before) + 1 /\ Elems(t) = Elems(before) \cup {k}
  BY <1>5, FuturesAppend
<1> HIDE DEF t
<1>9. tasks'[c] = t
  BY <1>7 DEF TypeOK
<1>10. pool' \in Seq(Caller \X (Nat \ {0}))
  BY <1>5, <1>7 DEF TypeOK
<1>11. k = Size(submitted[c]) + 1
  BY DEF k
<1> QED BY <1>2, <1>3, <1>4, <1>7, <1>8, <1>9, <1>10, <1>11

\* A step of call c keeps the invariant if it does for c and leaves the others alone.
LEMMA TypeOKPrime ==
  ASSUME Functions', WorkTyped', \A c \in Caller : CallTyped(c)'
  PROVE  TypeOK'
<1>1. (Functions /\ WorkTyped /\ (\A c \in Caller : CallTyped(c)) => TypeOK)'
  BY TypeOKByCall, PTL
<1> QED BY <1>1

LEMMA CallStep ==
  ASSUME IInv, NEW c \in Caller,
         CallTyped(c)', CallInv(c)', WorkTyped', Functions',
         \A d \in Caller \ {c} : Same(d), done' = done
  PROVE  IInv'
<1>1. \A d \in Caller : CallTyped(d)'
  <2> SUFFICES ASSUME NEW d \in Caller, d # c PROVE CallTyped(d)'
    OBVIOUS
  <2>1. CallTyped(d) /\ Same(d)
    BY TypeOKByCall DEF IInv
  <2> QED BY <2>1 DEF CallTyped, ListsTyped, NumbersTyped, Same, Limit
<1>2. \A d \in Caller : CallInv(d)'
  BY SameInv DEF IInv
<1>3. TypeOK'
  BY <1>1, TypeOKPrime
<1> QED BY <1>2, <1>3 DEF IInv

LEMMA AssignStep ==
  ASSUME IInv, NEW c \in Caller, Assign(c)
  PROVE  IInv'
<1>1. TypeOK /\ ListsTyped(c) /\ NumbersTyped(c) /\ CountInv(c) /\ CoverInv(c)
      /\ Functions /\ WorkTyped
  BY TypeOKByCall DEF IInv, CallTyped, CallInv
<1>2. next[c] \in 1 .. N /\ pc[c] = "assign"
  BY <1>1 DEF Assign, CountInv, NumbersTyped
<1>3. /\ pc' = [pc EXCEPT ![c] = "scan"] /\ next' = [next EXCEPT ![c] = @ + 1]
      /\ index' = [index EXCEPT ![c] = Size(tasks'[c])]
      /\ complete' = complete /\ done' = done /\ executing' = executing
  BY DEF Assign, Size
<1>4. /\ pc'[c] = "scan" /\ next'[c] = next[c] + 1 /\ index'[c] = Size(tasks'[c])
      /\ complete'[c] = complete[c] /\ Limit' = Limit
  BY <1>1, <1>3 DEF TypeOK, Limit
<1>5. CASE available[c] > 0
  <2>1. /\ Submit(c, next[c], tasks[c])
        /\ available' = [available EXCEPT ![c] = @ - 1] /\ todo' = todo
    BY <1>5 DEF Assign
  <2>2. tasks[c] \in Seq(Nat \ {0})
    BY <1>1 DEF ListsTyped
  <2>3. /\ submitted'[c] \in Seq(1 .. N)
        /\ Size(submitted'[c]) = Size(submitted[c]) + 1
        /\ Elems(submitted'[c]) = Elems(submitted[c]) \cup {next[c]}
        /\ tasks'[c] \in Seq(Nat \ {0})
        /\ Size(tasks'[c]) = Size(tasks[c]) + 1
        /\ Elems(tasks'[c]) = Elems(tasks[c]) \cup {Size(submitted[c]) + 1}
        /\ pool' \in Seq(Caller \X (Nat \ {0}))
        /\ \E s, t : /\ submitted' = [submitted EXCEPT ![c] = s]
                     /\ tasks' = [tasks EXCEPT ![c] = t]
    BY <1>1, <1>2, <2>1, <2>2, SubmitStep
  <2>4. available'[c] = available[c] - 1 /\ todo'[c] = todo[c]
    BY <1>1, <2>1 DEF TypeOK
  <2>5. /\ Size(submitted'[c]) = Size(submitted[c]) + 1
        /\ Size(tasks'[c]) = Size(tasks[c]) + 1
    BY <2>3
  <2>6. /\ Elems(submitted'[c]) = Elems(submitted[c]) \cup {next[c]}
        /\ Elems(tasks'[c]) = Elems(tasks[c]) \cup {Size(submitted[c]) + 1}
    BY <2>3
  <2>7. ListsTyped(c)'
    BY <1>1, <1>3, <2>1, <2>3 DEF ListsTyped
  <2>8. NumbersTyped(c)'
    BY <1>1, <1>2, <1>4, <1>5, <2>4, <2>5 DEF NumbersTyped
  <2>9. CountInv(c)'
    <3>1. available'[c] + Size(tasks'[c]) = Limit'
      BY <1>1, <1>4, <2>4, <2>5 DEF NumbersTyped, CountInv
    <3>2. Size(complete'[c]) + Size(tasks'[c]) = Size(submitted'[c])
      BY <1>1, <1>4, <2>5 DEF NumbersTyped, CountInv
    <3> QED BY <1>4, <3>1, <3>2 DEF CountInv
  <2>10. CoverInv(c)'
    <3>1. 1 .. Size(submitted'[c]) \subseteq Elems(tasks'[c]) \cup Elems(complete'[c])
      BY <1>1, <1>4, <2>5, <2>6 DEF NumbersTyped, CoverInv
    <3>2. 1 .. next'[c] - 1 \subseteq Elems(submitted'[c]) \cup Elems(todo'[c])
      BY <1>1, <1>2, <1>4, <2>4, <2>6 DEF CoverInv
    <3> QED BY <1>1, <1>3, <1>4, <3>1, <3>2 DEF CoverInv
  <2>11. Functions' /\ \A d \in Caller \ {c} : Same(d)
    BY <1>1, <1>3, <2>1, <2>3 DEF Functions, Same
  <2>12. WorkTyped'
    BY <1>1, <1>3, <2>3 DEF WorkTyped
  <2> QED BY <1>3, <2>7, <2>8, <2>9, <2>10, <2>11, <2>12, CallStep DEF CallTyped, CallInv
<1>6. CASE ~ (available[c] > 0)
  <2>1. /\ todo' = [todo EXCEPT ![c] = Append(todo[c], next[c])]
        /\ UNCHANGED <<available, submitted, tasks, pool>>
    BY <1>6 DEF Assign
  <2>2. /\ Append(todo[c], next[c]) \in Seq(1 .. N)
        /\ Size(Append(todo[c], next[c])) = Size(todo[c]) + 1
        /\ Elems(Append(todo[c], next[c])) = Elems(todo[c]) \cup {next[c]}
    BY <1>1, <1>2, CallablesAppend DEF ListsTyped
  <2>3. /\ todo'[c] \in Seq(1 .. N) /\ Size(todo'[c]) = Size(todo[c]) + 1
        /\ Elems(todo'[c]) = Elems(todo[c]) \cup {next[c]}
    BY <1>1, <2>1, <2>2 DEF TypeOK
  <2>4. ListsTyped(c)'
    BY <1>1, <1>3, <2>1, <2>3 DEF ListsTyped
  <2>5. NumbersTyped(c)'
    BY <1>1, <1>2, <1>3, <1>4, <2>1, <2>3 DEF NumbersTyped
  <2>6. CountInv(c)'
    BY <1>1, <1>3, <1>4, <2>1 DEF CountInv
  <2>7. CoverInv(c)'
    <3>1. 1 .. next'[c] - 1 \subseteq Elems(submitted[c]) \cup Elems(todo'[c])
      BY <1>1, <1>2, <1>4, <2>3 DEF CoverInv
    <3> QED BY <1>1, <1>3, <1>4, <2>1, <3>1 DEF CoverInv
  <2>8. Functions' /\ \A d \in Caller \ {c} : Same(d)
    BY <1>1, <1>3, <2>1 DEF Functions, Same
  <2>9. WorkTyped'
    BY <1>1, <1>3, <2>1 DEF WorkTyped
  <2> QED BY <1>3, <2>4, <2>5, <2>6, <2>7, <2>8, <2>9, CallStep DEF CallTyped, CallInv
<1> QED BY <1>5, <1>6

\* The future at the head of the tasks, and the others.
LEMMA FirstTask ==
  ASSUME NEW c \in Caller, ListsTyped(c), NumbersTyped(c), index[c] > 0
  PROVE  /\ Size(tasks[c]) > 0
         /\ Head(tasks[c]) \in Nat \ {0}
         /\ Tail(tasks[c]) \in Seq(Nat \ {0})
         /\ Size(Tail(tasks[c])) = Size(tasks[c]) - 1
         /\ Elems(tasks[c]) = {Head(tasks[c])} \cup Elems(Tail(tasks[c]))
<1>1. Size(tasks[c]) > 0
  BY DEF NumbersTyped
<1> QED BY <1>1, ElemsTail DEF ListsTyped

LEMMA ScanStep ==
  ASSUME IInv, NEW c \in Caller, Scan(c)
  PROVE  IInv'
<1> DEFINE k == Head(tasks[c])
           rest == Tail(tasks[c])
<1>1. TypeOK /\ ListsTyped(c) /\ NumbersTyped(c) /\ CountInv(c) /\ CoverInv(c)
      /\ Functions /\ WorkTyped
  BY TypeOKByCall DEF IInv, CallTyped, CallInv
<1>2. pc[c] = "scan" /\ index[c] > 0
  BY DEF Scan
<1>3. /\ Size(tasks[c]) > 0 /\ k \in Nat \ {0} /\ rest \in Seq(Nat \ {0})
      /\ Size(rest) = Size(tasks[c]) - 1 /\ Elems(tasks[c]) = {k} \cup Elems(rest)
  BY <1>1, <1>2, FirstTask
<1> HIDE DEF k, rest
<1>4. /\ pc' = pc /\ next' = next /\ todo' = todo
      /\ index' = [index EXCEPT ![c] = @ - 1] /\ done' = done /\ executing' = executing
  BY DEF Scan
<1>5. /\ pc'[c] = pc[c] /\ next'[c] = next[c] /\ todo'[c] = todo[c]
      /\ index'[c] = index[c] - 1 /\ Limit' = Limit
  BY <1>1, <1>4 DEF TypeOK, Limit
<1>6. CASE <<c, k>> \in done
  <2>1. complete' = [complete EXCEPT ![c] = Append(complete[c], k)]
    BY <1>6 DEF Scan, k, rest
  <2>2. /\ Append(complete[c], k) \in Seq(Nat \ {0})
        /\ Size(Append(complete[c], k)) = Size(complete[c]) + 1
        /\ Elems(Append(complete[c], k)) = Elems(complete[c]) \cup {k}
    BY <1>1, <1>3, FuturesAppend DEF ListsTyped
  <2>3. /\ complete'[c] \in Seq(Nat \ {0}) /\ Size(complete'[c]) = Size(complete[c]) + 1
        /\ Elems(complete'[c]) = Elems(complete[c]) \cup {k}
    BY <1>1, <2>1, <2>2 DEF TypeOK
  <2>4. CASE todo[c] # <<>>
    <3>1. Submit(c, Head(todo[c]), rest) /\ available' = available
      BY <1>6, <2>4 DEF Scan, k, rest
    <3>2. Size(todo[c]) > 0
      BY <1>1, <2>4, ElemsEmpty DEF ListsTyped, NumbersTyped
    <3>3. Head(todo[c]) \in 1 .. N /\ Elems(todo[c]) = {Head(todo[c])} \cup Elems(Tail(todo[c]))
      BY <1>1, <3>2, CallablesTail DEF ListsTyped
    <3>4. /\ submitted'[c] \in Seq(1 .. N)
          /\ Size(submitted'[c]) = Size(submitted[c]) + 1
          /\ Elems(submitted'[c]) = Elems(submitted[c]) \cup {Head(todo[c])}
          /\ tasks'[c] \in Seq(Nat \ {0})
          /\ Size(tasks'[c]) = Size(rest) + 1
          /\ Elems(tasks'[c]) = Elems(rest) \cup {Size(submitted[c]) + 1}
          /\ pool' \in Seq(Caller \X (Nat \ {0}))
          /\ \E s, t : /\ submitted' = [submitted EXCEPT ![c] = s]
                       /\ tasks' = [tasks EXCEPT ![c] = t]
      BY <1>1, <1>3, <3>1, <3>3, SubmitStep
    <3>5. /\ Size(submitted'[c]) = Size(submitted[c]) + 1 /\ Size(tasks'[c]) = Size(tasks[c])
          /\ Size(complete'[c]) = Size(complete[c]) + 1
      BY <1>1, <1>3, <2>3, <3>4 DEF NumbersTyped
    <3>6. ListsTyped(c)'
      BY <1>1, <1>4, <2>3, <3>4 DEF ListsTyped
    <3>7. NumbersTyped(c)'
      BY <1>1, <1>2, <1>5, <3>1, <3>5 DEF NumbersTyped
    <3>8. CountInv(c)'
      BY <1>1, <1>2, <1>5, <3>1, <3>5 DEF NumbersTyped, CountInv
    <3>9. CoverInv(c)'
      <4>1. 1 .. Size(submitted'[c]) \subseteq Elems(tasks'[c]) \cup Elems(complete'[c])
        BY <1>1, <1>3, <2>3, <3>4 DEF NumbersTyped, CoverInv
      <4>2. \A j \in Elems(complete'[c]) : <<c, j>> \in done'
        BY <1>1, <1>4, <1>6, <2>3 DEF CoverInv
      <4>3. 1 .. next[c] - 1 \subseteq Elems(submitted'[c]) \cup Elems(todo[c])
        BY <1>1, <3>4 DEF CoverInv
      <4> QED BY <1>4, <4>1, <4>2, <4>3 DEF CoverInv
    <3>10. Functions' /\ \A d \in Caller \ {c} : Same(d)
      BY <1>1, <1>4, <2>1, <3>1, <3>4 DEF Functions, Same
    <3>11. WorkTyped'
      BY <1>1, <1>4, <3>4 DEF WorkTyped
    <3> QED BY <1>4, <3>6, <3>7, <3>8, <3>9, <3>10, <3>11, CallStep DEF CallTyped, CallInv
  <2>5. CASE todo[c] = <<>>
    <3>1. /\ tasks' = [tasks EXCEPT ![c] = rest] /\ available' = [available EXCEPT ![c] = @ + 1]
          /\ submitted' = submitted /\ pool' = pool
      BY <1>6, <2>5 DEF Scan, k, rest
    <3>2. /\ tasks'[c] = rest /\ available'[c] = available[c] + 1
          /\ submitted'[c] = submitted[c]
          /\ Size(tasks'[c]) = Size(tasks[c]) - 1 /\ Size(complete'[c]) = Size(complete[c]) + 1
      BY <1>1, <1>3, <2>3, <3>1 DEF TypeOK
    <3>3. ListsTyped(c)'
      BY <1>1, <1>3, <1>4, <2>3, <3>1, <3>2 DEF ListsTyped
    <3>4. NumbersTyped(c)'
      BY <1>1, <1>2, <1>5, <3>2 DEF NumbersTyped, CountInv
    <3>5. CountInv(c)'
      BY <1>1, <1>2, <1>5, <3>2 DEF NumbersTyped, CountInv
    <3>6. CoverInv(c)'
      BY <1>1, <1>3, <1>4, <1>6, <2>3, <3>1, <3>2 DEF CoverInv
    <3>7. Functions' /\ \A d \in Caller \ {c} : Same(d)
      BY <1>1, <1>4, <2>1, <3>1 DEF Functions, Same
    <3>8. WorkTyped'
      BY <1>1, <1>4, <3>1 DEF WorkTyped
    <3> QED BY <1>4, <3>3, <3>4, <3>5, <3>6, <3>7, <3>8, CallStep DEF CallTyped, CallInv
  <2> QED BY <2>4, <2>5
<1>7. CASE <<c, k>> \notin done
  <2>1. /\ tasks' = [tasks EXCEPT ![c] = Append(rest, k)] /\ available' = available
        /\ complete' = complete /\ submitted' = submitted /\ pool' = pool
    BY <1>7 DEF Scan, k, rest
  <2>2. /\ Append(rest, k) \in Seq(Nat \ {0})
        /\ Size(Append(rest, k)) = Size(rest) + 1
        /\ Elems(Append(rest, k)) = Elems(rest) \cup {k}
    BY <1>3, FuturesAppend
  <2>3. /\ tasks'[c] \in Seq(Nat \ {0}) /\ Size(tasks'[c]) = Size(tasks[c])
        /\ Elems(tasks'[c]) = Elems(tasks[c])
    <3>1. tasks'[c] = Append(rest, k)
      BY <1>1, <2>1 DEF TypeOK
    <3>2. Size(rest) + 1 = Size(tasks[c])
      BY <1>1, <1>3 DEF NumbersTyped
    <3> QED BY <1>3, <2>2, <3>1, <3>2
  <2>4. ListsTyped(c)'
    BY <1>1, <1>4, <2>1, <2>3 DEF ListsTyped
  <2>5. NumbersTyped(c)'
    BY <1>1, <1>2, <1>5, <2>1, <2>3 DEF NumbersTyped
  <2>6. CountInv(c)'
    BY <1>1, <1>2, <1>5, <2>1, <2>3 DEF CountInv
  <2>7. CoverInv(c)'
    BY <1>1, <1>4, <2>1, <2>3 DEF CoverInv
  <2>8. Functions' /\ \A d \in Caller \ {c} : Same(d)
    BY <1>1, <1>4, <2>1 DEF Functions, Same
  <2>9. WorkTyped'
    BY <1>1, <1>4, <2>1 DEF WorkTyped
  <2> QED BY <1>4, <2>4, <2>5, <2>6, <2>7, <2>8, <2>9, CallStep DEF CallTyped, CallInv
<1> QED BY <1>6, <1>7

LEMMA ScanEndStep ==
  ASSUME IInv, NEW c \in Caller, ScanEnd(c)
  PROVE  IInv'
<1>1. TypeOK /\ ListsTyped(c) /\ NumbersTyped(c) /\ CountInv(c) /\ CoverInv(c)
      /\ Functions /\ WorkTyped
  BY TypeOKByCall DEF IInv, CallTyped, CallInv
<1>2. /\ pc' = [pc EXCEPT ![c] = IF next[c] <= N THEN "assign" ELSE "refill"]
      /\ UNCHANGED <<next, available, tasks, todo, complete, index, submitted,
                     pool, executing, done>>
  BY DEF ScanEnd, locals, work
<1>3. pc'[c] = IF next[c] <= N THEN "assign" ELSE "refill"
  BY <1>1, <1>2 DEF TypeOK
<1>4. Limit' = Limit
  BY DEF Limit
<1>5. ListsTyped(c)'
  BY <1>1, <1>2 DEF ListsTyped
<1>6. NumbersTyped(c)'
  BY <1>1, <1>2, <1>3, <1>4 DEF NumbersTyped
<1>7. CountInv(c)'
  BY <1>1, <1>2, <1>3, <1>4 DEF NumbersTyped, CountInv
<1>8. CoverInv(c)'
  BY <1>1, <1>2 DEF CoverInv
<1>9. Functions' /\ \A d \in Caller \ {c} : Same(d)
  BY <1>1, <1>2 DEF Functions, Same
<1>10. WorkTyped'
  BY <1>1, <1>2 DEF WorkTyped
<1> QED BY <1>2, <1>5, <1>6, <1>7, <1>8, <1>9, <1>10, CallStep DEF CallTyped, CallInv

LEMMA RefillStep ==
  ASSUME IInv, NEW c \in Caller, Refill(c)
  PROVE  IInv'
<1> DEFINE first == Head(todo[c])
           others == Tail(todo[c])
<1>1. TypeOK /\ ListsTyped(c) /\ NumbersTyped(c) /\ CountInv(c) /\ CoverInv(c)
      /\ Functions /\ WorkTyped
  BY TypeOKByCall DEF IInv, CallTyped, CallInv
<1>2. pc[c] = "refill" /\ available[c] > 0 /\ Size(todo[c]) > 0
  BY <1>1, ElemsEmpty DEF Refill, ListsTyped, NumbersTyped
<1>3. /\ first \in 1 .. N /\ others \in Seq(1 .. N)
      /\ Size(others) = Size(todo[c]) - 1 /\ Elems(todo[c]) = {first} \cup Elems(others)
  BY <1>1, <1>2, CallablesTail DEF ListsTyped
<1> HIDE DEF first, others
<1>4. /\ Submit(c, first, tasks[c])
      /\ todo' = [todo EXCEPT ![c] = others] /\ available' = [available EXCEPT ![c] = @ - 1]
      /\ UNCHANGED <<pc, next, complete, index, executing, done>>
  BY DEF Refill, first, others
<1>5. todo'[c] = others /\ available'[c] = available[c] - 1 /\ Limit' = Limit
  BY <1>1, <1>4 DEF TypeOK, Limit
<1>6. /\ submitted'[c] \in Seq(1 .. N)
      /\ Size(submitted'[c]) = Size(submitted[c]) + 1
      /\ Elems(submitted'[c]) = Elems(submitted[c]) \cup {first}
      /\ tasks'[c] \in Seq(Nat \ {0})
      /\ Size(tasks'[c]) = Size(tasks[c]) + 1
      /\ Elems(tasks'[c]) = Elems(tasks[c]) \cup {Size(submitted[c]) + 1}
      /\ pool' \in Seq(Caller \X (Nat \ {0}))
      /\ \E s, t : /\ submitted' = [submitted EXCEPT ![c] = s]
                   /\ tasks' = [tasks EXCEPT ![c] = t]
  BY <1>1, <1>3, <1>4, SubmitStep DEF ListsTyped
<1>7. /\ Size(submitted'[c]) = Size(submitted[c]) + 1 /\ Size(tasks'[c]) = Size(tasks[c]) + 1
      /\ Size(todo'[c]) = Size(todo[c]) - 1
      /\ pc'[c] = pc[c] /\ next'[c] = next[c] /\ complete'[c] = complete[c]
      /\ index'[c] = index[c]
  BY <1>3, <1>4, <1>5, <1>6
<1>8. ListsTyped(c)'
  BY <1>1, <1>3, <1>4, <1>5, <1>6 DEF ListsTyped
<1>9. NumbersTyped(c)'
  BY <1>1, <1>2, <1>5, <1>7 DEF NumbersTyped
<1>10. CountInv(c)'
  BY <1>1, <1>2, <1>5, <1>7 DEF NumbersTyped, CountInv
<1>11. CoverInv(c)'
  <2>1. 1 .. Size(submitted'[c]) \subseteq Elems(tasks'[c]) \cup Elems(complete[c])
    BY <1>1, <1>6 DEF NumbersTyped, CoverInv
  <2>2. 1 .. next[c] - 1 \subseteq Elems(submitted'[c]) \cup Elems(todo'[c])
    BY <1>1, <1>3, <1>5, <1>6 DEF CoverInv
  <2> QED BY <1>1, <1>4, <2>1, <2>2 DEF CoverInv
<1>12. Functions' /\ \A d \in Caller \ {c} : Same(d)
  BY <1>1, <1>4, <1>6 DEF Functions, Same
<1>13. WorkTyped'
  BY <1>1, <1>4, <1>6 DEF WorkTyped
<1> QED BY <1>4, <1>8, <1>9, <1>10, <1>11, <1>12, <1>13, CallStep DEF CallTyped, CallInv

LEMMA RefillEndStep ==
  ASSUME IInv, NEW c \in Caller, RefillEnd(c)
  PROVE  IInv'
<1>1. TypeOK /\ ListsTyped(c) /\ NumbersTyped(c) /\ CountInv(c) /\ CoverInv(c)
      /\ Functions /\ WorkTyped
  BY TypeOKByCall DEF IInv, CallTyped, CallInv
<1>2. /\ pc[c] = "refill" /\ tasks[c] # <<>>
      /\ pc' = [pc EXCEPT ![c] = "wait"] /\ index' = [index EXCEPT ![c] = Size(tasks[c])]
      /\ UNCHANGED <<next, available, tasks, todo, complete, submitted,
                     pool, executing, done>>
  BY DEF RefillEnd, work, Size
<1>3. pc'[c] = "wait" /\ index'[c] = Size(tasks[c]) /\ Limit' = Limit
  BY <1>1, <1>2 DEF TypeOK, Limit
<1>4. Size(tasks[c]) > 0
  BY <1>1, <1>2, ElemsEmpty DEF ListsTyped, NumbersTyped
<1>5. ListsTyped(c)'
  BY <1>1, <1>2 DEF ListsTyped
<1>6. NumbersTyped(c)'
  BY <1>1, <1>2, <1>3, <1>4 DEF NumbersTyped
<1>7. CountInv(c)'
  BY <1>1, <1>2, <1>3 DEF CountInv
<1>8. CoverInv(c)'
  BY <1>1, <1>2 DEF CoverInv
<1>9. Functions' /\ \A d \in Caller \ {c} : Same(d)
  BY <1>1, <1>2 DEF Functions, Same
<1>10. WorkTyped'
  BY <1>1, <1>2 DEF WorkTyped
<1> QED BY <1>2, <1>5, <1>6, <1>7, <1>8, <1>9, <1>10, CallStep DEF CallTyped, CallInv

LEMMA WaitStep ==
  ASSUME IInv, NEW c \in Caller, Wait(c)
  PROVE  IInv'
<1> DEFINE k == Head(tasks[c])
           rest == Tail(tasks[c])
<1>1. TypeOK /\ ListsTyped(c) /\ NumbersTyped(c) /\ CountInv(c) /\ CoverInv(c)
      /\ Functions /\ WorkTyped
  BY TypeOKByCall DEF IInv, CallTyped, CallInv
<1>2. pc[c] = "wait" /\ index[c] > 0
  BY <1>1 DEF Wait, NumbersTyped
<1>3. /\ Size(tasks[c]) > 0 /\ k \in Nat \ {0} /\ rest \in Seq(Nat \ {0})
      /\ Size(rest) = Size(tasks[c]) - 1 /\ Elems(tasks[c]) = {k} \cup Elems(rest)
  BY <1>1, <1>2, FirstTask
<1> HIDE DEF k, rest
<1>4. UNCHANGED <<next, todo, submitted, pool, executing, done>> /\ Limit' = Limit
  BY DEF Wait, work, Limit
<1>5. CASE <<c, k>> \in done
  <2>1. /\ complete' = [complete EXCEPT ![c] = Append(complete[c], k)]
        /\ available' = [available EXCEPT ![c] = @ + 1]
        /\ tasks' = [tasks EXCEPT ![c] = rest] /\ index' = [index EXCEPT ![c] = 0]
        /\ pc' = [pc EXCEPT ![c] = "refill"]
    BY <1>5 DEF Wait, k, rest
  <2>2. /\ Append(complete[c], k) \in Seq(Nat \ {0})
        /\ Size(Append(complete[c], k)) = Size(complete[c]) + 1
        /\ Elems(Append(complete[c], k)) = Elems(complete[c]) \cup {k}
    BY <1>1, <1>3, FuturesAppend DEF ListsTyped
  <2>3. /\ complete'[c] \in Seq(Nat \ {0}) /\ Elems(complete'[c]) = Elems(complete[c]) \cup {k}
        /\ tasks'[c] = rest
    BY <1>1, <2>1, <2>2 DEF TypeOK
  <2>4. /\ available'[c] = available[c] + 1 /\ index'[c] = 0 /\ pc'[c] = "refill"
        /\ Size(tasks'[c]) = Size(tasks[c]) - 1 /\ Size(complete'[c]) = Size(complete[c]) + 1
    BY <1>1, <1>3, <2>1, <2>2 DEF TypeOK
  <2>5. ListsTyped(c)'
    BY <1>1, <1>3, <1>4, <2>3 DEF ListsTyped
  <2>6. NumbersTyped(c)'
    BY <1>1, <1>2, <1>4, <2>4 DEF NumbersTyped, CountInv
  <2>7. CountInv(c)'
    BY <1>1, <1>2, <1>4, <2>4 DEF NumbersTyped, CountInv
  <2>8. CoverInv(c)'
    BY <1>1, <1>3, <1>4, <1>5, <2>3 DEF CoverInv
  <2>9. Functions' /\ \A d \in Caller \ {c} : Same(d)
    BY <1>1, <1>4, <2>1 DEF Functions, Same
  <2>10. WorkTyped'
    BY <1>1, <1>4 DEF WorkTyped
  <2> QED BY <1>4, <2>5, <2>6, <2>7, <2>8, <2>9, <2>10, CallStep DEF CallTyped, CallInv
<1>6. CASE <<c, k>> \notin done
  <2>1. /\ tasks' = [tasks EXCEPT ![c] = Append(rest, k)]
        /\ index' = [index EXCEPT ![c] = @ - 1]
        /\ pc' = [pc EXCEPT ![c] = IF index[c] = 1 THEN "refill" ELSE "wait"]
        /\ complete' = complete /\ available' = available
    BY <1>6 DEF Wait, k, rest
  <2>2. /\ Append(rest, k) \in Seq(Nat \ {0})
        /\ Size(Append(rest, k)) = Size(rest) + 1
        /\ Elems(Append(rest, k)) = Elems(rest) \cup {k}
    BY <1>3, FuturesAppend
  <2>3. /\ tasks'[c] \in Seq(Nat \ {0}) /\ Size(tasks'[c]) = Size(tasks[c])
        /\ Elems(tasks'[c]) = Elems(tasks[c])
    <3>1. tasks'[c] = Append(rest, k)
      BY <1>1, <2>1 DEF TypeOK
    <3>2. Size(rest) + 1 = Size(tasks[c])
      BY <1>1, <1>3 DEF NumbersTyped
    <3> QED BY <1>3, <2>2, <3>1, <3>2
  <2>4. index'[c] = index[c] - 1 /\ pc'[c] = IF index[c] = 1 THEN "refill" ELSE "wait"
    BY <1>1, <2>1 DEF TypeOK
  <2>5. ListsTyped(c)'
    BY <1>1, <1>4, <2>1, <2>3 DEF ListsTyped
  <2>6. NumbersTyped(c)'
    BY <1>1, <1>2, <1>4, <2>1, <2>3, <2>4 DEF NumbersTyped
  <2>7. CountInv(c)'
    BY <1>1, <1>2, <1>4, <2>1, <2>3, <2>4 DEF CountInv
  <2>8. CoverInv(c)'
    BY <1>1, <1>4, <2>1, <2>3 DEF CoverInv
  <2>9. Functions' /\ \A d \in Caller \ {c} : Same(d)
    BY <1>1, <1>4, <2>1 DEF Functions, Same
  <2>10. WorkTyped'
    BY <1>1, <1>4 DEF WorkTyped
  <2> QED BY <1>4, <2>5, <2>6, <2>7, <2>8, <2>9, <2>10, CallStep DEF CallTyped, CallInv
<1> QED BY <1>5, <1>6

LEMMA ReturnStep ==
  ASSUME IInv, NEW c \in Caller, Return(c)
  PROVE  IInv'
<1>1. TypeOK /\ ListsTyped(c) /\ NumbersTyped(c) /\ CountInv(c) /\ CoverInv(c)
      /\ Functions /\ WorkTyped
  BY TypeOKByCall DEF IInv, CallTyped, CallInv
<1>2. /\ pc[c] = "refill" /\ tasks[c] = <<>> /\ todo[c] = <<>>
      /\ pc' = [pc EXCEPT ![c] = "returned"]
      /\ UNCHANGED <<next, available, tasks, todo, complete, index, submitted,
                     pool, executing, done>>
  BY DEF Return, locals, work
<1>3. pc'[c] = "returned" /\ Limit' = Limit
  BY <1>1, <1>2 DEF TypeOK, Limit
<1>4. ListsTyped(c)'
  BY <1>1, <1>2 DEF ListsTyped
<1>5. NumbersTyped(c)'
  BY <1>1, <1>2, <1>3 DEF NumbersTyped
<1>6. CountInv(c)'
  BY <1>1, <1>2, <1>3 DEF CountInv
<1>7. CoverInv(c)'
  BY <1>1, <1>2 DEF CoverInv
<1>8. Functions' /\ \A d \in Caller \ {c} : Same(d)
  BY <1>1, <1>2 DEF Functions, Same
<1>9. WorkTyped'
  BY <1>1, <1>2 DEF WorkTyped
<1> QED BY <1>2, <1>4, <1>5, <1>6, <1>7, <1>8, <1>9, CallStep DEF CallTyped, CallInv

-----------------------------------------------------------------------------
(* The steps of the pool, and the invariant.                               *)

LEMMA PoolStep ==
  ASSUME IInv, UNCHANGED <<pc, locals>>, WorkTyped', done \subseteq done'
  PROVE  IInv'
<1>1. UNCHANGED <<pc, next, available, tasks, todo, complete, index, submitted>>
  BY DEF locals
<1>2. Functions' /\ \A d \in Caller : Same(d)
  BY <1>1, TypeOKByCall DEF IInv, Functions, Same
<1>3. \A d \in Caller : CallTyped(d)'
  BY <1>2, TypeOKByCall DEF IInv, CallTyped, ListsTyped, NumbersTyped, Same, Limit
<1>4. \A d \in Caller : CallInv(d)'
  BY <1>2, SameInv DEF IInv
<1>5. TypeOK'
  BY <1>2, <1>3, TypeOKPrime
<1> QED BY <1>4, <1>5 DEF IInv

LEMMA BeginStep ==
  ASSUME IInv, Begin
  PROVE  IInv'
<1>1. WorkTyped
  BY TypeOKByCall DEF IInv
<1>2. Head(pool) \in Caller \X (Nat \ {0}) /\ Tail(pool) \in Seq(Caller \X (Nat \ {0}))
  BY <1>1, HeadTailProperties DEF Begin, WorkTyped
<1>3. WorkTyped'
  BY <1>1, <1>2 DEF Begin, WorkTyped
<1> QED BY <1>3, PoolStep DEF Begin

LEMMA EndStep ==
  ASSUME IInv, NEW f \in executing, End(f)
  PROVE  IInv'
<1>1. WorkTyped
  BY TypeOKByCall DEF IInv
<1>2. WorkTyped'
  BY <1>1 DEF End, WorkTyped
<1> QED BY <1>2, PoolStep DEF End

LEMMA InitIInv == Init => IInv
<1> SUFFICES ASSUME Init PROVE IInv
  OBVIOUS
<1>1. \A T : <<>> \in Seq(T)
  BY EmptySeq
<1>2. TypeOK
  BY <1>1, LimitType, CallablesAssumption DEF Init, TypeOK
<1>3. ASSUME NEW c \in Caller PROVE CallInv(c)
  <2>1. /\ next[c] = 1 /\ available[c] = Limit
        /\ tasks[c] = <<>> /\ todo[c] = <<>> /\ complete[c] = <<>> /\ submitted[c] = <<>>
    BY <1>3 DEF Init
  <2>2. pc[c] = IF N = 0 THEN "refill" ELSE "assign"
    BY <1>3 DEF Init
  <2>3. Size(<<>>) = 0 /\ Elems(<<>>) = {}
    BY DEF Size, Elems
  <2>4. CountInv(c)
    BY <2>1, <2>2, <2>3, LimitType, CallablesAssumption DEF CountInv
  <2>5. CoverInv(c)
    BY <2>1, <2>3 DEF CoverInv
  <2> QED BY <2>4, <2>5 DEF CallInv
<1> QED BY <1>2, <1>3 DEF IInv

LEMMA NextIInv == IInv /\ [Next]_vars => IInv'
<1> SUFFICES ASSUME IInv, [Next]_vars PROVE IInv'
  OBVIOUS
<1>1. ASSUME NEW c \in Caller, Step(c) PROVE IInv'
  BY <1>1, AssignStep, ScanStep, ScanEndStep, RefillStep, RefillEndStep, WaitStep, ReturnStep
     DEF Step
<1>2. ASSUME Begin PROVE IInv'
  BY <1>2, BeginStep
<1>3. ASSUME NEW f \in executing, End(f) PROVE IInv'
  BY <1>3, EndStep
<1>4. ASSUME UNCHANGED vars PROVE IInv'
  <2>1. UNCHANGED <<pc, locals>> /\ UNCHANGED <<pool, executing, done>>
    BY <1>4 DEF vars, work
  <2>2. WorkTyped'
    BY <2>1, TypeOKByCall DEF IInv, WorkTyped
  <2> QED BY <2>1, <2>2, PoolStep
<1> QED BY <1>1, <1>2, <1>3, <1>4 DEF Next

LEMMA Invariance == Spec => []IInv
<1> QED BY InitIInv, NextIInv, PTL DEF Spec

\* The counters and lists of processCallables() keep their shape; in particular
\* the loops never poll more futures than there are.
THEOREM TypeCorrect == Spec => []TypeOK
<1>1. IInv => TypeOK
  BY DEF IInv
<1> QED BY <1>1, Invariance, PTL

\* However the pool and the other calls interleave, a call of
\* processCallables() has at most nThreadsToUse unfinished callables.
THEOREM LimitKept == Spec => []WithinLimit
<1>1. IInv => WithinLimit
  <2> SUFFICES ASSUME IInv, NEW c \in Caller
               PROVE  /\ available[c] + Len(tasks[c]) = Limit
                      /\ Cardinality(Unfinished(c)) <= Limit
    BY DEF WithinLimit
  <2>1. ListsTyped(c) /\ NumbersTyped(c) /\ CountInv(c) /\ CoverInv(c)
    BY TypeOKByCall DEF IInv, CallTyped, CallInv
  <2>2. Unfinished(c) \in SUBSET Elems(tasks[c])
    <3>1. DOMAIN submitted[c] = 1 .. Size(submitted[c])
      BY <2>1 DEF ListsTyped, Size
    <3> QED BY <2>1, <3>1 DEF Unfinished, CoverInv
  <2>3. IsFiniteSet(Elems(tasks[c])) /\ Cardinality(Elems(tasks[c])) <= Size(tasks[c])
    BY <2>1, ElemsCardinality DEF ListsTyped
  <2>4. /\ Cardinality(Unfinished(c)) <= Cardinality(Elems(tasks[c]))
        /\ IsFiniteSet(Unfinished(c))
    BY <2>2, <2>3, FS_Subset
  <2>5. Cardinality(Unfinished(c)) \in Nat /\ Cardinality(Elems(tasks[c])) \in Nat
    BY <2>3, <2>4, FS_CardinalityType
  <2>6. available[c] + Size(tasks[c]) = Limit
    BY <2>1 DEF CountInv
  <2>7. Size(tasks[c]) <= Limit /\ Size(tasks[c]) \in Nat /\ Limit \in Nat
    BY <2>1, <2>6 DEF NumbersTyped
  <2>8. Cardinality(Unfinished(c)) <= Limit
    BY <2>3, <2>4, <2>5, <2>7
  <2> QED BY <2>6, <2>8 DEF Size
<1> QED BY <1>1, Invariance, PTL

\* When processCallables() returns, every callable has been executed, nothing
\* it started is unfinished, and the result has a place for each future.
THEOREM NothingLeftAtReturn == Spec => []CompleteAtReturn
<1>1. IInv => CompleteAtReturn
  <2> SUFFICES ASSUME IInv, NEW c \in Caller, pc[c] = "returned"
               PROVE  /\ \A i \in 1 .. N : \E k \in DOMAIN submitted[c] : submitted[c][k] = i
                      /\ Unfinished(c) = {}
                      /\ Len(complete[c]) = Len(submitted[c])
                      /\ \A k \in DOMAIN submitted[c] :
                           \E j \in DOMAIN complete[c] : complete[c][j] = k
    BY DEF CompleteAtReturn
  <2>1. ListsTyped(c) /\ NumbersTyped(c) /\ CountInv(c) /\ CoverInv(c)
    BY TypeOKByCall DEF IInv, CallTyped, CallInv
  <2>2. /\ DOMAIN submitted[c] = 1 .. Len(submitted[c])
        /\ DOMAIN complete[c] = 1 .. Len(complete[c])
    BY <2>1 DEF ListsTyped
  <2>3. next[c] = N + 1 /\ tasks[c] = <<>> /\ todo[c] = <<>>
    BY <2>1 DEF CountInv
  <2>4. Elems(tasks[c]) = {} /\ Elems(todo[c]) = {} /\ Size(tasks[c]) = 0
    BY <2>3 DEF Elems, Size
  <2>5. 1 .. N \subseteq Elems(submitted[c])
    BY <2>1, <2>3, <2>4 DEF CoverInv, NumbersTyped
  <2>6. 1 .. Len(submitted[c]) \subseteq Elems(complete[c])
    BY <2>1, <2>4 DEF CoverInv, Size
  <2>7. Size(complete[c]) = Size(submitted[c])
    BY <2>1, <2>4 DEF CountInv, NumbersTyped
  <2>8. \A i \in 1 .. N : \E k \in DOMAIN submitted[c] : submitted[c][k] = i
    BY <2>2, <2>5 DEF Elems
  <2>9. \A k \in DOMAIN submitted[c] : \E j \in DOMAIN complete[c] : complete[c][j] = k
    BY <2>2, <2>6 DEF Elems
  <2>10. Unfinished(c) = {}
    BY <2>1, <2>2, <2>6 DEF Unfinished, CoverInv
  <2> QED BY <2>7, <2>8, <2>9, <2>10 DEF Size
<1> QED BY <1>1, Invariance, PTL
=============================================================================
