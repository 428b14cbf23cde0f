----------------------- MODULE ApplicationServiceProofs -----------------------
(***************************************************************************)
(* Theorems about Application: whenever the thread is at rest, a control   *)
(* awaits an answer exactly if a validator works for its request, and the  *)
(* store of every bound control holds its value.                           *)
(*                                                                         *)
(* The layer Service is about what is owed: validations and store writes   *)
(* that are due stay on the agenda until they are done (Promised), and no  *)
(* two tasks of the agenda work for the same control (Exclusive).  It      *)
(* stands on the two layers of ApplicationProofs, IInv and Verdicts.       *)
(***************************************************************************)
EXTENDS ApplicationProofs

(* What is owed to controls and stores.  A validation or a store write that *)
(* a control is owed is on the agenda, above nothing that may throw without *)
(* a handler, and no other task of the agenda works for that control.       *)

\* The task itself writes v for n or, if v is no value, validates n.  A scheduled
\* validation may come to nothing, one that is Anew names a request.
Anew == -1

Does(task, n, v) ==
  IF v = NoVerdict THEN task.op \in {"schedule", "start", "launch"} /\ task.node = n
  ELSE IF v = Anew THEN task.op \in {"start", "launch"} /\ task.node = n
  ELSE task.op \in {"write", "perform"} /\ task.node = n /\ task.value = v

Pays(task, n, v) ==
  \/ Does(task, n, v)
  \/ task.op = "settle" /\ \E k \in 1..Len(task.work) : Does(task.work[k], n, v)

\* Tasks that do not throw while the application goes on undisturbed.
Safe(task) ==
  \/ task.op \in {"emit", "project", "observe", "contained", "rejecting", "drain", "settle",
                  "write", "perform", "schedule", "start", "launch"}
  \/ task.op = "execute" /\ task.command.type \in {"start", "cancel"}

\* No exception of p leaves p, none above the i-th task drops it.
Mild(p) == \A j \in 1..Len(p) : Safe(p[j]) \/ \E c \in (j + 1)..Len(p) : p[c].op = "contained"
Kept(s, i) == \A j \in 1..(i - 1) : Safe(s[j]) \/ \E c \in (j + 1)..(i - 1) : s[c].op = "contained"

Promised(s, n, v) == \E i \in 1..Len(s) : Pays(s[i], n, v) /\ Kept(s, i)

\* The thread works for n (Busy), or will do something about n.
Claims(task, n) ==
  \/ task.op \in {"start", "launch", "write", "perform"} /\ task.node = n
  \/ task.op = "settle" /\ \E k \in 1..Len(task.work) : task.work[k].op = "write" /\ task.work[k].node = n

Touches(task, n) ==
  \/ task.op \in {"start", "launch", "write", "perform", "schedule"} /\ task.node = n
  \/ task.op = "settle" /\ \E k \in 1..Len(task.work) : task.work[k].node = n
  \/ task.op = "execute" /\ task.command.node = n

\* The command that a validation executes, and the rest of that validation.
Helps(upper, lower) ==
  /\ upper.op = "execute"
  /\ \/ upper.command.type = "start" /\ lower.op = "launch"
     \/ upper.command.type = "cancel" /\ lower.op = "start"

Separate(s, i, j) ==
  \/ \A n \in Nodes : ~(Claims(s[i], n) /\ Touches(s[j], n))
  \/ j = 1 /\ i = 2 /\ Helps(s[1], s[2])

Exclusive(s) == \A i, j \in 1..Len(s) : j < i => Separate(s, i, j)

Idle(s) == \A i \in 1..Len(s) : \A n \in Nodes : ~Claims(s[i], n)

\* Commands of validations are executed at once, store writes come first.
Inner(task) == task.op = "execute" /\ task.command.type # "value"
Neat(task) ==
  task.op = "settle" => \A k \in 1..Len(task.work) : task.work[k].op = "write" => k = 1

Staging == Preparing \cup {"update"}

Disciplined(s) ==
  /\ \A i \in 1..Len(s) : Neat(s[i])
  /\ \A i \in 1..Len(s) : Inner(s[i]) => i = 1

Discipline ==
  /\ Disciplined(agenda)
  /\ ~overlapped => Exclusive(agenda) /\ ((\E op \in Staging : At(op)) => Idle(agenda))

\* Requests in progress, or about to be, are remembered and have one control each.
Registered ==
  lifecycle = "active" =>
    /\ \A n \in Nodes : active[n] # NoRequest => active[n] \in contexts /\ n \in Validated
    /\ \A n, m \in Nodes : active[n] = active[m] /\ n # m => active[n] = NoRequest
    /\ \A i \in 1..Len(agenda) : agenda[i].op = "launch" =>
         agenda[i].request \in contexts /\ \A n \in Nodes : active[n] # agenda[i].request

\* The next task names a new request to the control n.
Naming(n) == At("execute") /\ Task.command.type = "start" /\ Task.command.node = n

\* A task works for a control that is there, for its request and with its value.
Sound(task) ==
  /\ task.op \in {"start", "launch"} => task.node \in DOMAIN nodes
  /\ task.op = "launch" =>
       task.request = IF Naming(task.node) THEN Task.command.request ELSE nodes[task.node].request
  /\ ~unavailable => \A n \in Nodes, v \in Values :
       Pays(task, n, v) => n \in DOMAIN nodes /\ nodes[n].value = v

CommandSound ==
  At("execute") /\ Task.command.type # "value" =>
    /\ Task.command.node \in DOMAIN nodes
    /\ IF Task.command.type = "start" THEN Promised(agenda, Task.command.node, Anew)
       ELSE active[Task.command.node] = NoRequest

\* The next task takes from the control n the request it waits for.
Resolving(graph, n) ==
  At("execute") /\ Task.command.type \in {"resolve", "cancel"} /\ Task.command.node = n
    /\ Task.command.request = graph[n].request

\* What a control is owed whose request is not the one in progress.
Debt(control) == IF control.request = NoRequest THEN NoVerdict ELSE Anew

\* A control waits for the validation that is in progress, or a new one is due.
Answering(graph) ==
  \A n \in Nodes :
    IF n \in DOMAIN graph
    THEN active[n] = graph[n].request \/ Promised(agenda, n, Debt(graph[n])) \/ Resolving(graph, n)
    ELSE active[n] = NoRequest

\* A store holds the value of its control, or a write of that value is due.
Stored(graph) ==
  \A n \in Bound \cap DOMAIN graph :
    adapter[n] = graph[n].value \/ Promised(agenda, n, graph[n].value)

Going == throws = 0 /\ ~overlapped /\ lifecycle = "active"

Serving ==
  IF savepoint = None
  THEN /\ \A i \in 1..Len(agenda) : Sound(agenda[i])
       /\ CommandSound
       /\ Answering(nodes)
       /\ ~unavailable => Stored(nodes)
  ELSE /\ Answering(savepoint.nodes)
       /\ ~At("giveUp") => \A n \in DOMAIN nodes : nodes[n].request = NoRequest
       /\ ~unavailable => Stored(nodes) /\ Stored(savepoint.nodes)

Service == Discipline /\ Registered /\ (Going => Serving)
LEMMA KeptRest ==
  ASSUME NEW s, NEW t, NEW h, NEW k, Len(s) \in Nat, Rest(s, t, h, k),
         NEW i \in (h + 1)..Len(s), Kept(s, i),
         \/ \E c \in (h + 1)..(i - 1) : s[c].op = "contained"
         \/ \A j \in 1..k : Safe(t[j]) \/ \E c \in (j + 1)..k : t[c].op = "contained"
  PROVE  (i - h) + k \in 1..Len(t) /\ t[(i - h) + k] = s[i] /\ Kept(t, (i - h) + k)
<1>1. h \in 0..Len(s) /\ k \in Nat /\ Len(t) = k + (Len(s) - h)
  BY DEF Rest
<1> DEFINE e(c) == (c - h) + k
           d(j) == (j - k) + h
<1>2. e(i) \in 1..Len(t) /\ t[e(i)] = s[i]
  <2>1. i \in Int /\ h + 1 <= i /\ i <= Len(s) /\ h \in Nat /\ k \in Nat
    BY <1>1
  <2>2. e(i) \in 1..Len(t)
    BY <1>1, <2>1
  <2>3. t[e(i)] = s[i]
    BY DEF Rest
  <2> QED
    BY <2>2, <2>3
<1>3. \A c \in (h + 1)..(i - 1) : t[e(c)] = s[c] /\ e(c) \in (k + 1)..(e(i) - 1)
  BY <1>1 DEF Rest
<1>4. \A j \in (k + 1)..(e(i) - 1) : t[j] = s[d(j)] /\ d(j) \in (h + 1)..(i - 1)
  <2> SUFFICES ASSUME NEW j \in (k + 1)..(e(i) - 1)
               PROVE  t[j] = s[d(j)] /\ d(j) \in (h + 1)..(i - 1)
    OBVIOUS
  <2>1. i \in Int /\ h \in Nat /\ k \in Nat /\ j \in Int /\ i <= Len(s)
    BY <1>1
  <2>2. k + 1 <= j /\ j + 1 <= (i - h) + k
    BY <2>1
  <2>3. j \in (k + 1)..Len(t) /\ d(j) \in (h + 1)..(i - 1)
    BY <1>1, <2>1, <2>2
  <2> QED
    BY <2>3 DEF Rest
<1>5. \A j \in (k + 1)..(e(i) - 1) : \A c \in (d(j) + 1)..(i - 1) :
        c \in (h + 1)..(i - 1) /\ e(c) \in (j + 1)..(e(i) - 1)
  <2> SUFFICES ASSUME NEW j \in (k + 1)..(e(i) - 1), NEW c \in (d(j) + 1)..(i - 1)
               PROVE  c \in (h + 1)..(i - 1) /\ e(c) \in (j + 1)..(e(i) - 1)
    OBVIOUS
  <2>1. i \in Int /\ h \in Int /\ k \in Int /\ j \in Int /\ c \in Int
    BY <1>1
  <2>2. k + 1 <= j /\ (j - k) + (h + 1) <= c /\ c + 1 <= i
    BY <2>1
  <2>3. h + 1 <= c /\ j + 1 <= (c - h) + k /\ (c - h) + k + 1 <= (i - h) + k
    BY <2>1, <2>2
  <2> QED
    BY <2>1, <2>2, <2>3
<1>6. e(i) \in Nat /\ k + 1 <= e(i)
  BY <1>1
<1> HIDE DEF e, d
<1>7. ASSUME NEW j \in 1..(e(i) - 1)
      PROVE  Safe(t[j]) \/ \E c \in (j + 1)..(e(i) - 1) : t[c].op = "contained"
  <2>1. CASE j <= k
    <3>1. CASE \E c \in (h + 1)..(i - 1) : s[c].op = "contained"
      <4>1. PICK c \in (h + 1)..(i - 1) : s[c].op = "contained"
        BY <3>1
      <4>2. e(c) \in (k + 1)..(e(i) - 1) /\ t[e(c)].op = "contained"
        BY <1>3, <4>1
      <4>3. e(c) \in (j + 1)..(e(i) - 1)
        BY <1>1, <1>6, <2>1, <4>2
      <4> QED
        BY <4>2, <4>3
    <3>2. CASE \A m \in 1..k : Safe(t[m]) \/ \E c \in (m + 1)..k : t[c].op = "contained"
      <4>1. j \in 1..k
        BY <1>1, <2>1
      <4>2. Safe(t[j]) \/ \E c \in (j + 1)..k : t[c].op = "contained"
        BY <3>2, <4>1
      <4>3. \A c \in (j + 1)..k : c \in (j + 1)..(e(i) - 1)
        BY <1>1, <1>6
      <4> QED
        BY <4>2, <4>3
    <3> QED
      BY <3>1, <3>2
  <2>2. CASE ~(j <= k)
    <3>1. j \in (k + 1)..(e(i) - 1)
      BY <1>1, <1>6, <2>2
    <3>2. t[j] = s[d(j)] /\ d(j) \in (h + 1)..(i - 1)
      BY <1>4, <3>1
    <3>3. d(j) \in 1..(i - 1)
      BY <1>1, <3>2
    <3>4. Safe(s[d(j)]) \/ \E c \in (d(j) + 1)..(i - 1) : s[c].op = "contained"
      BY <3>3 DEF Kept
    <3>5. ASSUME NEW c \in (d(j) + 1)..(i - 1), s[c].op = "contained"
          PROVE  \E b \in (j + 1)..(e(i) - 1) : t[b].op = "contained"
      BY <1>3, <1>5, <3>1, <3>5
    <3> QED
      BY <3>2, <3>4, <3>5
  <2> QED
    BY <2>1, <2>2
<1>8. Kept(t, e(i))
  BY <1>7 DEF Kept
<1> QED
  BY <1>2, <1>8 DEF e

LEMMA PromisedRest ==
  ASSUME NEW s, NEW t, NEW h, NEW k, NEW n, NEW v, Len(s) \in Nat, Rest(s, t, h, k), Promised(s, n, v),
         \A i \in 1..Len(s) : Pays(s[i], n, v) /\ Kept(s, i) =>
           /\ i > h
           /\ \/ \E c \in (h + 1)..(i - 1) : s[c].op = "contained"
              \/ \A j \in 1..k : Safe(t[j]) \/ \E c \in (j + 1)..k : t[c].op = "contained"
  PROVE  Promised(t, n, v)
<1>1. PICK i \in 1..Len(s) : Pays(s[i], n, v) /\ Kept(s, i)
  BY DEF Promised
<1>2. h \in Nat
  BY DEF Rest
<1>3. i \in (h + 1)..Len(s)
  BY <1>1, <1>2
<1>4. \/ \E c \in (h + 1)..(i - 1) : s[c].op = "contained"
      \/ \A j \in 1..k : Safe(t[j]) \/ \E c \in (j + 1)..k : t[c].op = "contained"
  BY <1>1
<1>5. (i - h) + k \in 1..Len(t) /\ t[(i - h) + k] = s[i] /\ Kept(t, (i - h) + k)
  BY <1>1, <1>3, <1>4, KeptRest
<1> QED
  BY <1>1, <1>5 DEF Promised

(* A task that may throw is above a shield of whatever is owed.             *)
LEMMA KeptBelow ==
  ASSUME NEW s, NEW i \in 1..Len(s), Len(s) \in Nat, NEW n, NEW v, Pays(s[i], n, v), Kept(s, i),
         ~Pays(s[1], n, v)
  PROVE  i > 1 /\ (Safe(s[1]) \/ \E c \in 2..(i - 1) : s[c].op = "contained")
<1>1. i > 1
  BY DEF Pays
<1>2. 1 \in 1..(i - 1)
  BY <1>1
<1> QED
  BY <1>1, <1>2 DEF Kept

LEMMA PromisedPush ==
  ASSUME NEW s, NEW p, NEW n, NEW v, IsStack(s), IsStack(p), s # << >>, Promised(s, n, v),
         ~Pays(s[1], n, v), ~Safe(s[1]) \/ Mild(p)
  PROVE  Promised(p \o Tail(s), n, v)
<1> DEFINE t == p \o Tail(s)
           k == Len(p)
<1>1. Rest(s, t, 1, k) /\ \A i \in 1..k : t[i] = p[i]
  BY Pushing
<1>2. Len(s) \in Nat /\ k \in Nat
  BY StackFacts
<1> HIDE DEF t
<1>3. ASSUME NEW i \in 1..Len(s), Pays(s[i], n, v), Kept(s, i)
      PROVE  /\ i > 1
             /\ \/ \E c \in (1 + 1)..(i - 1) : s[c].op = "contained"
                \/ \A j \in 1..k : Safe(t[j]) \/ \E c \in (j + 1)..k : t[c].op = "contained"
  <2>1. i > 1 /\ (Safe(s[1]) \/ \E c \in 2..(i - 1) : s[c].op = "contained")
    BY <1>2, <1>3, KeptBelow
  <2>2. ASSUME Mild(p)
        PROVE  \A j \in 1..k : Safe(t[j]) \/ \E c \in (j + 1)..k : t[c].op = "contained"
    <3>1. \A j \in 1..k : \A c \in (j + 1)..k : c \in 1..k
      BY <1>2
    <3> QED
      BY <1>1, <2>2, <3>1 DEF Mild
  <2> QED
    BY <2>1, <2>2
<1>4. Promised(t, n, v)
  BY <1>1, <1>2, <1>3, PromisedRest
<1> QED
  BY <1>4 DEF t

LEMMA PromisedPrepend ==
  ASSUME NEW s, NEW p, NEW n, NEW v, IsStack(s), IsStack(p), Promised(s, n, v), ~Pays(s[1], n, v), ~Safe(s[1])
  PROVE  Promised(p \o s, n, v)
<1> DEFINE t == p \o s
           k == Len(p)
<1>1. Rest(s, t, 0, k)
  BY Prepending
<1>2. Len(s) \in Nat
  BY StackFacts
<1> HIDE DEF t
<1>3. ASSUME NEW i \in 1..Len(s), Pays(s[i], n, v), Kept(s, i)
      PROVE  i > 0 /\ \E c \in (0 + 1)..(i - 1) : s[c].op = "contained"
  <2>1. i > 1 /\ \E c \in 2..(i - 1) : s[c].op = "contained"
    BY <1>2, <1>3, KeptBelow
  <2> QED
    BY <2>1
<1>4. Promised(t, n, v)
  BY <1>1, <1>2, <1>3, PromisedRest
<1> QED
  BY <1>4 DEF t

LEMMA PromisedAbove ==
  ASSUME NEW p, NEW q, NEW n, NEW v, IsStack(p), IsStack(q), Promised(p, n, v)
  PROVE  Promised(p \o q, n, v)
<1> DEFINE t == p \o q
<1>1. /\ Len(t) = Len(p) + Len(q) /\ Len(p) \in Nat /\ Len(q) \in Nat
      /\ \A i \in 1..Len(p) : t[i] = p[i]
  BY JoinedStack, StackFacts
<1> HIDE DEF t
<1>2. PICK i \in 1..Len(p) : Pays(p[i], n, v) /\ Kept(p, i)
  BY DEF Promised
<1>3. \A j \in 1..i : j \in 1..Len(p)
  BY <1>1
<1>4. i \in 1..Len(t) /\ \A j \in 1..(i - 1) : j \in 1..i
  BY <1>1
<1>5. \A j \in 1..(i - 1) : \A c \in (j + 1)..(i - 1) : c \in 1..i
  BY <1>1
<1>6. Kept(t, i)
  BY <1>1, <1>2, <1>3, <1>4, <1>5 DEF Kept
<1>7. Promised(t, n, v)
  BY <1>1, <1>2, <1>4, <1>6 DEF Promised
<1> QED
  BY <1>7 DEF t

LEMMA PromisedBelow ==
  ASSUME NEW p, NEW q, NEW n, NEW v, IsStack(p), IsStack(q), \A i \in 1..Len(p) : Safe(p[i]), Promised(q, n, v)
  PROVE  Promised(p \o q, n, v)
<1> DEFINE t == p \o q
           k == Len(p)
<1>1. Rest(q, t, 0, k) /\ \A i \in 1..k : t[i] = p[i]
  BY Prepending
<1>2. Len(q) \in Nat
  BY StackFacts
<1> HIDE DEF t
<1>3. \A i \in 1..Len(q) : i > 0
  OBVIOUS
<1>4. \A j \in 1..k : Safe(t[j])
  BY <1>1
<1>5. Promised(t, n, v)
  BY <1>1, <1>2, <1>3, <1>4, PromisedRest
<1> QED
  BY <1>5 DEF t

LEMMA PromisedUnwound ==
  ASSUME NEW s, NEW t, NEW h, NEW k, NEW n, NEW v, IsStack(s), UnwoundTo(s, t, h, k), Promised(s, n, v),
         ~Pays(s[1], n, v), ~Safe(s[1])
  PROVE  Promised(t, n, v)
<1>1. /\ Len(s) \in Nat /\ Rest(s, t, h, k) /\ h \in 1..Len(s)
      /\ \A j \in 2..(h - 1) : s[j].op \notin {"contained", "rejecting"}
  BY StackFacts DEF UnwoundTo
<1>2. ASSUME NEW i \in 1..Len(s), Pays(s[i], n, v), Kept(s, i)
      PROVE  /\ i > h
             /\ \/ \E c \in (h + 1)..(i - 1) : s[c].op = "contained"
                \/ \A j \in 1..k : Safe(t[j]) \/ \E c \in (j + 1)..k : t[c].op = "contained"
  <2>1. PICK c \in 2..(i - 1) : s[c].op = "contained"
    BY <1>1, <1>2, KeptBelow
  <2>2. c >= h
    BY <1>1, <2>1
  <2>3. i > h
    BY <1>1, <2>1, <2>2
  <2>4. CASE c > h
    <3>1. c \in (h + 1)..(i - 1)
      BY <1>1, <2>1, <2>4
    <3> QED
      BY <2>1, <2>3, <3>1
  <2>5. CASE c = h
    <3>1. h \in 2..h
      BY <1>1, <2>1, <2>5
    <3>2. k = 0
      BY <2>1, <2>5, <3>1 DEF UnwoundTo
    <3>3. \A j \in 1..k : FALSE
      BY <3>2
    <3> QED
      BY <2>3, <3>3
  <2> QED
    BY <1>1, <2>1, <2>2, <2>4, <2>5
<1> QED
  BY <1>1, <1>2, PromisedRest
(* Discipline.                                                              *)

\* Tasks that work for no control.
Meek(task) ==
  task.op \notin {"execute", "settle", "schedule", "start", "launch", "write", "perform"}

LEMMA MeekFacts ==
  ASSUME NEW task, Meek(task)
  PROVE  /\ Neat(task) /\ ~Inner(task)
         /\ \A n : ~Claims(task, n) /\ ~Touches(task, n) /\ \A v : ~Pays(task, n, v)
BY DEF Meek, Neat, Inner, Claims, Touches, Pays, Does

LEMMA ClaimsTouch ==
  ASSUME NEW task, NEW n, Claims(task, n)
  PROVE  Touches(task, n)
BY DEF Claims, Touches

(* Where the tasks of a replaced agenda come from.                          *)
LEMMA RestIndex ==
  ASSUME NEW s, NEW t, NEW h, NEW k, Len(s) \in Nat, Rest(s, t, h, k)
  PROVE  /\ h \in Nat /\ k \in Nat /\ Len(t) \in Nat
         /\ \A j \in 1..Len(t) :
              j \notin 1..k => /\ t[j] = s[(j - k) + h] /\ (j - k) + h \in (h + 1)..Len(s)
                               /\ (j - k) + h \in 1..Len(s) /\ j > k
<1>1. h \in 0..Len(s) /\ k \in Nat /\ Len(t) = k + (Len(s) - h)
  BY DEF Rest
<1>2. Len(t) \in Nat /\ h \in Nat
  BY <1>1
<1>3. ASSUME NEW j \in 1..Len(t), j \notin 1..k
      PROVE  /\ t[j] = s[(j - k) + h] /\ (j - k) + h \in (h + 1)..Len(s)
             /\ (j - k) + h \in 1..Len(s) /\ j > k
  <2>1. j \in (k + 1)..Len(t)
    BY <1>1, <1>3
  <2>2. t[j] = s[(j - k) + h]
    BY <2>1 DEF Rest
  <2> QED
    BY <1>1, <2>1, <2>2
<1> QED
  BY <1>1, <1>2, <1>3

LEMMA ExclusiveRest ==
  ASSUME NEW s, NEW t, NEW h, NEW k, Len(s) \in Nat, Rest(s, t, h, k), Exclusive(s),
         h = 0 => s[1].op # "execute",
         \A i, j \in 1..k : j < i => Separate(t, i, j),
         \A j \in 1..k : \A i \in (h + 1)..Len(s) : \A n \in Nodes : ~(Claims(s[i], n) /\ Touches(t[j], n))
  PROVE  Exclusive(t)
<1> DEFINE d(j) == (j - k) + h
<1>1. /\ h \in Nat /\ k \in Nat /\ Len(t) \in Nat
      /\ \A j \in 1..Len(t) :
           j \notin 1..k => t[j] = s[d(j)] /\ d(j) \in (h + 1)..Len(s) /\ d(j) \in 1..Len(s) /\ j > k
  BY RestIndex
<1>2. \A i, j \in 1..Len(t) : j < i => d(j) < d(i)
  BY <1>1
<1>3. \A j \in 1..Len(t) : d(j) = 1 /\ j > k => h = 0
  BY <1>1
<1> HIDE DEF d
<1> SUFFICES ASSUME NEW i \in 1..Len(t), NEW j \in 1..Len(t), j < i PROVE Separate(t, i, j)
  BY DEF Exclusive
<1>4. CASE i \in 1..k
  <2>1. j \in 1..k
    BY <1>1, <1>4
  <2> QED
    BY <1>4, <2>1
<1>5. CASE i \notin 1..k /\ j \in 1..k
  <2>1. t[i] = s[d(i)] /\ d(i) \in (h + 1)..Len(s)
    BY <1>1, <1>5
  <2> QED
    BY <1>5, <2>1 DEF Separate
<1>6. CASE i \notin 1..k /\ j \notin 1..k
  <2>1. /\ t[i] = s[d(i)] /\ d(i) \in 1..Len(s) /\ t[j] = s[d(j)] /\ d(j) \in 1..Len(s) /\ j > k
    BY <1>1, <1>6
  <2>2. Separate(s, d(i), d(j))
    BY <1>2, <2>1 DEF Exclusive
  <2>3. ~(d(j) = 1 /\ Helps(s[1], s[2]))
    BY <1>3, <2>1 DEF Helps
  <2>4. \A n \in Nodes : ~(Claims(t[i], n) /\ Touches(t[j], n))
    BY <2>1, <2>2, <2>3 DEF Separate
  <2> QED
    BY <2>4 DEF Separate
<1> QED
  BY <1>4, <1>5, <1>6

LEMMA IdleRest ==
  ASSUME NEW s, NEW t, NEW h, NEW k, Len(s) \in Nat, Rest(s, t, h, k),
         \A i \in (h + 1)..Len(s) : \A n \in Nodes : ~Claims(s[i], n),
         \A i \in 1..k : \A n \in Nodes : ~Claims(t[i], n)
  PROVE  Idle(t)
BY RestIndex DEF Idle

LEMMA DisciplinedRest ==
  ASSUME NEW s, NEW t, NEW h, NEW k, Len(s) \in Nat, Rest(s, t, h, k), Disciplined(s),
         h = 0 => ~Inner(s[1]),
         \A i \in 1..k : Neat(t[i]) /\ (Inner(t[i]) => i = 1)
  PROVE  Disciplined(t)
<1> SUFFICES ASSUME NEW i \in 1..Len(t) PROVE Neat(t[i]) /\ (Inner(t[i]) => i = 1)
  BY DEF Disciplined
<1>1. CASE i \in 1..k
  BY <1>1
<1>2. CASE i \notin 1..k
  <2> DEFINE d == (i - k) + h
  <2>1. t[i] = s[d] /\ d \in (h + 1)..Len(s) /\ d \in 1..Len(s) /\ h \in Nat
    BY <1>2, RestIndex
  <2>2. d = 1 => h = 0
    BY <2>1
  <2> HIDE DEF d
  <2> QED
    BY <2>1, <2>2 DEF Disciplined
<1> QED
  BY <1>1, <1>2

\* No task below the first one works for a control that p is about.
Apart(p) ==
  \A j \in 1..Len(p) : \A i \in 2..Len(agenda) : \A n \in Nodes :
    ~(Claims(agenda[i], n) /\ Touches(p[j], n))

\* No task below the first one works for any control.
IdleBelow == \A i \in 2..Len(agenda) : \A n \in Nodes : ~Claims(agenda[i], n)

LEMMA IdleApart ==
  ASSUME NEW p, IdleBelow
  PROVE  Apart(p)
BY DEF IdleBelow, Apart

LEMMA NotStaged ==
  ASSUME NEW s, IsStack(s), s # << >>, s[1].op \notin Staging
  PROVE  \A op \in Staging : Head(s).op # op
BY StackFacts DEF Staging

LEMMA DoDiscipline ==
  ASSUME IInv, Discipline, agenda # << >>, ~overlapped' => ~overlapped,
         NEW p, IsStack(p), Do(p), Disciplined(p),
         ~overlapped' => Exclusive(p) /\ Apart(p),
         \/ Len(p) >= 1 => p[1].op \notin Staging
         \/ ~overlapped' => Idle(p) /\ IdleBelow
  PROVE  Discipline'
<1> DEFINE t == p \o Tail(agenda)
           k == Len(p)
<1>1. /\ IsStack(agenda) /\ Len(agenda) \in Nat /\ Ordered(agenda) /\ k \in Nat
  BY AgendaStack, StackFacts DEF IInv, AgendaOK
<1>2. IsStack(t) /\ Rest(agenda, t, 1, k) /\ \A i \in 1..k : t[i] = p[i]
  BY <1>1, Pushing
<1>3. agenda' = t
  BY DEF Do
<1> HIDE DEF t
<1>4. Disciplined(t)
  <2>1. \A i \in 1..k : Neat(t[i]) /\ (Inner(t[i]) => i = 1)
    BY <1>2 DEF Disciplined
  <2>2. Disciplined(agenda)
    BY DEF Discipline
  <2> QED
    BY <1>1, <1>2, <2>1, <2>2, DisciplinedRest
<1>5. ASSUME ~overlapped'
      PROVE  Exclusive(t)
  <2>1. Exclusive(agenda) /\ Exclusive(p) /\ Apart(p)
    BY <1>5 DEF Discipline
  <2>2. \A i, j \in 1..k : j < i => Separate(t, i, j)
    <3> SUFFICES ASSUME NEW i \in 1..k, NEW j \in 1..k, j < i PROVE Separate(t, i, j)
      OBVIOUS
    <3>1. Separate(p, i, j)
      BY <2>1 DEF Exclusive
    <3>2. j = 1 /\ i = 2 => 1 \in 1..k /\ 2 \in 1..k
      OBVIOUS
    <3> QED
      BY <1>2, <3>1, <3>2 DEF Separate
  <2>3. \A j \in 1..k : \A i \in (1 + 1)..Len(agenda) : \A n \in Nodes :
          ~(Claims(agenda[i], n) /\ Touches(t[j], n))
    BY <1>2, <2>1 DEF Apart
  <2> QED
    BY <1>1, <1>2, <2>1, <2>2, <2>3, ExclusiveRest
<1>6. ASSUME ~overlapped', NEW op \in Staging, At(op)'
      PROVE  Idle(t)
  <2>1. t # << >> /\ Head(t).op = op
    BY <1>3, <1>6 DEF At, Task
  <2>2. Len(t) \in Nat /\ Len(t) >= 1 /\ t[1].op = op
    BY <1>2, <2>1, StackFacts
  <2>3. CASE k >= 1 /\ p[1].op \notin Staging
    BY <1>2, <1>6, <2>2, <2>3
  <2>4. CASE k = 0
    <3>1. t[1] = agenda[2] /\ Len(agenda) >= 2
      BY <1>1, <1>2, <2>2, <2>4 DEF Rest
    <3>2. Above(agenda[1], agenda[2])
      BY <1>1, <3>1, OrderedNext
    <3> QED
      BY <2>2, <3>1, <3>2, <1>6 DEF Above, HeadOnly, Staging
  <2>5. CASE Idle(p) /\ IdleBelow
    <3>1. \A i \in (1 + 1)..Len(agenda) : \A n \in Nodes : ~Claims(agenda[i], n)
      BY <2>5 DEF IdleBelow
    <3>2. \A i \in 1..k : \A n \in Nodes : ~Claims(t[i], n)
      BY <1>2, <2>5 DEF Idle
    <3> QED
      BY <1>1, <1>2, <3>1, <3>2, IdleRest
  <2>6. k >= 1 \/ k = 0
    BY <1>1
  <2> QED
    BY <1>6, <2>3, <2>4, <2>5, <2>6
<1> QED
  BY <1>3, <1>4, <1>5, <1>6 DEF Discipline

LEMMA MeekStack ==
  ASSUME NEW p, \A i \in 1..Len(p) : Meek(p[i])
  PROVE  Disciplined(p) /\ Exclusive(p) /\ Apart(p) /\ Idle(p)
<1>1. \A i \in 1..Len(p) : /\ Neat(p[i]) /\ ~Inner(p[i])
                           /\ \A n \in Nodes : ~Claims(p[i], n) /\ ~Touches(p[i], n)
  BY MeekFacts
<1>2. \A i, j \in 1..Len(p) : Separate(p, i, j)
  BY <1>1 DEF Separate
<1> QED
  BY <1>1, <1>2 DEF Disciplined, Exclusive, Apart, Idle

LEMMA MeekDiscipline ==
  ASSUME IInv, Discipline, agenda # << >>, ~overlapped' => ~overlapped, NEW p, IsStack(p), Do(p),
         \A i \in 1..Len(p) : Meek(p[i]),
         \/ Len(p) >= 1 => p[1].op \notin Staging
         \/ ~overlapped' => IdleBelow
  PROVE  Discipline'
BY MeekStack, DoDiscipline

LEMMA ThrowDiscipline ==
  ASSUME IInv, Discipline, agenda # << >>, ~overlapped' => ~overlapped, Throw
  PROVE  Discipline'
<1>1. IsStack(agenda) /\ Len(agenda) \in Nat /\ Ordered(agenda)
  BY AgendaStack DEF IInv, AgendaOK
<1> DEFINE t == agenda'
<1>2. PICK h \in Nat, k \in Nat : UnwoundTo(agenda, t, h, k)
  BY <1>1, UnwoundShape DEF Throw
<1>3. /\ IsStack(t) /\ Rest(agenda, t, h, k) /\ h \in 1..Len(agenda)
      /\ k = 0 \/ (k = 2 /\ t[1] = Emit("rejected", {}, revision) /\ t[2] = [op |-> "throw"])
  BY <1>2 DEF UnwoundTo
<1> HIDE DEF t
<1>4. \A i \in 1..k : Meek(t[i])
  <2>1. Meek(Emit("rejected", {}, revision)) /\ Meek([op |-> "throw"])
    BY DEF Meek, Emit
  <2>2. \A i \in 1..2 : i = 1 \/ i = 2
    OBVIOUS
  <2>3. \A i \in 1..0 : FALSE
    OBVIOUS
  <2> QED
    BY <1>3, <2>1, <2>2, <2>3
<1>5. /\ \A i \in 1..k : Neat(t[i]) /\ ~Inner(t[i])
      /\ \A i \in 1..k : \A n \in Nodes : ~Claims(t[i], n) /\ ~Touches(t[i], n)
  BY <1>4, MeekFacts
<1>6. h # 0
  BY <1>3
<1>7. Disciplined(t)
  BY <1>1, <1>3, <1>5, <1>6, DisciplinedRest DEF Discipline
<1>8. ~overlapped' => Exclusive(t)
  <2>1. \A i, j \in 1..k : Separate(t, i, j)
    BY <1>5 DEF Separate
  <2> QED
    BY <1>1, <1>3, <1>5, <1>6, <2>1, ExclusiveRest DEF Discipline
<1>9. \A op \in Staging : ~At(op)'
  <2> SUFFICES ASSUME NEW op \in Staging, At(op)' PROVE FALSE
    OBVIOUS
  <2>1. t # << >> /\ Head(t).op = op
    BY DEF At, Task, t
  <2>2. Len(t) \in Nat /\ Len(t) >= 1 /\ t[1].op = op
    BY <1>3, <2>1, StackFacts
  <2>3. CASE k = 0
    <3>1. t[1] = agenda[h + 1] /\ h \in 1..(Len(agenda) - 1)
      BY <1>1, <1>3, <2>2, <2>3 DEF Rest
    <3>2. Above(agenda[h], agenda[h + 1])
      BY <1>1, <3>1 DEF Ordered
    <3> QED
      BY <2>2, <3>1, <3>2 DEF Above, HeadOnly, Staging
  <2>4. CASE k = 2 /\ t[1] = Emit("rejected", {}, revision)
    BY <2>2, <2>4 DEF Emit, Staging, Preparing
  <2> QED
    BY <1>3, <2>3, <2>4
<1> QED
  BY <1>7, <1>8, <1>9 DEF Discipline, t
(* Discipline, step by step.                                                *)

LEMMA PopDiscipline ==
  ASSUME IInv, Discipline, agenda # << >>, ~overlapped' => ~overlapped, Do(<< >>)
  PROVE  Discipline'
<1> DEFINE p == << >>
<1>1. IsStack(p) /\ Len(p) = 0 /\ Do(p)
  BY EmptyStack
<1> HIDE DEF p
<1>2. \A i \in 1..Len(p) : Meek(p[i])
  BY <1>1
<1>3. Len(p) >= 1 => p[1].op \notin Staging
  BY <1>1
<1> QED
  BY <1>1, <1>2, <1>3, MeekDiscipline

LEMMA PairDiscipline ==
  ASSUME IInv, Discipline, agenda # << >>, ~overlapped' => ~overlapped, NEW x, NEW y, Do(<<x, y>>),
         Neat(x), Neat(y), ~Inner(y), x.op \notin Staging,
         ~overlapped' =>
           /\ (\A n \in Nodes : ~(Claims(y, n) /\ Touches(x, n))) \/ Helps(x, y)
           /\ \A i \in 2..Len(agenda) : \A n \in Nodes :
                Claims(agenda[i], n) => ~Touches(x, n) /\ ~Touches(y, n)
  PROVE  Discipline'
<1> DEFINE p == <<x, y>>
<1>1. IsStack(p) /\ Len(p) = 2 /\ p[1] = x /\ p[2] = y /\ Do(p)
  BY StackOfTwo
<1> HIDE DEF p
<1>2. \A i \in 1..2 : i = 1 \/ i = 2
  OBVIOUS
<1>3. Disciplined(p)
  BY <1>1, <1>2 DEF Disciplined
<1>4. ASSUME ~overlapped'
      PROVE  Exclusive(p) /\ Apart(p)
  <2>1. Separate(p, 2, 1)
    BY <1>1, <1>4 DEF Separate
  <2>2. \A i, j \in 1..2 : j < i => i = 2 /\ j = 1
    OBVIOUS
  <2>3. Exclusive(p)
    BY <1>1, <2>1, <2>2 DEF Exclusive
  <2>4. Apart(p)
    BY <1>1, <1>2, <1>4 DEF Apart
  <2> QED
    BY <2>3, <2>4
<1>5. Len(p) >= 1 => p[1].op \notin Staging
  BY <1>1
<1> QED
  BY <1>1, <1>3, <1>4, <1>5, DoDiscipline

LEMMA SoloDiscipline ==
  ASSUME IInv, Discipline, agenda # << >>, ~overlapped' => ~overlapped, NEW x, Do(<<x>>),
         Neat(x), x.op \notin Staging,
         ~overlapped' => \A i \in 2..Len(agenda) : \A n \in Nodes : ~(Claims(agenda[i], n) /\ Touches(x, n))
  PROVE  Discipline'
<1> DEFINE p == <<x>>
<1>1. IsStack(p) /\ Len(p) = 1 /\ p[1] = x /\ Do(p)
  BY StackOfOne
<1> HIDE DEF p
<1>2. \A i \in 1..1 : i = 1
  OBVIOUS
<1>3. Disciplined(p) /\ Exclusive(p)
  BY <1>1, <1>2 DEF Disciplined, Exclusive
<1>4. ~overlapped' => Apart(p)
  BY <1>1, <1>2 DEF Apart
<1>5. Len(p) >= 1 => p[1].op \notin Staging
  BY <1>1
<1> QED
  BY <1>1, <1>3, <1>4, <1>5, DoDiscipline

LEMMA MeekPair ==
  ASSUME IInv, Discipline, agenda # << >>, ~overlapped' => ~overlapped, NEW x, NEW y, Do(<<x, y>>),
         Meek(x), Meek(y), x.op \notin Staging \/ (~overlapped' => IdleBelow)
  PROVE  Discipline'
<1> DEFINE p == <<x, y>>
<1>1. IsStack(p) /\ Len(p) = 2 /\ p[1] = x /\ p[2] = y /\ Do(p)
  BY StackOfTwo
<1> HIDE DEF p
<1>2. \A i \in 1..2 : i = 1 \/ i = 2
  OBVIOUS
<1>3. \A i \in 1..Len(p) : Meek(p[i])
  BY <1>1, <1>2
<1>4. x.op \notin Staging => (Len(p) >= 1 => p[1].op \notin Staging)
  BY <1>1
<1> QED
  BY <1>1, <1>3, <1>4, MeekDiscipline

LEMMA MeekOne ==
  ASSUME IInv, Discipline, agenda # << >>, ~overlapped' => ~overlapped, NEW x, Do(<<x>>),
         Meek(x), x.op \notin Staging \/ (~overlapped' => IdleBelow)
  PROVE  Discipline'
<1> DEFINE p == <<x>>
<1>1. IsStack(p) /\ Len(p) = 1 /\ p[1] = x /\ Do(p)
  BY StackOfOne
<1> HIDE DEF p
<1>2. \A i \in 1..1 : i = 1
  OBVIOUS
<1>3. \A i \in 1..Len(p) : Meek(p[i])
  BY <1>1, <1>2
<1>4. x.op \notin Staging => (Len(p) >= 1 => p[1].op \notin Staging)
  BY <1>1
<1> QED
  BY <1>1, <1>3, <1>4, MeekDiscipline

(* The first task, unless it is a command of a validation, works alone for  *)
(* its control.                                                             *)
LEMMA HeadAlone ==
  ASSUME IInv, Discipline, ~overlapped, agenda # << >>, ~Inner(agenda[1]),
         NEW n \in Nodes, Touches(agenda[1], n), NEW i \in 2..Len(agenda)
  PROVE  ~Claims(agenda[i], n)
<1>1. Len(agenda) \in Nat /\ Exclusive(agenda)
  BY AgendaStack DEF Discipline
<1>2. i \in 1..Len(agenda) /\ 1 \in 1..Len(agenda) /\ 1 < i
  BY <1>1
<1>3. Separate(agenda, i, 1)
  BY <1>1, <1>2 DEF Exclusive
<1>4. ~Helps(agenda[1], agenda[2])
  BY DEF Helps, Inner
<1> QED
  BY <1>3, <1>4 DEF Separate

(* Nothing works for a control while a document is replaced.                *)
LEMMA StagedIdle ==
  ASSUME IInv, Discipline, NEW op \in Staging, At(op), ~overlapped
  PROVE  IdleBelow /\ Idle(agenda)
<1>1. Idle(agenda) /\ Len(agenda) \in Nat
  BY AgendaStack DEF Discipline
<1>2. \A i \in 2..Len(agenda) : i \in 1..Len(agenda)
  BY <1>1
<1> QED
  BY <1>1, <1>2 DEF Idle, IdleBelow

LEMMA EmitMeek ==
  ASSUME NEW kind, NEW changed, NEW at
  PROVE  Meek(Emit(kind, changed, at)) /\ Emit(kind, changed, at).op \notin Staging
BY DEF Meek, Emit, Staging, Preparing

LEMMA EmitDiscipline ==
  ASSUME IInv, Discipline, EmitFact, UNCHANGED applicationVars
  PROVE  Discipline'
<1>1. agenda # << >> /\ (~overlapped' => ~overlapped)
  BY HeadTask DEF EmitFact, observerVars
<1>2. CASE Do(<< >>)
  BY <1>1, <1>2, PopDiscipline
<1>3. ASSUME NEW fact, Do(Deliver(fact))
      PROVE  Discipline'
  <2> DEFINE x == [op |-> "project", fact |-> fact]
             y == [op |-> "observe", fact |-> fact]
  <2>1. Meek(x) /\ Meek(y) /\ x.op \notin Staging
    BY DEF Meek, Staging, Preparing
  <2>2. Do(<<x, y>>)
    BY <1>3 DEF Deliver
  <2> HIDE DEF x, y
  <2> QED
    BY <1>1, <2>1, <2>2, MeekPair
<1>4. CASE Throw
  BY <1>1, <1>4, ThrowDiscipline
<1> QED
  BY <1>2, <1>3, <1>4 DEF EmitFact

LEMMA DrainDiscipline ==
  ASSUME IInv, Discipline, DrainFact, UNCHANGED applicationVars
  PROVE  Discipline'
<1>1. /\ At("drain") /\ agenda # << >> /\ overlapped' = overlapped /\ agenda[1].op = "drain"
      /\ IsStack(agenda) /\ Len(agenda) \in Nat
  BY HeadTask, AgendaStack DEF DrainFact, observerVars
<1>2. CASE Do(<< >>)
  BY <1>1, <1>2, PopDiscipline
<1>3. CASE UNCHANGED agenda
  <2>1. \A op : At(op)' <=> At(op)
    BY <1>3 DEF At, Task
  <2> QED
    BY <1>1, <1>3, <2>1 DEF Discipline
<1>4. ASSUME NEW fact, agenda' = Deliver(fact) \o <<Contained>> \o agenda
      PROVE  Discipline'
  <2> DEFINE x == [op |-> "project", fact |-> fact]
             y == [op |-> "observe", fact |-> fact]
             d == <<x, y>>
             c == <<Contained>>
             p == d \o c
             t == p \o agenda
  <2>1. agenda' = t
    BY <1>4 DEF Deliver
  <2>2. Meek(x) /\ Meek(y) /\ Meek(Contained) /\ x.op \notin Staging
    BY DEF Meek, Contained, Staging, Preparing
  <2> HIDE DEF x, y
  <2>3. /\ IsStack(d) /\ Len(d) = 2 /\ d[1] = x /\ d[2] = y
        /\ IsStack(c) /\ Len(c) = 1 /\ c[1] = Contained
    BY StackOfOne, StackOfTwo
  <2> HIDE DEF d, c
  <2>4. /\ IsStack(p) /\ Len(p) = 3 /\ p[1] = x /\ p[2] = y /\ p[3] = Contained
    <3>1. /\ IsStack(p) /\ Len(p) = Len(d) + Len(c)
          /\ \A i \in 1..Len(d) : p[i] = d[i]
          /\ \A i \in 1..Len(c) : p[Len(d) + i] = c[i]
      <4>1. IsStack(d) /\ IsStack(c)
        BY <2>3
      <4> QED
        BY <4>1, JoinedStack
    <3>2. 1 \in 1..2 /\ 2 \in 1..2 /\ 1 \in 1..1 /\ 2 + 1 = 3
      OBVIOUS
    <3> HIDE DEF p
    <3> QED
      BY <2>3, <3>1, <3>2
  <2> HIDE DEF p
  <2>5. \A i \in 1..3 : Meek(p[i])
    <3>1. \A i \in 1..3 : i = 1 \/ i = 2 \/ i = 3
      OBVIOUS
    <3> QED
      BY <2>2, <2>4, <3>1
  <2>6. Rest(agenda, t, 0, 3) /\ IsStack(t) /\ \A i \in 1..3 : t[i] = p[i]
    <3>1. IsStack(agenda) /\ IsStack(p)
      BY <1>1, <2>4
    <3>2. IsStack(t) /\ Rest(agenda, t, 0, Len(p)) /\ \A i \in 1..Len(p) : t[i] = p[i]
      BY <3>1, Prepending
    <3> QED
      BY <2>4, <3>2
  <2> HIDE DEF t
  <2>7. \A i \in 1..3 : /\ Neat(t[i]) /\ ~Inner(t[i])
                        /\ \A n : ~Claims(t[i], n) /\ ~Touches(t[i], n)
    BY <2>5, <2>6, MeekFacts
  <2>8. ~Inner(agenda[1]) /\ agenda[1].op # "execute"
    BY <1>1 DEF Inner
  <2>9. Disciplined(t)
    <3>1. Disciplined(agenda)
      BY DEF Discipline
    <3> QED
      BY <1>1, <2>6, <2>7, <2>8, <3>1, DisciplinedRest
  <2>10. ~overlapped => Exclusive(t)
    <3>1. \A i, j \in 1..3 : Separate(t, i, j)
      BY <2>7 DEF Separate
    <3> QED
      BY <1>1, <2>6, <2>7, <2>8, <3>1, ExclusiveRest DEF Discipline
  <2>11. \A op \in Staging : ~At(op)'
    <3>1. t[1] = x /\ Head(t) = t[1]
      <4>1. 1 \in 1..3 /\ Len(t) = 3 + (Len(agenda) - 0) /\ Len(t) # 0
        BY <1>1, <2>6 DEF Rest
      <4> QED
        BY <2>4, <2>6, <4>1, StackFacts
    <3> QED
      BY <2>1, <2>2, <3>1 DEF At, Task
  <2> QED
    BY <1>1, <2>1, <2>9, <2>10, <2>11 DEF Discipline
<1> QED
  BY <1>2, <1>3, <1>4 DEF DrainFact

(* The controls calls in progress work for.                                 *)
LEMMA ClaimsBusy ==
  ASSUME IInv, NEW i \in 1..Len(agenda), NEW n, Claims(agenda[i], n)
  PROVE  n \in Busy
<1> DEFINE ops == {"start", "launch", "write", "perform"}
<1>1. DOMAIN agenda = 1..Len(agenda) /\ TaskOK(agenda[i], requests)
  BY AgendaStack, StackFacts DEF IInv, AgendaOK, Typed
<1>2. CASE agenda[i].op \in ops /\ agenda[i].node = n
  BY <1>1, <1>2 DEF Busy, Working
<1>3. CASE agenda[i].op = "settle" /\ \E k \in 1..Len(agenda[i].work) :
             agenda[i].work[k].op = "write" /\ agenda[i].work[k].node = n
  <2>1. PICK k \in 1..Len(agenda[i].work) : agenda[i].work[k].op = "write" /\ agenda[i].work[k].node = n
    BY <1>3
  <2>2. DOMAIN agenda[i].work = 1..Len(agenda[i].work)
    BY <1>1, <1>3, StackFacts DEF TaskOK
  <2>3. n \in Working(agenda[i].work)
    BY <2>1, <2>2 DEF Working
  <2> QED
    BY <1>1, <1>3, <2>3 DEF Busy
<1> QED
  BY <1>2, <1>3 DEF Claims

LEMMA ObserveDiscipline ==
  ASSUME IInv, Discipline, Observe, UNCHANGED applicationVars
  PROVE  Discipline'
<1>1. agenda # << >> /\ Len(agenda) \in Nat
  BY HeadTask, AgendaStack DEF Observe
<1>2. CASE Do(<< >>) /\ UNCHANGED overlapped
  BY <1>1, <1>2, PopDiscipline
<1>3. ASSUME NEW n \in Nodes, NEW v \in Values, overlapped' = (overlapped \/ n \in Busy),
             Reaction(Execute([type |-> "value", node |-> n, value |-> v]))
      PROVE  Discipline'
  <2> DEFINE x == Execute([type |-> "value", node |-> n, value |-> v])
  <2>1. /\ Neat(x) /\ Neat(Contained) /\ ~Inner(Contained) /\ x.op \notin Staging
        /\ \A m : (Touches(x, m) => m = n) /\ ~Touches(Contained, m) /\ ~Claims(Contained, m)
    BY DEF Execute, Contained, Neat, Inner, Staging, Preparing, Touches, Claims
  <2>2. Do(<<x, Contained>>)
    BY <1>3 DEF Reaction
  <2> HIDE DEF x
  <2>3. ~overlapped' => ~overlapped /\ n \notin Busy
    BY <1>3
  <2>4. \A i \in 2..Len(agenda) : i \in 1..Len(agenda)
    BY <1>1
  <2>5. ~overlapped' => \A i \in 2..Len(agenda) : \A m \in Nodes :
          Claims(agenda[i], m) => ~Touches(x, m) /\ ~Touches(Contained, m)
    BY <2>1, <2>3, <2>4, ClaimsBusy
  <2> QED
    BY <1>1, <2>1, <2>2, <2>3, <2>5, PairDiscipline
<1> QED
  BY <1>2, <1>3 DEF Observe

LEMMA ObserveStructurallyDiscipline ==
  ASSUME IInv, Discipline, ObserveStructurally
  PROVE  Discipline'
<1>1. agenda # << >> /\ Len(agenda) \in Nat
  BY HeadTask, AgendaStack DEF ObserveStructurally
<1>2. Meek(Contained)
  BY DEF Meek, Contained
<1>3. ASSUME NEW d, Reaction(Update(d)), overlapped' = (overlapped \/ Busy # {})
      PROVE  Discipline'
  <2>1. Meek(Update(d))
    BY DEF Meek, Update
  <2>2. ~overlapped' => ~overlapped /\ Busy = {}
    BY <1>3
  <2>3. \A i \in 2..Len(agenda) : i \in 1..Len(agenda)
    BY <1>1
  <2>4. ~overlapped' => IdleBelow
    BY <2>2, <2>3, ClaimsBusy DEF IdleBelow
  <2>5. Do(<<Update(d), Contained>>)
    BY <1>3 DEF Reaction
  <2> QED
    BY <1>1, <1>2, <2>1, <2>2, <2>4, <2>5, MeekPair
<1>4. CASE Reaction([op |-> "dispose"]) /\ UNCHANGED overlapped
  <2> DEFINE x == [op |-> "dispose"]
  <2>1. Meek(x) /\ x.op \notin Staging
    BY DEF Meek, Staging, Preparing
  <2>2. Do(<<x, Contained>>)
    BY <1>4 DEF Reaction
  <2> HIDE DEF x
  <2> QED
    BY <1>1, <1>2, <1>4, <2>1, <2>2, MeekPair
<1> QED
  BY <1>3, <1>4 DEF ObserveStructurally
(* What a command leaves to do.                                             *)

LEMMA EachCovers ==
  ASSUME NEW op, NEW set, IsFiniteSet(set), NEW n \in set
  PROVE  \E i \in 1..Len(Each(op, set)) : Each(op, set)[i] = [op |-> op, node |-> n]
<1> DEFINE f == [m \in set |-> [op |-> op, node |-> m]]
           S == {[op |-> op, node |-> m] : m \in set}
           q == SetToSeq(S)
<1>1. f \in Surjection(set, S)
  BY DEF Surjection
<1>2. IsFiniteSet(S)
  BY <1>1, FS_Surjection
<1>3. Cardinality(S) \in Nat /\ ExistsBijection(1..Cardinality(S), S)
  BY <1>2, FS_CardinalityType
<1>4. [op |-> op, node |-> n] \in S /\ Each(op, set) = q
  BY DEF Each
<1> HIDE DEF f, S
<1>5. \E g \in [1..Cardinality(S) -> S] : IsInjective(g)
  BY <1>3 DEF ExistsBijection, Bijection, Injection
<1>6. q \in [1..Cardinality(S) -> S] /\ IsInjective(q)
  BY <1>5, Zenon DEF SetToSeq
<1> HIDE DEF q
<1>7. q \in Injection(1..Cardinality(S), S)
  BY <1>6 DEF Injection
<1>8. Cardinality(1..Cardinality(S)) = Cardinality(S)
  <2>1. Cardinality(1..Cardinality(S))
          = IF 1 > Cardinality(S) THEN 0 ELSE Cardinality(S) - 1 + 1
    BY <1>3, FS_Interval
  <2> QED
    BY <1>3, <2>1
<1>9. q \in Surjection(1..Cardinality(S), S)
  BY <1>2, <1>7, <1>8, FS_Injection
<1>10. PICK i \in 1..Cardinality(S) : q[i] = [op |-> op, node |-> n]
  BY <1>4, <1>9 DEF Surjection
<1>11. Len(q) = Cardinality(S)
  BY <1>3, <1>6
<1> QED
  BY <1>4, <1>10, <1>11

\* The write of a new value, and when it is due.
WriteOf(command) ==
  [op |-> "write", node |-> command.node, value |-> Applied(command)[command.node].value]

WritesNow(command) ==
  /\ command.type = "value" /\ command.node \in Bound \cap NodesOf[bindings]
  /\ nodes[command.node].value # Applied(command)[command.node].value

LEMMA WritesShape ==
  ASSUME NEW command
  PROVE  LET w == Writes(command, Applied(command))
         IN  /\ IsStack(w) /\ Len(w) \in {0, 1}
             /\ WritesNow(command) => Len(w) = 1
             /\ \A k \in 1..Len(w) : WritesNow(command) /\ k = 1 /\ w[k] = WriteOf(command)
<1> DEFINE w == Writes(command, Applied(command))
           x == WriteOf(command)
           e == << >>
<1>1. w = IF WritesNow(command) THEN <<x>> ELSE e
  BY DEF Writes, WritesNow, WriteOf, Owes
<1>2. IsStack(<<x>>) /\ Len(<<x>>) = 1 /\ <<x>>[1] = x /\ IsStack(e) /\ Len(e) = 0
  BY StackOfOne, EmptyStack
<1>3. (\A k \in 1..1 : k = 1) /\ (\A k \in 1..0 : FALSE)
  OBVIOUS
<1> HIDE DEF w, x, e
<1>4. CASE WritesNow(command)
  BY <1>1, <1>2, <1>3, <1>4 DEF w, x
<1>5. CASE ~WritesNow(command)
  BY <1>1, <1>2, <1>3, <1>5 DEF w, x
<1> QED
  BY <1>4, <1>5

LEMMA RemainingShape ==
  ASSUME NEW command, NEW set \in SUBSET Validated
  PROVE  LET task == Remaining(command, set)
             work == task.work
         IN  /\ task.op = "settle" /\ IsStack(work) /\ Len(work) \in Nat
             /\ \A k \in 1..Len(work) :
                  \/ WritesNow(command) /\ k = 1 /\ work[k] = WriteOf(command)
                  \/ \E n \in set : work[k] = [op |-> "schedule", node |-> n]
             /\ WritesNow(command) => Len(work) >= 1 /\ work[1] = WriteOf(command)
             /\ \A n \in set : \E k \in 1..Len(work) : work[k] = [op |-> "schedule", node |-> n]
<1> DEFINE w == Writes(command, Applied(command))
           e == Each("schedule", set)
           u == w \o e
<1>1. /\ IsStack(w) /\ Len(w) \in {0, 1} /\ (WritesNow(command) => Len(w) = 1)
      /\ \A k \in 1..Len(w) : WritesNow(command) /\ k = 1 /\ w[k] = WriteOf(command)
  BY WritesShape
<1>2. IsFiniteSet(set)
  BY RuntimeAssumption, FS_Subset
<1>3. /\ IsStack(e) /\ \A i \in 1..Len(e) : \E n \in set : e[i] = [op |-> "schedule", node |-> n]
  BY <1>2, EachFacts
<1>4. \A n \in set : \E i \in 1..Len(e) : e[i] = [op |-> "schedule", node |-> n]
  BY <1>2, EachCovers
<1> HIDE DEF w, e
<1>5. /\ IsStack(u) /\ Len(u) = Len(w) + Len(e) /\ Len(w) \in Nat /\ Len(e) \in Nat
      /\ \A i \in 1..Len(w) : u[i] = w[i]
      /\ \A i \in 1..Len(e) : u[Len(w) + i] = e[i]
  BY <1>1, <1>3, JoinedStack, StackFacts
<1> HIDE DEF u
<1>6. Len(u) \in Nat /\ \A k \in 1..Len(u) :
        \/ WritesNow(command) /\ k = 1 /\ u[k] = WriteOf(command)
        \/ \E n \in set : u[k] = [op |-> "schedule", node |-> n]
  <2> SUFFICES ASSUME NEW k \in 1..Len(u)
               PROVE  \/ WritesNow(command) /\ k = 1 /\ u[k] = WriteOf(command)
                      \/ \E n \in set : u[k] = [op |-> "schedule", node |-> n]
    BY <1>5
  <2>1. CASE k \in 1..Len(w)
    BY <1>1, <1>5, <2>1
  <2>2. CASE k \notin 1..Len(w)
    <3>1. k - Len(w) \in 1..Len(e) /\ Len(w) + (k - Len(w)) = k
      BY <1>5, <2>2
    <3> QED
      BY <1>3, <1>5, <3>1
  <2> QED
    BY <2>1, <2>2
<1>7. WritesNow(command) => Len(u) >= 1 /\ u[1] = WriteOf(command)
  <2> SUFFICES ASSUME WritesNow(command) PROVE Len(u) >= 1 /\ u[1] = WriteOf(command)
    OBVIOUS
  <2>1. Len(w) = 1
    BY <1>1
  <2>2. 1 \in 1..Len(w)
    BY <2>1
  <2>3. Len(u) >= 1
    BY <1>5, <2>1
  <2>4. w[1] = WriteOf(command) /\ u[1] = w[1]
    BY <1>1, <1>5, <2>2
  <2> QED
    BY <2>3, <2>4
<1>8. \A n \in set : \E k \in 1..Len(u) : u[k] = [op |-> "schedule", node |-> n]
  <2> SUFFICES ASSUME NEW n \in set PROVE \E k \in 1..Len(u) : u[k] = [op |-> "schedule", node |-> n]
    OBVIOUS
  <2>1. PICK i \in 1..Len(e) : e[i] = [op |-> "schedule", node |-> n]
    BY <1>4
  <2>2. Len(w) + i \in 1..Len(u)
    BY <1>5
  <2> QED
    BY <1>5, <2>1, <2>2
<1>9. Remaining(command, set) = [op |-> "settle", work |-> u]
  BY DEF Remaining, u, w, e
<1>10. Remaining(command, set).op = "settle" /\ Remaining(command, set).work = u
  BY <1>9
<1> QED
  BY <1>5, <1>6, <1>7, <1>8, <1>10

\* A stack of facts, the remaining work after the first, and a handler.
FactsThen(p, task) ==
  /\ IsStack(p) /\ Len(p) \in Nat
  /\ \E m \in 2..Len(p) :
       /\ p[m] = task
       /\ \A i \in 1..Len(p) : i # m => Meek(p[i]) /\ Safe(p[i])
       /\ \A i \in 1..(m - 1) : p[i].op = "emit"

LEMMA CommittedShape ==
  ASSUME NEW command, NEW set, NEW changed, NEW next
  PROVE  FactsThen(Committed(command, set, changed, next), Remaining(command, set))
<1> DEFINE x == Emit("applied", {}, next)
           f == <<x>>
           w == Writes(command, Applied(command))
           g == [i \in DOMAIN w |-> Emit("applied", {}, next)]
           t == IF changed = {} THEN << >> ELSE <<Emit("transaction", changed, next)>>
           r == Remaining(command, set)
           e == <<r, Rejecting>>
<1> DEFINE Facts(p) == IsStack(p) /\ \A i \in 1..Len(p) : p[i].op = "emit"
<1>1. x.op = "emit" /\ \A c : Emit("transaction", c, next).op = "emit"
  BY DEF Emit
<1>2. Facts(f) /\ Len(f) = 1
  <2> HIDE DEF x
  <2>1. IsStack(f) /\ Len(f) = 1 /\ f[1] = x
    BY StackOfOne
  <2>2. \A i \in 1..1 : i = 1
    OBVIOUS
  <2> HIDE DEF f
  <2> QED
    BY <1>1, <2>1, <2>2
<1>3. Facts(g)
  <2>1. IsStack(w)
    BY WritesShape
  <2> DEFINE n == Len(w)
  <2> HIDE DEF w
  <2>2. g = [i \in 1..n |-> x] /\ n \in Nat
    BY <2>1, StackFacts
  <2> HIDE DEF x, n, g
  <2>3. g \in Seq({x}) /\ Len(g) = n
    BY <2>2
  <2>4. \A i \in 1..Len(g) : g[i] = x
    BY <2>2, <2>3
  <2> QED
    BY <1>1, <2>3, <2>4 DEF IsStack
<1>4. Facts(t)
  <2>1. CASE changed = {}
    <3>1. t = << >> /\ Len(t) = 0 /\ IsStack(t)
      BY <2>1, EmptyStack
    <3> HIDE DEF t
    <3> QED
      BY <3>1
  <2>2. CASE changed # {}
    <3> DEFINE y == Emit("transaction", changed, next)
    <3>1. y.op = "emit" /\ t = <<y>>
      BY <1>1, <2>2
    <3> HIDE DEF y, t
    <3>2. IsStack(t) /\ Len(t) = 1 /\ t[1] = y
      BY <3>1, StackOfOne
    <3>3. \A i \in 1..1 : i = 1
      OBVIOUS
    <3> QED
      BY <3>1, <3>2, <3>3
  <2> QED
    BY <2>1, <2>2
<1>5. ASSUME NEW p, NEW q, Facts(p), Facts(q)
      PROVE  Facts(p \o q) /\ Len(p \o q) = Len(p) + Len(q) /\ Len(p) \in Nat /\ Len(q) \in Nat
  <2> DEFINE u == p \o q
  <2>1. /\ IsStack(u) /\ Len(u) = Len(p) + Len(q) /\ Len(p) \in Nat /\ Len(q) \in Nat
        /\ \A i \in 1..Len(p) : u[i] = p[i]
        /\ \A i \in 1..Len(q) : u[Len(p) + i] = q[i]
    BY <1>5, JoinedStack, StackFacts
  <2> HIDE DEF u
  <2>2. ASSUME NEW i \in 1..Len(u)
        PROVE  u[i].op = "emit"
    <3>1. CASE i \in 1..Len(p)
      BY <1>5, <2>1, <3>1
    <3>2. CASE i \notin 1..Len(p)
      <4>1. i - Len(p) \in 1..Len(q) /\ Len(p) + (i - Len(p)) = i
        BY <2>1, <3>2
      <4> QED
        BY <1>5, <2>1, <4>1
    <3> QED
      BY <3>1, <3>2
  <2>3. Facts(u)
    BY <2>1, <2>2
  <2> QED
    BY <2>1, <2>3 DEF u
<1>6. IsStack(e) /\ Len(e) = 2 /\ e[1] = r /\ e[2] = Rejecting /\ Meek(Rejecting) /\ Safe(Rejecting)
  <2>1. Meek(Rejecting) /\ Safe(Rejecting)
    BY DEF Meek, Safe, Rejecting
  <2> HIDE DEF r
  <2> QED
    BY <2>1, StackOfTwo
<1>7. Committed(command, set, changed, next) = ((f \o g) \o t) \o e
  BY DEF Committed
<1> HIDE DEF f, g, t, e, r, x, w
<1> DEFINE q == (f \o g) \o t
           p == q \o e
<1>8. Facts(q) /\ Len(q) \in Nat /\ Len(q) >= 1
  <2>1. Facts(f \o g) /\ Len(f \o g) = Len(f) + Len(g) /\ Len(g) \in Nat
    BY <1>2, <1>3, <1>5
  <2>2. Facts(q) /\ Len(q) = Len(f \o g) + Len(t) /\ Len(t) \in Nat
    BY <1>4, <1>5, <2>1
  <2> HIDE DEF q
  <2> QED
    BY <1>2, <2>1, <2>2
<1> HIDE DEF q
<1>9. /\ IsStack(p) /\ Len(p) = Len(q) + Len(e)
      /\ \A i \in 1..Len(q) : p[i] = q[i]
      /\ \A i \in 1..Len(e) : p[Len(q) + i] = e[i]
  <2>1. IsStack(q) /\ IsStack(e)
    BY <1>6, <1>8
  <2> QED
    BY <2>1, JoinedStack
<1> HIDE DEF p
<1> DEFINE m == Len(q) + 1
<1>10. Len(p) = Len(q) + 2 /\ m \in 2..Len(p) /\ Len(p) \in Nat
  BY <1>6, <1>8, <1>9
<1>11. p[m] = r /\ p[m + 1] = Rejecting
  <2>1. 1 \in 1..Len(e) /\ 2 \in 1..Len(e) /\ Len(q) + 2 = m + 1
    BY <1>6, <1>8
  <2> QED
    BY <1>6, <1>9, <2>1
<1>12. \A i \in 1..(m - 1) : p[i].op = "emit" /\ Meek(p[i]) /\ Safe(p[i])
  <2>1. \A i \in 1..(m - 1) : i \in 1..Len(q)
    BY <1>8
  <2>2. \A i \in 1..(m - 1) : p[i].op = "emit"
    BY <1>8, <1>9, <2>1
  <2> QED
    BY <2>2 DEF Meek, Safe
<1>13. \A i \in 1..Len(p) : i # m => Meek(p[i]) /\ Safe(p[i])
  <2> SUFFICES ASSUME NEW i \in 1..Len(p), i # m PROVE Meek(p[i]) /\ Safe(p[i])
    OBVIOUS
  <2>1. i \in 1..(m - 1) \/ i = m + 1
    BY <1>8, <1>10
  <2> QED
    BY <1>6, <1>11, <1>12, <2>1
<1> HIDE DEF m
<1>14. FactsThen(p, r)
  BY <1>9, <1>10, <1>11, <1>12, <1>13 DEF FactsThen
<1> QED
  BY <1>7, <1>14 DEF p, q, r
Rejection == <<Emit("rejected", {}, revision), [op |-> "throw"]>>

Changing(command) == Changed(nodes, Applied(command))

(* What executing a command comes to.                                       *)
LEMMA ExecuteChoices ==
  ASSUME IInv, ExecuteCommand
  PROVE  LET command == Task.command
         IN  /\ At("execute") /\ Command(command, requests)
             /\ UNCHANGED <<lifecycle, savepoint, active, contexts, requests, answers, adapter,
                            bindings, overlapped>>
             /\ \/ (lifecycle = "disposed" \/ savepoint # None) /\ Throw /\ UNCHANGED <<nodes, throws>>
                \/ ~Applicable(command) /\ Do(Rejection) /\ UNCHANGED <<nodes, throws>>
                     /\ lifecycle = "active" /\ savepoint = None
                \/ Do(Rejection) /\ throws' # 0
                \/ /\ lifecycle = "active" /\ savepoint = None
                   /\ Applicable(command) /\ nodes' = Applied(command) /\ UNCHANGED throws
                   /\ \E next : Do(Committed(command, Triggers(command, Changing(command)),
                                             Changing(command), next))
<1> DEFINE command == Task.command
           after == Applied(command)
           changed == Changed(nodes, after)
           set == Triggers(command, changed)
           next == IF changed = {} THEN revision ELSE revision + 1
           p == Committed(command, set, changed, next)
<1>1. At("execute") /\ IsStack(agenda) /\ throws \in Nat
  BY AgendaStack DEF ExecuteCommand
<1>2. Command(command, requests) /\ agenda # << >>
  <2>1. TaskOK(Task, requests) /\ Task.op = "execute" /\ agenda # << >>
    BY <1>1, HeadTask
  <2> QED
    BY <2>1 DEF TaskOK
<1>3. UNCHANGED <<lifecycle, savepoint, active, contexts, requests, answers, adapter, bindings, overlapped>>
  BY DEF ExecuteCommand, validationVars
<1>4. IsStack(Tail(agenda))
  BY <1>1, <1>2, StackFacts
<1>5. agenda' = Unwound(<<Rejecting>> \o Tail(agenda)) => Do(Rejection)
  BY <1>4, RejectedHere DEF Do, Rejection
<1>6. CASE (lifecycle = "disposed" \/ savepoint # None) /\ Throw /\ UNCHANGED <<storeVars, throws>>
  BY <1>1, <1>2, <1>3, <1>6 DEF storeVars
<1>7. CASE /\ lifecycle = "active" /\ savepoint = None /\ ~Applicable(command)
           /\ agenda' = Unwound(<<Rejecting>> \o Tail(agenda)) /\ UNCHANGED <<storeVars, throws>>
  BY <1>1, <1>2, <1>3, <1>5, <1>7 DEF storeVars
<1>8. CASE lifecycle = "active" /\ savepoint = None /\ Applicable(command) /\ Commit(command)
  <2>1. nodes' = after
    BY <1>8 DEF Commit
  <2>2. p = <<Emit("applied", {}, next)>>
              \o [i \in DOMAIN Writes(command, after) |-> Emit("applied", {}, next)]
              \o (IF changed = {} THEN << >> ELSE <<Emit("transaction", changed, next)>>)
              \o <<[op |-> "settle",
                    work |-> Writes(command, after)
                             \o Each("schedule", Triggers(command, changed))],
                   Rejecting>>
    BY DEF Remaining, Committed
  <2> HIDE DEF p
  <2>3. \/ Do(p) /\ UNCHANGED throws
        \/ SelectorThrows /\ agenda' = Unwound(<<Rejecting>> \o Tail(agenda))
    BY <1>8, <2>2 DEF Commit
  <2>4. SelectorThrows => throws' # 0
    BY <1>1 DEF SelectorThrows
  <2>5. Do(p) => \E x : Do(Committed(command, set, changed, x))
    BY DEF p
  <2> HIDE DEF command
  <2> QED
    BY <1>1, <1>2, <1>3, <1>5, <1>8, <2>1, <2>3, <2>4, <2>5 DEF command, Changing
<1> QED
  BY <1>6, <1>7, <1>8 DEF ExecuteCommand

(* A command changes its control only.                                      *)
LEMMA ChangingNode ==
  ASSUME GraphTypes, NEW command, Command(command, requests), Applicable(command)
  PROVE  Changing(command) \subseteq {command.node}
<1> DEFINE after == Applied(command)
<1>1. DOMAIN after = DOMAIN nodes /\ \A m \in DOMAIN nodes \ {command.node} : after[m] = nodes[m]
  BY AppliedFacts
<1> HIDE DEF after
<1>2. Changed(nodes, after) \subseteq {command.node}
  BY <1>1 DEF Changed
<1> QED
  BY <1>2 DEF after, Changing

(* The work left by a command is for its control; only a change of value    *)
(* leaves any.                                                              *)
LEMMA RemainingTouches ==
  ASSUME GraphTypes, NEW command, Command(command, requests), Applicable(command)
  PROVE  LET task == Remaining(command, Triggers(command, Changing(command)))
         IN  /\ Neat(task) /\ ~Inner(task)
             /\ \A n : Touches(task, n) \/ Claims(task, n) => n = command.node /\ command.type = "value"
<1> DEFINE set == Triggers(command, Changing(command))
           task == Remaining(command, set)
<1>1. set \in SUBSET Validated /\ \A n \in set : n = command.node /\ command.type = "value"
  BY ChangingNode DEF Triggers
<1> HIDE DEF set
<1>2. /\ task.op = "settle"
      /\ \A k \in 1..Len(task.work) :
           \/ WritesNow(command) /\ k = 1 /\ task.work[k] = WriteOf(command)
           \/ \E n \in set : task.work[k] = [op |-> "schedule", node |-> n]
  BY <1>1, RemainingShape
<1>3. WriteOf(command).op = "write" /\ WriteOf(command).node = command.node
  BY DEF WriteOf
<1>4. WritesNow(command) => command.type = "value"
  BY DEF WritesNow
<1> HIDE DEF task
<1>5. \A k \in 1..Len(task.work) :
        /\ task.work[k].node = command.node /\ command.type = "value"
        /\ task.work[k].op = "write" => k = 1
  <2> SUFFICES ASSUME NEW k \in 1..Len(task.work)
               PROVE  /\ task.work[k].node = command.node /\ command.type = "value"
                      /\ task.work[k].op = "write" => k = 1
    OBVIOUS
  <2>1. CASE WritesNow(command) /\ k = 1 /\ task.work[k] = WriteOf(command)
    BY <1>3, <1>4, <2>1
  <2>2. ASSUME NEW n \in set, task.work[k] = [op |-> "schedule", node |-> n]
        PROVE  task.work[k].node = n /\ task.work[k].op = "schedule"
    BY <2>2
  <2> QED
    BY <1>1, <1>2, <2>1, <2>2
<1>6. Neat(task) /\ ~Inner(task)
  BY <1>2, <1>5 DEF Neat, Inner
<1>7. \A n : Touches(task, n) \/ Claims(task, n) => n = command.node /\ command.type = "value"
  BY <1>2, <1>5 DEF Touches, Claims
<1> QED
  BY <1>6, <1>7 DEF task, set

(* A stack of facts with one task among them that works for controls.       *)
LEMMA FactsDiscipline ==
  ASSUME IInv, Discipline, agenda # << >>, ~overlapped' => ~overlapped, NEW task, NEW p,
         FactsThen(p, task), Do(p), Neat(task), ~Inner(task),
         ~overlapped' => \A i \in 2..Len(agenda) : \A n \in Nodes : ~(Claims(agenda[i], n) /\ Touches(task, n))
  PROVE  Discipline'
<1>1. PICK m \in 2..Len(p) : /\ p[m] = task
                             /\ \A i \in 1..Len(p) : i # m => Meek(p[i])
                             /\ \A i \in 1..(m - 1) : p[i].op = "emit"
  BY DEF FactsThen
<1>2. IsStack(p) /\ Len(p) \in Nat
  BY DEF FactsThen
<1>3. \A i \in 1..Len(p) : i # m => /\ Neat(p[i]) /\ ~Inner(p[i])
                                    /\ \A n : ~Claims(p[i], n) /\ ~Touches(p[i], n)
  BY <1>1, MeekFacts
<1>4. Disciplined(p)
  BY <1>1, <1>3 DEF Disciplined
<1>5. Exclusive(p)
  <2> SUFFICES ASSUME NEW i \in 1..Len(p), NEW j \in 1..Len(p), j < i PROVE Separate(p, i, j)
    BY DEF Exclusive
  <2>1. i # m \/ j # m
    OBVIOUS
  <2> QED
    BY <1>3, <2>1 DEF Separate
<1>6. ~overlapped' => Apart(p)
  <2> SUFFICES ASSUME ~overlapped', NEW j \in 1..Len(p), NEW i \in 2..Len(agenda), NEW n \in Nodes
               PROVE  ~(Claims(agenda[i], n) /\ Touches(p[j], n))
    BY DEF Apart
  <2> QED
    BY <1>1, <1>3
<1>7. Len(p) >= 1 => p[1].op \notin Staging
  <2>1. 1 \in 1..(m - 1)
    BY <1>1, <1>2
  <2> QED
    BY <1>1, <2>1 DEF Staging, Preparing
<1> QED
  BY <1>2, <1>4, <1>5, <1>6, <1>7, DoDiscipline

LEMMA RejectionDiscipline ==
  ASSUME IInv, Discipline, agenda # << >>, ~overlapped' => ~overlapped, Do(Rejection)
  PROVE  Discipline'
<1> DEFINE x == Emit("rejected", {}, revision)
           y == [op |-> "throw"]
<1>1. Meek(x) /\ Meek(y) /\ x.op \notin Staging
  BY EmitMeek DEF Meek
<1>2. Do(<<x, y>>)
  BY DEF Rejection
<1> HIDE DEF x, y
<1> QED
  BY <1>1, <1>2, MeekPair

LEMMA ExecuteDiscipline ==
  ASSUME IInv, Discipline, ExecuteCommand, UNCHANGED applicationVars
  PROVE  Discipline'
<1> DEFINE command == Task.command
           set == Triggers(command, Changing(command))
<1>1. /\ At("execute") /\ Command(command, requests) /\ overlapped' = overlapped
      /\ \/ Throw \/ Do(Rejection)
         \/ /\ Applicable(command)
            /\ \E next : Do(Committed(command, set, Changing(command), next))
  BY ExecuteChoices
<1>2. agenda # << >> /\ Task = agenda[1] /\ agenda[1].op = "execute" /\ GraphTypes
  BY <1>1, HeadTask DEF IInv
<1>3. CASE Throw
  BY <1>1, <1>2, <1>3, ThrowDiscipline
<1>4. CASE Do(Rejection)
  BY <1>1, <1>2, <1>4, RejectionDiscipline
<1>5. ASSUME Applicable(command), NEW next, Do(Committed(command, set, Changing(command), next))
      PROVE  Discipline'
  <2> DEFINE task == Remaining(command, set)
             p == Committed(command, set, Changing(command), next)
  <2>1. /\ Neat(task) /\ ~Inner(task)
        /\ \A n : Touches(task, n) => n = command.node /\ command.type = "value"
    <3> HIDE DEF command
    <3> QED
      BY <1>1, <1>2, <1>5, RemainingTouches
  <2>2. FactsThen(p, task)
    BY CommittedShape
  <2>3. Do(p)
    BY <1>5
  <2> HIDE DEF p, task
  <2>4. ~overlapped => \A i \in 2..Len(agenda) : \A n \in Nodes : ~(Claims(agenda[i], n) /\ Touches(task, n))
    <3> SUFFICES ASSUME ~overlapped, NEW i \in 2..Len(agenda), NEW n \in Nodes, Touches(task, n)
                 PROVE  ~Claims(agenda[i], n)
      OBVIOUS
    <3>1. ~Inner(agenda[1]) /\ Touches(agenda[1], n)
      BY <1>2, <2>1 DEF Inner, Touches
    <3> QED
      BY <1>2, <3>1, HeadAlone
  <2> QED
    BY <1>1, <1>2, <2>1, <2>2, <2>3, <2>4, FactsDiscipline
<1> QED
  BY <1>1, <1>3, <1>4, <1>5

LEMMA SettleDiscipline ==
  ASSUME IInv, Discipline, Settle, UNCHANGED applicationVars
  PROVE  Discipline'
<1> DEFINE work == Task.work
<1>1. /\ At("settle") /\ overlapped' = overlapped
  BY DEF Settle, observerVars
<1>2. /\ agenda # << >> /\ Task = agenda[1] /\ agenda[1].op = "settle" /\ Task.op = "settle"
      /\ 1 \in 1..Len(agenda) /\ TaskOK(Task, requests)
  BY <1>1, HeadTask
<1>3. IsStack(work) /\ \A i \in 1..Len(work) : Writing("write", work[i]) \/ Scheduling(work[i])
  BY <1>2 DEF TaskOK
<1>4. \A i \in 1..Len(work) : work[i].op = "write" \/ work[i].op = "schedule"
  BY <1>3 DEF Writing, Scheduling
<1>5. \A k \in 1..Len(work) : work[k].op = "write" => k = 1
  BY <1>2 DEF Discipline, Disciplined, Neat
<1>6. CASE Do(work)
  <2> HIDE DEF work
  <2>1. Disciplined(work)
    BY <1>4 DEF Disciplined, Neat, Inner
  <2>2. Exclusive(work)
    <3> SUFFICES ASSUME NEW i \in 1..Len(work), NEW j \in 1..Len(work), j < i PROVE Separate(work, i, j)
      BY DEF Exclusive
    <3>1. work[i].op = "schedule"
      BY <1>4, <1>5
    <3> QED
      BY <3>1 DEF Separate, Claims
  <2>3. ~overlapped => Apart(work)
    <3> SUFFICES ASSUME ~overlapped, NEW j \in 1..Len(work), NEW i \in 2..Len(agenda), NEW n \in Nodes,
                        Touches(work[j], n)
                 PROVE  ~Claims(agenda[i], n)
      BY DEF Apart
    <3>1. work[j].node = n
      BY <1>4 DEF Touches
    <3>2. Touches(agenda[1], n) /\ ~Inner(agenda[1])
      BY <1>2, <3>1 DEF Touches, Inner, work
    <3> QED
      BY <1>2, <3>2, HeadAlone
  <2>4. Len(work) >= 1 => work[1].op \notin Staging
    <3>1. Len(work) >= 1 => 1 \in 1..Len(work)
      BY <1>3, StackFacts
    <3> QED
      BY <1>4, <3>1 DEF Staging, Preparing
  <2> QED
    BY <1>1, <1>2, <1>3, <1>6, <2>1, <2>2, <2>3, <2>4, DoDiscipline
<1>7. CASE Do(<< >>)
  BY <1>1, <1>2, <1>7, PopDiscipline
<1> QED
  BY <1>6, <1>7 DEF Settle

LEMMA ResumeDiscipline ==
  ASSUME IInv, Discipline, Resume, UNCHANGED applicationVars
  PROVE  Discipline'
<1>1. PICK op \in {"contained", "rejecting", "throw"} : At(op) /\ (Do(<< >>) \/ Throw)
  BY DEF Resume
<1>2. agenda # << >> /\ overlapped' = overlapped
  BY <1>1, HeadTask DEF Resume, observerVars
<1> QED
  BY <1>1, <1>2, PopDiscipline, ThrowDiscipline
LEMMA RequestWriteDiscipline ==
  ASSUME IInv, Discipline, RequestWrite, UNCHANGED applicationVars
  PROVE  Discipline'
<1> DEFINE x == Emit("requested", {}, revision)
           y == [Task EXCEPT !.op = "perform"]
<1>1. At("write") /\ overlapped' = overlapped
  BY DEF RequestWrite, observerVars
<1>2. /\ agenda # << >> /\ Task = agenda[1] /\ agenda[1].op = "write" /\ Task.op = "write"
      /\ TaskOK(Task, requests)
  BY <1>1, HeadTask
<1>3. Meek(x) /\ x.op \notin Staging
  BY EmitMeek
<1>4. y.op = "perform" /\ y.node = Task.node
  <2>1. Writing("write", Task)
    BY <1>2 DEF TaskOK
  <2> QED
    BY <2>1 DEF Writing
<1>5. Do(<<x, y>>)
  BY DEF RequestWrite
<1> HIDE DEF x, y
<1>6. Neat(x) /\ \A n : ~Touches(x, n)
  BY <1>3, MeekFacts
<1>7. Neat(y) /\ ~Inner(y) /\ \A n : Touches(y, n) => n = Task.node
  BY <1>4 DEF Neat, Inner, Touches
<1>8. ~overlapped' => \A i \in 2..Len(agenda) : \A n \in Nodes :
        Claims(agenda[i], n) => ~Touches(x, n) /\ ~Touches(y, n)
  <2> SUFFICES ASSUME ~overlapped', NEW i \in 2..Len(agenda), NEW n \in Nodes, Touches(y, n)
               PROVE  ~Claims(agenda[i], n)
    BY <1>6
  <2>1. Touches(agenda[1], n) /\ ~Inner(agenda[1])
    BY <1>2, <1>7 DEF Touches, Inner
  <2> QED
    BY <1>1, <1>2, <2>1, HeadAlone
<1> QED
  BY <1>1, <1>2, <1>3, <1>5, <1>6, <1>7, <1>8, PairDiscipline

LEMMA WriteStoreDiscipline ==
  ASSUME IInv, Discipline, WriteStore, UNCHANGED applicationVars
  PROVE  Discipline'
<1>1. agenda # << >> /\ overlapped' = overlapped
  BY HeadTask DEF WriteStore, observerVars
<1>2. Do(<< >>) \/ Do(<<Emit("settled", {}, revision)>>)
  BY DEF WriteStore
<1> QED
  BY <1>1, <1>2, EmitMeek, PopDiscipline, MeekOne

LEMMA ShortStacks ==
  ASSUME NEW x, NEW y
  PROVE  /\ << >> \o << >> = << >> /\ << >> \o <<y>> = <<y>>
         /\ <<x>> \o << >> = <<x>> /\ <<x>> \o <<y>> = <<x, y>>
<1> DEFINE S == {x, y}
           p == <<x>>
           q == <<y>>
           t == <<x, y>>
<1>1. p \in Seq(S) /\ q \in Seq(S) /\ t \in Seq(S)
  OBVIOUS
<1>2. /\ Len(p) = 1 /\ p[1] = x /\ IsStack(p) /\ Len(q) = 1 /\ q[1] = y /\ IsStack(q)
      /\ Len(t) = 2 /\ t[1] = x /\ t[2] = y
  BY StackOfOne, StackOfTwo
<1> HIDE DEF S, p, q, t
<1>3. << >> \o q = q /\ p \o << >> = p /\ << >> \o << >> = << >>
  BY <1>1, ConcatEmptySeq
<1>4. p \o q = t
  <2>1. /\ Len(p \o q) = Len(p) + Len(q)
        /\ \A i \in 1..Len(p) : (p \o q)[i] = p[i]
        /\ \A i \in 1..Len(q) : (p \o q)[Len(p) + i] = q[i]
    <3>1. IsStack(p) /\ IsStack(q)
      BY <1>2
    <3> QED
      BY <3>1, JoinedStack
  <2>2. p \o q \in Seq(S)
    BY <1>1, ConcatProperties
  <2>3. (p \o q)[1] = t[1] /\ (p \o q)[1 + 1] = t[2]
    BY <1>2, <2>1
  <2>4. Len(p \o q) = 2
    BY <1>2, <2>1
  <2>5. \A i \in 1..Len(p \o q) : (p \o q)[i] = t[i]
    BY <2>3, <2>4
  <2> QED
    BY <1>1, <1>2, <2>2, <2>4, <2>5, SeqEqual
<1> QED
  BY <1>3, <1>4 DEF p, q, t

LEMMA ScheduleDiscipline ==
  ASSUME IInv, Discipline, ScheduleValidation, UNCHANGED applicationVars
  PROVE  Discipline'
<1> DEFINE node == Task.node
           x == Execute([type |-> "cancel", node |-> node, request |-> active[node]])
           y == [op |-> "start", node |-> node]
<1>1. At("schedule") /\ overlapped' = overlapped
  BY DEF ScheduleValidation, observerVars
<1>2. agenda # << >> /\ Task = agenda[1] /\ agenda[1].op = "schedule" /\ ~Inner(agenda[1])
  BY <1>1, HeadTask DEF Inner
<1>3. /\ Neat(x) /\ Neat(y) /\ ~Inner(y) /\ x.op \notin Staging /\ y.op \notin Staging /\ Helps(x, y)
      /\ \A n : Touches(x, n) \/ Touches(y, n) => n = node
  BY DEF Execute, Neat, Inner, Staging, Preparing, Helps, Touches
<1>4. \A n \in Nodes : n = node => Touches(agenda[1], n)
  BY <1>2 DEF Touches
<1>5. \/ Do(<< >>)
      \/ Do((IF active[node] = NoRequest THEN << >> ELSE <<x>>)
            \o (IF CanValidate(nodes[node]) THEN <<y>> ELSE << >>))
  BY DEF ScheduleValidation
<1> HIDE DEF x, y, node
<1>6. ~overlapped' => \A i \in 2..Len(agenda) : \A n \in Nodes :
        Claims(agenda[i], n) => ~Touches(x, n) /\ ~Touches(y, n)
  BY <1>1, <1>2, <1>3, <1>4, HeadAlone
<1>7. Do(<< >>) \/ Do(<<x>>) \/ Do(<<y>>) \/ Do(<<x, y>>)
  <2>1. \/ Do(<< >>) \/ Do(<< >> \o << >>) \/ Do(<<x>> \o << >>)
        \/ Do(<< >> \o <<y>>) \/ Do(<<x>> \o <<y>>)
    BY <1>5
  <2> QED
    BY <2>1, ShortStacks
<1>8. CASE Do(<<y>>)
  BY <1>1, <1>2, <1>3, <1>6, <1>8, SoloDiscipline
<1>9. CASE Do(<<x, y>>)
  BY <1>1, <1>2, <1>3, <1>6, <1>9, PairDiscipline
<1>10. CASE Do(<<x>>)
  BY <1>1, <1>2, <1>3, <1>6, <1>10, SoloDiscipline
<1> QED
  BY <1>1, <1>2, <1>7, <1>8, <1>9, <1>10, PopDiscipline

LEMMA StartDiscipline ==
  ASSUME IInv, Discipline, StartValidation, UNCHANGED applicationVars
  PROVE  Discipline'
<1> DEFINE node == Task.node
           x == Execute([type |-> "start", node |-> node, request |-> requests + 1])
           y == [op |-> "launch", node |-> node, request |-> requests + 1]
<1>1. At("start") /\ overlapped' = overlapped
  BY DEF StartValidation, observerVars
<1>2. agenda # << >> /\ Task = agenda[1] /\ agenda[1].op = "start" /\ ~Inner(agenda[1])
  BY <1>1, HeadTask DEF Inner
<1>3. /\ Neat(x) /\ Neat(y) /\ ~Inner(y) /\ x.op \notin Staging /\ Helps(x, y)
      /\ \A n : Touches(x, n) \/ Touches(y, n) => n = node
  BY DEF Execute, Neat, Inner, Staging, Preparing, Helps, Touches
<1>4. \A n \in Nodes : n = node => Touches(agenda[1], n)
  BY <1>2 DEF Touches
<1>5. Do(<<x, y>>)
  BY DEF StartValidation
<1> HIDE DEF x, y, node
<1>6. ~overlapped' => \A i \in 2..Len(agenda) : \A n \in Nodes :
        Claims(agenda[i], n) => ~Touches(x, n) /\ ~Touches(y, n)
  BY <1>1, <1>2, <1>3, <1>4, HeadAlone
<1> QED
  BY <1>1, <1>2, <1>3, <1>5, <1>6, PairDiscipline

LEMMA LaunchDiscipline ==
  ASSUME IInv, Discipline, LaunchValidation \/ FinishDisposal, UNCHANGED applicationVars
  PROVE  Discipline'
<1>1. agenda # << >> /\ overlapped' = overlapped /\ Do(<< >>)
  BY HeadTask DEF LaunchValidation, FinishDisposal, observerVars
<1> QED
  BY <1>1, PopDiscipline

(* A turn that begins.                                                      *)
LEMMA TurnDiscipline ==
  ASSUME IInv, Discipline, agenda = << >>, NEW p, agenda' = p, Disciplined(p), Exclusive(p),
         \A op \in Staging : At(op)' => Idle(p)
  PROVE  Discipline'
BY DEF Discipline

LEMMA TurnOne ==
  ASSUME IInv, Discipline, agenda = << >>, NEW x, agenda' = <<x>>, Neat(x),
         x.op \in Staging => Meek(x)
  PROVE  Discipline'
<1> DEFINE p == <<x>>
<1>1. IsStack(p) /\ Len(p) = 1 /\ p[1] = x /\ agenda' = p
  BY StackOfOne
<1>2. \A op \in Staging : At(op)' => x.op \in Staging
  BY DEF At, Task
<1> HIDE DEF p
<1>3. \A i \in 1..1 : i = 1
  OBVIOUS
<1>4. Disciplined(p) /\ Exclusive(p)
  BY <1>1, <1>3 DEF Disciplined, Exclusive
<1>5. Meek(x) => Idle(p)
  BY <1>1, <1>3, MeekFacts DEF Idle
<1> QED
  BY <1>1, <1>2, <1>4, <1>5, TurnDiscipline

LEMMA AnswerDiscipline ==
  ASSUME IInv, Discipline, NEW answer \in answers, NEW verdict, AnswerValidation(answer, verdict),
         UNCHANGED applicationVars
  PROVE  Discipline'
<1> DEFINE x == Execute([type |-> "resolve", node |-> answer.node,
                         request |-> answer.request, verdict |-> verdict])
           s == << >>
<1>1. agenda = s /\ overlapped' = overlapped /\ IsStack(s) /\ Len(s) = 0
  BY EmptyStack DEF AnswerValidation, observerVars
<1>2. agenda' = s \/ agenda' = <<x>>
  BY DEF AnswerValidation
<1>3. Neat(x) /\ x.op \notin Staging
  BY DEF Execute, Neat, Staging, Preparing
<1>4. agenda = << >>
  BY <1>1
<1>5. agenda' = s => \A op : ~At(op)'
  BY DEF At
<1> HIDE DEF x, s
<1>6. CASE agenda' = s
  <2>1. Disciplined(s) /\ Exclusive(s)
    BY <1>1 DEF Disciplined, Exclusive
  <2> QED
    BY <1>4, <1>5, <1>6, <2>1, TurnDiscipline
<1>7. CASE agenda' = <<x>>
  BY <1>3, <1>4, <1>7, TurnOne
<1> QED
  BY <1>2, <1>6, <1>7

LEMMA InputDiscipline ==
  ASSUME IInv, Discipline, NEW n \in Nodes, NEW v \in Values, Input(n, v)
  PROVE  Discipline'
<1> DEFINE x == Emit("intent", {}, revision)
           y == Execute([type |-> "value", node |-> n, value |-> v])
           p == <<x, y>>
<1>1. agenda = << >> /\ agenda' = p
  BY DEF Input, Call
<1>2. Neat(x) /\ Neat(y) /\ ~Inner(x) /\ ~Inner(y) /\ x.op \notin Staging /\ \A m : ~Claims(y, m)
  BY DEF Emit, Execute, Neat, Inner, Claims, Staging, Preparing
<1> HIDE DEF x, y
<1>3. \A op \in Staging : ~At(op)'
  BY <1>1, <1>2 DEF At, Task
<1>4. IsStack(p) /\ Len(p) = 2 /\ p[1] = x /\ p[2] = y
  BY StackOfTwo
<1> HIDE DEF p
<1>5. \A i \in 1..2 : i = 1 \/ i = 2
  OBVIOUS
<1>6. Disciplined(p)
  BY <1>2, <1>4, <1>5 DEF Disciplined
<1>7. Exclusive(p)
  <2> SUFFICES ASSUME NEW i \in 1..Len(p), NEW j \in 1..Len(p), j < i PROVE Separate(p, i, j)
    BY DEF Exclusive
  <2>1. i = 2
    BY <1>4
  <2> QED
    BY <1>2, <1>4, <2>1 DEF Separate
<1> QED
  BY <1>1, <1>3, <1>6, <1>7, TurnDiscipline

LEMMA HostCallDiscipline ==
  ASSUME IInv, Discipline, \/ \E d \in Documents : Call(<<Update(d)>>)
                           \/ Call(<<[op |-> "dispose"]>>)
  PROVE  Discipline'
<1>1. \A d : Neat(Update(d)) /\ Meek(Update(d))
  BY DEF Neat, Meek, Update
<1>2. Neat([op |-> "dispose"]) /\ Meek([op |-> "dispose"])
  BY DEF Neat, Meek
<1>3. PICK x : Neat(x) /\ Meek(x) /\ Call(<<x>>)
  BY <1>1, <1>2
<1>4. agenda = << >> /\ agenda' = <<x>>
  BY <1>3 DEF Call
<1> QED
  BY <1>3, <1>4, TurnOne

-----------------------------------------------------------------------------
(* Discipline and the steps of an update.                                   *)

LEMMA EndDiscipline ==
  ASSUME IInv, Discipline, ProjectFact \/ FinishUpdate \/ Quarantine
  PROVE  Discipline'
<1>1. agenda # << >> /\ overlapped' = overlapped /\ Do(<< >>)
  BY HeadTask DEF ProjectFact, FinishUpdate, Quarantine, observerVars
<1> QED
  BY <1>1, PopDiscipline

LEMMA QuarantineDiscipline ==
  ASSUME IInv, Discipline, agenda # << >>, ~overlapped' => ~overlapped,
         Do(<<[op |-> "dispose"], [op |-> "quarantined"]>>)
  PROVE  Discipline'
<1> DEFINE x == [op |-> "dispose"]
           y == [op |-> "quarantined"]
<1>1. Meek(x) /\ Meek(y) /\ x.op \notin Staging
  BY DEF Meek, Staging, Preparing
<1> HIDE DEF x, y
<1>2. Do(<<x, y>>)
  BY DEF x, y
<1> QED
  BY <1>1, <1>2, MeekPair

(* A task that ends or goes on with the preparation of an update.           *)
LEMMA PreparingDiscipline ==
  ASSUME IInv, Discipline, NEW op \in Staging, At(op), ~overlapped' => ~overlapped,
         NEW x, Meek(x), Do(<<x>>)
  PROVE  Discipline'
<1>1. agenda # << >>
  BY HeadTask
<1>2. ~overlapped' => IdleBelow
  BY StagedIdle
<1> QED
  BY <1>1, <1>2, MeekOne

LEMMA DisposeApplicationDiscipline ==
  ASSUME IInv, Discipline, DisposeApplication \/ FailToRestore
  PROVE  Discipline'
<1> DEFINE x == Emit("disposed", {}, revision)
           y == [op |-> "disposed"]
<1>1. agenda # << >> /\ overlapped' = overlapped
  BY HeadTask DEF DisposeApplication, FailToRestore, observerVars
<1>2. Meek(x) /\ Meek(y) /\ x.op \notin Staging
  BY EmitMeek DEF Meek
<1>3. Do(<< >>) \/ Do(<<x, y>>) \/ Do(<<[op |-> "dispose"], [op |-> "quarantined"]>>)
  BY DEF DisposeApplication, FailToRestore, Dispose
<1> HIDE DEF x, y
<1> QED
  BY <1>1, <1>2, <1>3, PopDiscipline, MeekPair, QuarantineDiscipline

LEMMA UpdateDiscipline ==
  ASSUME IInv, Discipline, BeginUpdate \/ RenderCandidate \/ GiveUpCandidate \/ RestoreCandidate
  PROVE  Discipline'
<1>1. PICK op \in Staging : At(op)
  BY DEF BeginUpdate, RenderCandidate, GiveUpCandidate, RestoreCandidate, Staging, Preparing
<1>2. agenda # << >> /\ overlapped' = overlapped
  BY <1>1, HeadTask DEF BeginUpdate, RenderCandidate, GiveUpCandidate, RestoreCandidate, observerVars
<1>3. /\ \A o \in {"render", "giveUp"} : Meek([op |-> o, previous |-> document])
      /\ \A o \in {"commit", "restore"} : Meek(Later(o))
  BY DEF Meek, Later
<1>4. \/ Do(<< >>) \/ Do(<<[op |-> "dispose"], [op |-> "quarantined"]>>)
      \/ \E o \in {"render", "giveUp"} : Do(<<[op |-> o, previous |-> document]>>)
      \/ \E o \in {"commit", "restore"} : Do(<<Later(o)>>)
  BY DEF BeginUpdate, RenderCandidate, GiveUpCandidate, RestoreCandidate
<1>5. (\E x : Meek(x) /\ Do(<<x>>)) => Discipline'
  BY <1>1, <1>2, PreparingDiscipline
<1> QED
  BY <1>2, <1>3, <1>4, <1>5, PopDiscipline, QuarantineDiscipline

LEMMA CommitCandidateDiscipline ==
  ASSUME IInv, Discipline, CommitCandidate
  PROVE  Discipline'
<1> DEFINE S == Changed(savepoint.nodes, nodes) \cap Validated
<1>1. At("commit") /\ overlapped' = overlapped
  BY DEF CommitCandidate
<1>2. agenda # << >> /\ "commit" \in Staging
  BY <1>1, HeadTask DEF Staging, Preparing
<1>3. Do(CommitTasks(S)) \/ Do(<<Later("restore")>>)
  BY DEF CommitCandidate, CommitCoordination, CommitTasks
<1>4. CASE Do(<<Later("restore")>>)
  <2>1. Meek(Later("restore"))
    BY DEF Meek, Later
  <2> QED
    BY <1>1, <1>2, <1>4, <2>1, PreparingDiscipline
<1>5. CASE Do(CommitTasks(S))
  <2> DEFINE p == CommitTasks(S)
  <2>1. Do(p)
    BY <1>5
  <2>2. CommitShape(p, S)
    <3>1. IsFiniteSet(S)
      BY RuntimeAssumption, FS_Subset
    <3> QED
      BY <3>1, CommitStack
  <2> HIDE DEF p, S
  <2>3. /\ IsStack(p) /\ Len(p) \in Nat /\ Len(p) >= 3
        /\ p[1] = [op |-> "drain"] /\ p[Len(p)] = [op |-> "finish"]
        /\ \A i \in 2..(Len(p) - 1) :
             p[i] = Contained \/ \E n \in S : p[i] = [op |-> "schedule", node |-> n]
    BY <2>2 DEF CommitShape
  <2>4. \A i \in 1..Len(p) : p[i].op \in {"drain", "finish", "contained", "schedule"}
    <3>1. \A i \in 1..Len(p) : i = 1 \/ i = Len(p) \/ i \in 2..(Len(p) - 1)
      BY <2>3
    <3>2. \A i \in 2..(Len(p) - 1) : p[i].op \in {"contained", "schedule"}
      <4> SUFFICES ASSUME NEW i \in 2..(Len(p) - 1) PROVE p[i].op \in {"contained", "schedule"}
        OBVIOUS
      <4>1. CASE p[i] = Contained
        BY <4>1 DEF Contained
      <4>2. ASSUME NEW n \in S, p[i] = [op |-> "schedule", node |-> n]
            PROVE  p[i].op = "schedule"
        BY <4>2
      <4> QED
        BY <2>3, <4>1, <4>2
    <3>3. p[1].op = "drain" /\ p[Len(p)].op = "finish"
      BY <2>3
    <3> QED
      BY <3>1, <3>2, <3>3
  <2>5. \A i \in 1..Len(p) : Neat(p[i]) /\ ~Inner(p[i]) /\ \A n : ~Claims(p[i], n)
    BY <2>4 DEF Neat, Inner, Claims
  <2>6. Disciplined(p) /\ Exclusive(p)
    BY <2>5 DEF Disciplined, Exclusive, Separate
  <2>7. ~overlapped' => Apart(p)
    <3>1. ~overlapped => IdleBelow
      BY <1>1, <1>2, StagedIdle
    <3> QED
      BY <1>1, <3>1, IdleApart
  <2>8. Len(p) >= 1 => p[1].op \notin Staging
    BY <2>3 DEF Staging, Preparing
  <2> QED
    BY <1>1, <1>2, <2>1, <2>3, <2>6, <2>7, <2>8, DoDiscipline
<1> QED
  BY <1>3, <1>4, <1>5
-----------------------------------------------------------------------------
(* Steps that change neither controls nor validations nor stores.           *)

Uninvolved(s) == \A i \in 1..Len(s) : ~Inner(s[i])

LEMMA UninvolvedFacts ==
  ASSUME IsStack(agenda), Uninvolved(agenda)
  PROVE  CommandSound /\ \A n : ~Naming(n) /\ \A graph : ~Resolving(graph, n)
<1>1. ASSUME At("execute")
      PROVE  Task.command.type = "value"
  <2>1. agenda # << >> /\ Task = agenda[1] /\ Task.op = "execute" /\ 1 \in 1..Len(agenda)
    BY <1>1, StackFacts DEF At, Task
  <2> QED
    BY <2>1 DEF Uninvolved, Inner
<1> QED
  BY <1>1 DEF CommandSound, Naming, Resolving

LEMMA UninvolvedNext ==
  ASSUME IsStack(agenda'), Uninvolved(agenda')
  PROVE  CommandSound' /\ \A n : ~Naming(n)' /\ \A graph : ~Resolving(graph, n)'
<1> DEFINE s == agenda'
<1>1. ASSUME At("execute")'
      PROVE  Task'.command.type = "value"
  <2>1. s # << >> /\ Task' = Head(s) /\ Task'.op = "execute"
    BY <1>1 DEF At, Task
  <2>2. Head(s) = s[1] /\ Len(s) \in Nat /\ Len(s) # 0
    BY <2>1, StackFacts
  <2>3. 1 \in 1..Len(s)
    BY <2>2
  <2> QED
    BY <2>1, <2>2, <2>3 DEF Uninvolved, Inner
<1> QED
  BY <1>1 DEF CommandSound, Naming, Resolving

LEMMA UninvolvedHere ==
  ASSUME IInv, Discipline, agenda # << >> => ~Inner(agenda[1])
  PROVE  Uninvolved(agenda)
<1> SUFFICES ASSUME NEW i \in 1..Len(agenda), Inner(agenda[i]) PROVE FALSE
  BY DEF Uninvolved
<1>1. i = 1
  BY DEF Discipline, Disciplined
<1>2. agenda # << >>
  BY AgendaStack, EmptyStack
<1> QED
  BY <1>1, <1>2

LEMMA UninvolvedRest ==
  ASSUME NEW s, NEW t, NEW h, NEW k, Len(s) \in Nat, Rest(s, t, h, k),
         \A i \in 1..Len(s) : i > h => ~Inner(s[i]), \A j \in 1..k : ~Inner(t[j])
  PROVE  Uninvolved(t)
<1> SUFFICES ASSUME NEW j \in 1..Len(t), j \notin 1..k PROVE ~Inner(t[j])
  BY DEF Uninvolved
<1>1. t[j] = s[(j - k) + h] /\ (j - k) + h \in (h + 1)..Len(s) /\ (j - k) + h \in 1..Len(s) /\ h \in Nat
  BY RestIndex
<1>2. (j - k) + h > h
  BY <1>1
<1> QED
  BY <1>1, <1>2

\* Every launch of t is one of s.
Inherits(s, t) ==
  \A j \in 1..Len(t) : t[j].op = "launch" => \E i \in 1..Len(s) : s[i] = t[j]

LEMMA InheritsRest ==
  ASSUME NEW s, NEW t, NEW h, NEW k, Len(s) \in Nat, Rest(s, t, h, k),
         \A j \in 1..k : t[j].op # "launch"
  PROVE  Inherits(s, t)
<1> SUFFICES ASSUME NEW j \in 1..Len(t), j \notin 1..k PROVE \E i \in 1..Len(s) : s[i] = t[j]
  BY DEF Inherits
<1>1. t[j] = s[(j - k) + h] /\ (j - k) + h \in 1..Len(s)
  BY RestIndex
<1> QED
  BY <1>1

LEMMA RegisteredKept ==
  ASSUME Registered, Inherits(agenda, agenda'), lifecycle' = "active" => lifecycle = "active",
         UNCHANGED <<active, contexts>>
  PROVE  Registered'
BY DEF Registered, Inherits

LEMMA GoingBefore ==
  ASSUME IInv, throws' = 0 => throws = 0, ~overlapped' => ~overlapped,
         lifecycle' = "active" => lifecycle = "active"
  PROVE  Going' => Going
BY DEF Going

\* A task that is neither a validation's own nor its command.
Spare(task) == ~Inner(task) /\ task.op \notin {"start", "launch"}

(* Only controls are worked for.                                            *)
LEMMA PaysTyped ==
  ASSUME IInv, NEW i \in 1..Len(agenda), NEW n, NEW v, Pays(agenda[i], n, v)
  PROVE  n \in Nodes
<1>1. TaskOK(agenda[i], requests)
  BY DEF IInv, AgendaOK, Typed
<1>2. CASE agenda[i].op = "settle"
  BY <1>1, <1>2 DEF TaskOK, Pays, Does, Writing, Scheduling
<1>3. CASE Does(agenda[i], n, v)
  BY <1>1, <1>3 DEF TaskOK, Does, Writing
<1> QED
  BY <1>2, <1>3 DEF Pays

LEMMA QuietService ==
  ASSUME IInv, Service, Discipline', Going' => Going, ~unavailable' => ~unavailable,
         UNCHANGED <<nodes, active, contexts, adapter, lifecycle, savepoint>>,
         \A op \in Preparing : ~At(op), agenda # << >> => ~Inner(agenda[1]),
         IsStack(agenda'), NEW h, NEW k, Rest(agenda, agenda', h, k),
         \A j \in 1..k : Spare(agenda'[j]),
         \A j \in 1..k : \A n, v : Pays(agenda'[j], n, v) => agenda # << >> /\ Pays(agenda[1], n, v),
         Going' => \A n, v : Promised(agenda, n, v) => Promised(agenda', n, v)
  PROVE  Service'
<1> DEFINE t == agenda'
<1>1. IsStack(agenda) /\ Len(agenda) \in Nat /\ Uninvolved(agenda)
  BY AgendaStack, UninvolvedHere DEF Service
<1>2. Uninvolved(t)
  <2>1. \A i \in 1..Len(agenda) : i > h => ~Inner(agenda[i])
    BY <1>1 DEF Uninvolved
  <2>2. \A j \in 1..k : ~Inner(t[j])
    BY DEF Spare
  <2> HIDE DEF t
  <2>3. Rest(agenda, t, h, k)
    BY DEF t
  <2> QED
    BY <1>1, <2>1, <2>2, <2>3, UninvolvedRest
<1>3. Inherits(agenda, t)
  <2>1. \A j \in 1..k : t[j].op # "launch"
    BY DEF Spare
  <2> QED
    BY <1>1, <2>1, InheritsRest
<1>4. Registered'
  BY <1>3, RegisteredKept DEF Service
<1>5. \A j \in 1..Len(t) : j \in 1..k \/ \E i \in 1..Len(agenda) : agenda[i] = t[j]
  BY <1>1, RestIndex
<1>6. ASSUME Going'
      PROVE  Serving'
  <2>1. Going /\ throws = 0
    BY <1>6 DEF Going
  <2>2. savepoint = None /\ savepoint' = None
    BY <2>1, NoSavepoint
  <2>3. /\ \A i \in 1..Len(agenda) : Sound(agenda[i])
        /\ Answering(nodes) /\ (~unavailable => Stored(nodes))
    BY <2>1, <2>2 DEF Service, Serving
  <2>4. /\ CommandSound' /\ \A n : ~Naming(n)' /\ \A graph : ~Resolving(graph, n)'
    BY <1>2, UninvolvedNext
  <2>5. \A n : ~Naming(n) /\ \A graph : ~Resolving(graph, n)
    BY <1>1, UninvolvedFacts
  <2>6. \A n, v : Promised(agenda, n, v) => Promised(agenda', n, v)
    BY <1>6
  <2>7. ASSUME NEW j \in 1..Len(t)
        PROVE  Sound(agenda[j])'
    <3>1. ASSUME NEW i \in 1..Len(agenda), agenda[i] = t[j]
          PROVE  Sound(agenda[j])'
      <4>1. Sound(agenda[i])
        BY <2>3
      <4> QED
        BY <2>4, <2>5, <3>1, <4>1 DEF Sound
    <3>2. ASSUME j \in 1..k
          PROVE  Sound(agenda[j])'
      <4>1. t[j].op \notin {"start", "launch"}
        BY <3>2 DEF Spare
      <4>2. ASSUME NEW n, NEW v \in Values, Pays(t[j], n, v), ~unavailable
            PROVE  n \in DOMAIN nodes /\ nodes[n].value = v
        <5>1. agenda # << >> /\ Pays(agenda[1], n, v)
          BY <3>2, <4>2
        <5>2. 1 \in 1..Len(agenda)
          BY <1>1, <5>1, StackFacts
        <5>3. Sound(agenda[1])
          BY <2>3, <5>2
        <5>4. n \in Nodes
          BY <5>1, <5>2, <4>2, PaysTyped
        <5> QED
          BY <4>2, <5>1, <5>3, <5>4 DEF Sound
      <4> QED
        BY <4>1, <4>2 DEF Sound
    <3> QED
      BY <1>5, <3>1, <3>2
  <2>8. Answering(nodes)'
    BY <2>3, <2>4, <2>5, <2>6 DEF Answering
  <2>9. ~unavailable' => Stored(nodes)'
    BY <2>3, <2>6 DEF Stored
  <2> QED
    BY <2>2, <2>4, <2>7, <2>8, <2>9 DEF Serving
<1> QED
  BY <1>4, <1>6 DEF Service

(* The first task makes way for others.                                     *)
LEMMA DoService ==
  ASSUME IInv, Service, Discipline', Going' => Going, ~unavailable' => ~unavailable,
         UNCHANGED <<nodes, active, contexts, adapter, lifecycle, savepoint>>,
         agenda # << >>, agenda[1].op \notin Preparing, ~Inner(agenda[1]),
         NEW p, IsStack(p), Do(p), \A j \in 1..Len(p) : Spare(p[j]),
         \A j \in 1..Len(p) : \A n, v : Pays(p[j], n, v) => Pays(agenda[1], n, v),
         Going' => \A n, v : Pays(agenda[1], n, v) => Promised(p, n, v),
         Going' => ~Safe(agenda[1]) \/ Mild(p)
  PROVE  Service'
<1> DEFINE t == p \o Tail(agenda)
<1>1. IsStack(agenda) /\ IsStack(Tail(agenda)) /\ Task = agenda[1]
  BY AgendaStack, StackFacts DEF Task
<1>2. IsStack(t) /\ Rest(agenda, t, 1, Len(p)) /\ \A i \in 1..Len(p) : t[i] = p[i]
  BY <1>1, Pushing
<1>3. Going' => \A n, v : Promised(agenda, n, v) => Promised(t, n, v)
  <2> SUFFICES ASSUME Going', NEW n, NEW v, Promised(agenda, n, v) PROVE Promised(t, n, v)
    OBVIOUS
  <2>1. CASE Pays(agenda[1], n, v)
    BY <1>1, <2>1, PromisedAbove
  <2>2. CASE ~Pays(agenda[1], n, v)
    BY <1>1, <2>2, PromisedPush
  <2> QED
    BY <2>1, <2>2
<1>4. \A op \in Preparing : ~At(op)
  BY <1>1 DEF At
<1>5. agenda' = t
  BY DEF Do
<1> HIDE DEF t
<1> QED
  BY <1>2, <1>3, <1>4, <1>5, QuietService

LEMMA MeekSpare ==
  ASSUME NEW task, Meek(task)
  PROVE  Spare(task) /\ \A n, v : ~Pays(task, n, v)
BY DEF Meek, Spare, Inner, Pays, Does

\* A task that works for no control makes way for others like it.
LEMMA MeekService ==
  ASSUME IInv, Service, Discipline', Going' => Going, ~unavailable' => ~unavailable,
         UNCHANGED <<nodes, active, contexts, adapter, lifecycle, savepoint>>,
         agenda # << >>, agenda[1].op \notin Preparing, Meek(agenda[1]),
         NEW p, IsStack(p), Do(p), \A j \in 1..Len(p) : Meek(p[j]),
         Going' => ~Safe(agenda[1]) \/ Mild(p)
  PROVE  Service'
<1>1. ~Inner(agenda[1]) /\ \A n, v : ~Pays(agenda[1], n, v)
  BY MeekSpare DEF Spare
<1>2. \A j \in 1..Len(p) : Spare(p[j]) /\ \A n, v : ~Pays(p[j], n, v)
  BY MeekSpare
<1> QED
  BY <1>1, <1>2, DoService

LEMMA ThrowService ==
  ASSUME IInv, Service, Discipline', Going' => Going, ~unavailable' => ~unavailable,
         UNCHANGED <<nodes, active, contexts, adapter, lifecycle, savepoint>>,
         agenda # << >>, agenda[1].op \notin Preparing, Meek(agenda[1]), Throw,
         Going' => ~Safe(agenda[1])
  PROVE  Service'
<1>1. ~Inner(agenda[1]) /\ \A n, v : ~Pays(agenda[1], n, v)
  BY MeekSpare DEF Spare
<1>2. IsStack(agenda) /\ Task = agenda[1]
  BY AgendaStack, StackFacts DEF Task
<1>3. PICK h \in Nat, k \in Nat : UnwoundTo(agenda, agenda', h, k)
  BY <1>2, UnwoundShape DEF Throw
<1>4. IsStack(agenda') /\ Rest(agenda, agenda', h, k)
  BY <1>3 DEF UnwoundTo
<1>5. \A j \in 1..k : Meek(agenda'[j])
  <2>1. CASE k = 0
    BY <2>1
  <2>2. CASE k = 2 /\ agenda'[1] = Emit("rejected", {}, revision) /\ agenda'[2] = [op |-> "throw"]
    <3>1. Meek(agenda'[1]) /\ Meek(agenda'[2])
      BY <2>2 DEF Meek, Emit
    <3>2. \A j \in 1..k : j = 1 \/ j = 2
      BY <2>2
    <3> QED
      BY <3>1, <3>2
  <2> QED
    BY <1>3, <2>1, <2>2 DEF UnwoundTo
<1>6. \A j \in 1..k : Spare(agenda'[j]) /\ \A n, v : ~Pays(agenda'[j], n, v)
  BY <1>5, MeekSpare
<1>7. Going' => \A n, v : Promised(agenda, n, v) => Promised(agenda', n, v)
  BY <1>1, <1>2, <1>3, PromisedUnwound
<1>8. \A op \in Preparing : ~At(op)
  BY <1>2 DEF At
<1> QED
  BY <1>1, <1>4, <1>6, <1>7, <1>8, QuietService

(* A turn that begins, of tasks that work for no control yet.               *)
LEMMA TurnService ==
  ASSUME IInv, Service, Discipline', Going' => Going, ~unavailable' => ~unavailable,
         UNCHANGED <<nodes, active, contexts, adapter, lifecycle, savepoint>>,
         agenda = << >>, NEW p, IsStack(p), agenda' = p,
         \A j \in 1..Len(p) : Spare(p[j]) /\ \A n, v : ~Pays(p[j], n, v)
  PROVE  Service'
<1> DEFINE s == << >>
<1>1. agenda = s /\ Len(s) = 0 /\ Len(p) \in Nat
  BY EmptyStack, StackFacts
<1> HIDE DEF s
<1>2. Rest(agenda, agenda', 0, Len(p))
  BY <1>1 DEF Rest
<1>3. \A n, v : ~Promised(agenda, n, v)
  BY <1>1 DEF Promised
<1>4. \A op : ~At(op)
  BY DEF At
<1> QED
  BY <1>1, <1>2, <1>3, <1>4, QuietService

LEMMA DoInherits ==
  ASSUME IInv, agenda # << >>, NEW p, IsStack(p), Do(p), \A j \in 1..Len(p) : p[j].op # "launch"
  PROVE  Inherits(agenda, agenda')
<1> DEFINE t == p \o Tail(agenda)
<1>1. IsStack(agenda) /\ Len(agenda) \in Nat
  BY AgendaStack
<1>2. Rest(agenda, t, 1, Len(p)) /\ \A i \in 1..Len(p) : t[i] = p[i]
  BY <1>1, Pushing
<1>3. agenda' = t
  BY DEF Do
<1> HIDE DEF t
<1>4. \A j \in 1..Len(p) : t[j].op # "launch"
  BY <1>2
<1> QED
  BY <1>1, <1>2, <1>3, <1>4, InheritsRest

LEMMA ThrowInherits ==
  ASSUME IInv, agenda # << >>, Throw
  PROVE  Inherits(agenda, agenda')
<1>1. IsStack(agenda) /\ Len(agenda) \in Nat
  BY AgendaStack
<1>2. PICK h \in Nat, k \in Nat : UnwoundTo(agenda, agenda', h, k)
  BY <1>1, UnwoundShape DEF Throw
<1>3. \A j \in 1..k : agenda'[j].op # "launch"
  <2>1. CASE k = 0
    BY <2>1
  <2>2. CASE k = 2 /\ agenda'[1] = Emit("rejected", {}, revision) /\ agenda'[2] = [op |-> "throw"]
    <3>1. agenda'[1].op # "launch" /\ agenda'[2].op # "launch"
      BY <2>2 DEF Emit
    <3>2. \A j \in 1..k : j = 1 \/ j = 2
      BY <2>2
    <3> QED
      BY <3>1, <3>2
  <2> QED
    BY <1>2, <2>1, <2>2 DEF UnwoundTo
<1> QED
  BY <1>1, <1>2, <1>3, InheritsRest DEF UnwoundTo

(* Stacks of at most two tasks of which no exception leaves.                *)
LEMMA ShortMild ==
  /\ IsStack(<< >>) /\ Len(<< >>) = 0 /\ Mild(<< >>)
  /\ \A x : IsStack(<<x>>) /\ Len(<<x>>) = 1 /\ <<x>>[1] = x /\ (Safe(x) => Mild(<<x>>))
  /\ \A x, y : /\ IsStack(<<x, y>>) /\ Len(<<x, y>>) = 2 /\ <<x, y>>[1] = x /\ <<x, y>>[2] = y
               /\ Safe(y) /\ (Safe(x) \/ y.op = "contained") => Mild(<<x, y>>)
<1>1. IsStack(<< >>) /\ Len(<< >>) = 0 /\ Mild(<< >>)
  <2> DEFINE s == << >>
  <2>1. IsStack(s) /\ Len(s) = 0
    BY EmptyStack
  <2> HIDE DEF s
  <2>2. Mild(s)
    BY <2>1 DEF Mild
  <2> QED
    BY <2>1, <2>2 DEF s
<1>2. ASSUME NEW x
      PROVE  IsStack(<<x>>) /\ Len(<<x>>) = 1 /\ <<x>>[1] = x /\ (Safe(x) => Mild(<<x>>))
  <2> DEFINE s == <<x>>
  <2>1. IsStack(s) /\ Len(s) = 1 /\ s[1] = x
    BY StackOfOne
  <2> HIDE DEF s
  <2>2. \A i \in 1..1 : i = 1
    OBVIOUS
  <2>3. Safe(x) => Mild(s)
    BY <2>1, <2>2 DEF Mild
  <2> QED
    BY <2>1, <2>3 DEF s
<1>3. ASSUME NEW x, NEW y
      PROVE  /\ IsStack(<<x, y>>) /\ Len(<<x, y>>) = 2 /\ <<x, y>>[1] = x /\ <<x, y>>[2] = y
             /\ Safe(y) /\ (Safe(x) \/ y.op = "contained") => Mild(<<x, y>>)
  <2> DEFINE s == <<x, y>>
  <2>1. IsStack(s) /\ Len(s) = 2 /\ s[1] = x /\ s[2] = y
    BY StackOfTwo
  <2> HIDE DEF s
  <2>2. \A i \in 1..2 : i = 1 \/ i = 2
    OBVIOUS
  <2>3. 2 \in (1 + 1)..2
    OBVIOUS
  <2>4. Safe(y) /\ (Safe(x) \/ y.op = "contained") => Mild(s)
    BY <2>1, <2>2, <2>3 DEF Mild
  <2> QED
    BY <2>1, <2>4 DEF s
<1> QED
  BY <1>1, <1>2, <1>3
-----------------------------------------------------------------------------
(* Facts, observers, effects that are requested and the ends of calls.      *)

LEMMA MeekShort ==
  ASSUME IInv, Service, Discipline', Going' => Going, ~unavailable' => ~unavailable,
         UNCHANGED <<nodes, active, contexts, adapter, lifecycle, savepoint>>,
         agenda # << >>, agenda[1].op \notin Preparing, Meek(agenda[1]),
         \/ Do(<< >>)
         \/ \E x : Do(<<x>>) /\ Meek(x) /\ Safe(x)
         \/ \E x, y : /\ Do(<<x, y>>) /\ Meek(x) /\ Meek(y)
                      /\ ~Safe(agenda[1]) \/ (Safe(y) /\ (Safe(x) \/ y.op = "contained"))
  PROVE  Service'
<1>1. ASSUME Do(<< >>)
      PROVE  Service'
  <2> DEFINE p == << >>
  <2>1. IsStack(p) /\ Len(p) = 0 /\ Mild(p) /\ Do(p)
    BY <1>1, ShortMild
  <2> HIDE DEF p
  <2> QED
    BY <2>1, MeekService
<1>2. ASSUME NEW x, Do(<<x>>), Meek(x), Safe(x)
      PROVE  Service'
  <2> DEFINE p == <<x>>
  <2>1. IsStack(p) /\ Len(p) = 1 /\ p[1] = x /\ Mild(p) /\ Do(p)
    BY <1>2, ShortMild
  <2> HIDE DEF p
  <2>2. \A i \in 1..1 : i = 1
    OBVIOUS
  <2>3. \A j \in 1..Len(p) : Meek(p[j])
    BY <1>2, <2>1, <2>2
  <2> QED
    BY <2>1, <2>3, MeekService
<1>3. ASSUME NEW x, NEW y, Do(<<x, y>>), Meek(x), Meek(y),
             ~Safe(agenda[1]) \/ (Safe(y) /\ (Safe(x) \/ y.op = "contained"))
      PROVE  Service'
  <2> DEFINE p == <<x, y>>
  <2>1. IsStack(p) /\ Len(p) = 2 /\ p[1] = x /\ p[2] = y /\ Do(p)
    BY <1>3, ShortMild
  <2>2. ~Safe(agenda[1]) \/ Mild(p)
    BY <1>3, ShortMild
  <2> HIDE DEF p
  <2>3. \A i \in 1..2 : i = 1 \/ i = 2
    OBVIOUS
  <2>4. \A j \in 1..Len(p) : Meek(p[j])
    BY <1>3, <2>1, <2>3
  <2> QED
    BY <2>1, <2>2, <2>4, MeekService
<1> QED
  BY <1>1, <1>2, <1>3

LEMMA EmitService ==
  ASSUME IInv, Service, EmitFact, UNCHANGED applicationVars
  PROVE  Service'
<1>1. Discipline'
  BY EmitDiscipline DEF Service
<1>2. /\ UNCHANGED <<nodes, active, contexts, adapter, lifecycle, savepoint, throws, overlapped>>
      /\ UNCHANGED unavailable
  BY DEF EmitFact, storeVars, validationVars, observerVars, applicationVars
<1>3. Going' => Going
  BY <1>2 DEF Going
<1>4. agenda # << >> /\ agenda[1].op = "emit"
  BY HeadTask DEF EmitFact
<1>5. Meek(agenda[1]) /\ agenda[1].op \notin Preparing
  BY <1>4 DEF Meek, Preparing
<1>6. CASE Do(<< >>)
  BY <1>1, <1>2, <1>3, <1>4, <1>5, <1>6, MeekShort
<1>7. ASSUME NEW fact, Do(Deliver(fact))
      PROVE  Service'
  <2> DEFINE x == [op |-> "project", fact |-> fact]
             y == [op |-> "observe", fact |-> fact]
  <2>1. Meek(x) /\ Meek(y) /\ Safe(x) /\ Safe(y)
    BY DEF Meek, Safe
  <2>2. Do(<<x, y>>)
    BY <1>7 DEF Deliver
  <2> HIDE DEF x, y
  <2> QED
    BY <1>1, <1>2, <1>3, <1>4, <1>5, <2>1, <2>2, MeekShort
<1>8. CASE lifecycle = "disposed" /\ Throw
  <2>1. ~Going'
    BY <1>2, <1>8 DEF Going
  <2> QED
    BY <1>1, <1>2, <1>3, <1>4, <1>5, <1>8, <2>1, ThrowService
<1> QED
  BY <1>6, <1>7, <1>8 DEF EmitFact

LEMMA DrainService ==
  ASSUME IInv, Service, DrainFact, UNCHANGED applicationVars
  PROVE  Service'
<1>1. Discipline'
  BY DrainDiscipline DEF Service
<1>2. /\ UNCHANGED <<nodes, active, contexts, adapter, lifecycle, savepoint, throws, overlapped>>
      /\ UNCHANGED unavailable
  BY DEF DrainFact, storeVars, validationVars, observerVars, applicationVars
<1>3. Going' => Going
  BY <1>2 DEF Going
<1>4. /\ agenda # << >> /\ agenda[1].op = "drain" /\ IsStack(agenda) /\ Len(agenda) \in Nat
      /\ At("drain") /\ Task = agenda[1]
  BY HeadTask, AgendaStack DEF DrainFact
<1>5. Meek(agenda[1]) /\ agenda[1].op \notin Preparing
  BY <1>4 DEF Meek, Preparing
<1>6. CASE Do(<< >>)
  BY <1>1, <1>2, <1>3, <1>4, <1>5, <1>6, MeekShort
<1>7. ~Inner(agenda[1]) /\ \A op \in Preparing : ~At(op)
  BY <1>4, <1>5, MeekSpare DEF Spare, At
<1>8. CASE UNCHANGED agenda
  <2>1. Rest(agenda, agenda', 0, 0)
    BY <1>4, <1>8 DEF Rest
  <2>2. \A j \in 1..0 : FALSE
    OBVIOUS
  <2> QED
    BY <1>1, <1>2, <1>3, <1>4, <1>7, <1>8, <2>1, <2>2, QuietService
<1>9. ASSUME NEW fact, agenda' = Deliver(fact) \o <<Contained>> \o agenda
      PROVE  Service'
  <2> DEFINE x == [op |-> "project", fact |-> fact]
             y == [op |-> "observe", fact |-> fact]
             d == <<x, y>>
             c == <<Contained>>
             p == d \o c
             t == p \o agenda
  <2>1. Meek(x) /\ Meek(y) /\ Safe(x) /\ Safe(y) /\ Meek(Contained) /\ Safe(Contained)
    BY DEF Meek, Safe, Contained
  <2>2. /\ IsStack(d) /\ Len(d) = 2 /\ d[1] = x /\ d[2] = y
        /\ IsStack(c) /\ Len(c) = 1 /\ c[1] = Contained
    BY StackOfTwo, StackOfOne
  <2>3. agenda' = t
    <3>1. d \o c \o agenda = (d \o c) \o agenda
      OBVIOUS
    <3> QED
      BY <1>9, <3>1 DEF Deliver
  <2> HIDE DEF x, y, d, c
  <2>4. /\ IsStack(p) /\ Len(p) = Len(d) + Len(c)
        /\ \A i \in 1..Len(d) : p[i] = d[i]
        /\ \A i \in 1..Len(c) : p[Len(d) + i] = c[i]
    <3>1. IsStack(d) /\ IsStack(c)
      BY <2>2
    <3> QED
      BY <3>1, JoinedStack
  <2> HIDE DEF p
  <2>5. Len(p) = 3 /\ p[1] = x /\ p[2] = y /\ p[2 + 1] = Contained
    BY <2>2, <2>4
  <2>6. \A j \in 1..Len(p) : Meek(p[j]) /\ Safe(p[j])
    <3>1. \A j \in 1..3 : j = 1 \/ j = 2 \/ j = 3
      OBVIOUS
    <3> QED
      BY <2>1, <2>5, <3>1
  <2>7. IsStack(t) /\ Rest(agenda, t, 0, Len(p)) /\ \A i \in 1..Len(p) : t[i] = p[i]
    BY <1>4, <2>4, Prepending
  <2>8. \A n, v : Promised(agenda, n, v) => Promised(t, n, v)
    BY <1>4, <2>4, <2>6, PromisedBelow
  <2> HIDE DEF t
  <2>9. \A j \in 1..Len(p) : Spare(t[j]) /\ \A n, v : ~Pays(t[j], n, v)
    BY <2>6, <2>7, MeekSpare
  <2> QED
    BY <1>1, <1>2, <1>3, <1>7, <2>3, <2>7, <2>8, <2>9, QuietService
<1> QED
  BY <1>6, <1>8, <1>9 DEF DrainFact
LEMMA ReactionService ==
  ASSUME IInv, Service, Discipline', Going' => Going, ~unavailable' => ~unavailable,
         UNCHANGED <<nodes, active, contexts, adapter, lifecycle, savepoint>>,
         At("observe"), NEW x, Reaction(x), Spare(x), \A n, v : ~Pays(x, n, v)
  PROVE  Service'
<1> DEFINE p == <<x, Contained>>
<1>1. /\ IsStack(p) /\ Len(p) = 2 /\ p[1] = x /\ p[2] = Contained
      /\ Safe(Contained) /\ (Safe(x) \/ Contained.op = "contained") => Mild(p)
  BY ShortMild
<1>2. Do(p)
  BY DEF Reaction
<1> HIDE DEF p
<1>3. Mild(p) /\ Spare(Contained) /\ \A n, v : ~Pays(Contained, n, v)
  BY <1>1 DEF Safe, Contained, Spare, Inner, Pays, Does
<1>4. \A i \in 1..2 : i = 1 \/ i = 2
  OBVIOUS
<1>5. \A j \in 1..Len(p) : Spare(p[j]) /\ \A n, v : ~Pays(p[j], n, v)
  BY <1>1, <1>3, <1>4
<1>6. agenda # << >> /\ agenda[1].op = "observe"
  BY HeadTask
<1>7. ~Inner(agenda[1]) /\ agenda[1].op \notin Preparing /\ \A n, v : ~Pays(agenda[1], n, v)
  BY <1>6 DEF Inner, Preparing, Pays, Does
<1> QED
  BY <1>1, <1>2, <1>3, <1>5, <1>6, <1>7, DoService

LEMMA ObserveService ==
  ASSUME IInv, Service, Observe, UNCHANGED applicationVars
  PROVE  Service'
<1>1. Discipline'
  BY ObserveDiscipline DEF Service
<1>2. /\ UNCHANGED <<nodes, active, contexts, adapter, lifecycle, savepoint, throws>>
      /\ UNCHANGED unavailable
  BY DEF Observe, storeVars, validationVars, applicationVars
<1>3. (~overlapped' => ~overlapped) /\ At("observe")
  <2>1. ASSUME NEW n, overlapped' = (overlapped \/ n \in Busy)
        PROVE  ~overlapped' => ~overlapped
    BY <2>1
  <2>2. overlapped' = overlapped \/ \E n : overlapped' = (overlapped \/ n \in Busy)
    BY DEF Observe
  <2> QED
    BY <2>1, <2>2 DEF Observe
<1>4. Going' => Going
  BY <1>2, <1>3 DEF Going
<1>5. agenda # << >> /\ agenda[1].op = "observe"
  BY <1>3, HeadTask
<1>6. Meek(agenda[1]) /\ agenda[1].op \notin Preparing
  BY <1>5 DEF Meek, Preparing
<1>7. CASE Do(<< >>)
  BY <1>1, <1>2, <1>4, <1>5, <1>6, <1>7, MeekShort
<1>8. ASSUME NEW n, NEW v, Reaction(Execute([type |-> "value", node |-> n, value |-> v]))
      PROVE  Service'
  <2> DEFINE x == Execute([type |-> "value", node |-> n, value |-> v])
  <2>1. Spare(x) /\ \A m, w : ~Pays(x, m, w)
    BY DEF Spare, Inner, Execute, Pays, Does
  <2> HIDE DEF x
  <2>2. Reaction(x)
    BY <1>8 DEF x
  <2> QED
    BY <1>1, <1>2, <1>3, <1>4, <2>1, <2>2, ReactionService
<1> QED
  BY <1>7, <1>8 DEF Observe

LEMMA ObserveStructurallyService ==
  ASSUME IInv, Service, ObserveStructurally
  PROVE  Service'
<1>1. Discipline'
  BY ObserveStructurallyDiscipline DEF Service
<1>2. /\ UNCHANGED <<nodes, active, contexts, adapter, lifecycle, savepoint, throws>>
      /\ UNCHANGED unavailable
  BY DEF ObserveStructurally, storeVars, validationVars, applicationVars
<1>3. (~overlapped' => ~overlapped) /\ At("observe")
  <2>1. CASE overlapped' = (overlapped \/ Busy # {})
    BY <2>1 DEF ObserveStructurally
  <2>2. CASE overlapped' = overlapped
    BY <2>2 DEF ObserveStructurally
  <2> QED
    BY <2>1, <2>2 DEF ObserveStructurally
<1>4. Going' => Going
  BY <1>2, <1>3 DEF Going
<1>5. \A d : Spare(Update(d)) /\ \A n, v : ~Pays(Update(d), n, v)
  BY DEF Update, Spare, Inner, Pays, Does
<1>6. LET x == [op |-> "dispose"] IN Spare(x) /\ \A n, v : ~Pays(x, n, v)
  BY DEF Spare, Inner, Pays, Does
<1>7. PICK x : Reaction(x) /\ Spare(x) /\ \A n, v : ~Pays(x, n, v)
  BY <1>5, <1>6 DEF ObserveStructurally
<1> QED
  BY <1>1, <1>2, <1>3, <1>4, <1>7, ReactionService

(* Deferred work is taken up whole, in no task that throws.                 *)
LEMMA SettleService ==
  ASSUME IInv, Service, Settle, UNCHANGED applicationVars
  PROVE  Service'
<1>1. Discipline'
  BY SettleDiscipline DEF Service
<1>2. /\ UNCHANGED <<nodes, active, contexts, adapter, lifecycle, savepoint, throws, overlapped>>
      /\ UNCHANGED unavailable
  BY DEF Settle, storeVars, validationVars, observerVars, applicationVars
<1>3. Going' => Going
  BY <1>2 DEF Going
<1>4. /\ At("settle") /\ agenda # << >> /\ agenda[1].op = "settle" /\ Task = agenda[1]
      /\ TaskOK(Task, requests)
  BY HeadTask DEF Settle
<1>5. ~Inner(agenda[1]) /\ agenda[1].op \notin Preparing
  BY <1>4 DEF Inner, Preparing
<1>6. CASE savepoint # None
  <2>1. ~Going'
    <3>1. \A op \in Preparing : ~At(op)
      BY <1>4 DEF At, Preparing
    <3> QED
      BY <1>3, <1>6, <3>1, NoSavepoint DEF Going
  <2>2. Do(<< >>)
    BY <1>6 DEF Settle
  <2> DEFINE p == << >>
  <2>3. IsStack(p) /\ Len(p) = 0 /\ Do(p)
    BY <2>2, EmptyStack
  <2> HIDE DEF p
  <2> QED
    BY <1>1, <1>2, <1>3, <1>4, <1>5, <2>1, <2>3, DoService
<1>7. CASE savepoint = None
  <2> DEFINE p == Task.work
  <2>1. Do(p) /\ IsStack(p) /\ \A i \in 1..Len(p) : Writing("write", p[i]) \/ Scheduling(p[i])
    BY <1>4, <1>7 DEF Settle, TaskOK
  <2>2. \A i \in 1..Len(p) : p[i].op \in {"write", "schedule"}
    BY <2>1 DEF Writing, Scheduling
  <2>3. \A i \in 1..Len(p) : Spare(p[i]) /\ Safe(p[i]) /\ p[i].op # "settle"
    BY <2>2 DEF Spare, Inner, Safe
  <2>4. \A i \in 1..Len(p) : \A n, v : Pays(p[i], n, v) => Pays(agenda[1], n, v)
    BY <1>4, <2>3 DEF Pays
  <2>5. Mild(p)
    BY <2>3 DEF Mild
  <2>6. ASSUME NEW n, NEW v, Pays(agenda[1], n, v)
        PROVE  Promised(p, n, v)
    <3>1. ~Does(agenda[1], n, v)
      BY <1>4 DEF Does
    <3>2. PICK i \in 1..Len(p) : Does(p[i], n, v)
      BY <1>4, <2>6, <3>1 DEF Pays
    <3>3. Len(p) \in Nat
      BY <2>1, StackFacts
    <3>4. \A j \in 1..(i - 1) : j \in 1..Len(p)
      BY <3>3
    <3>5. Kept(p, i)
      BY <2>3, <3>4 DEF Kept
    <3> QED
      BY <3>2, <3>5 DEF Promised, Pays
  <2> HIDE DEF p
  <2> QED
    BY <1>1, <1>2, <1>3, <1>4, <1>5, <2>1, <2>3, <2>4, <2>5, <2>6, DoService
<1> QED
  BY <1>6, <1>7

LEMMA ResumeService ==
  ASSUME IInv, Service, Resume, UNCHANGED applicationVars
  PROVE  Service'
<1>1. Discipline'
  BY ResumeDiscipline DEF Service
<1>2. /\ UNCHANGED <<nodes, active, contexts, adapter, lifecycle, savepoint, throws, overlapped>>
      /\ UNCHANGED unavailable
  BY DEF Resume, storeVars, validationVars, observerVars, applicationVars
<1>3. Going' => Going
  BY <1>2 DEF Going
<1>4. PICK op \in {"contained", "rejecting", "throw"} :
        At(op) /\ (Do(<< >>) \/ (op = "throw" /\ Throw))
  <2>1. CASE (At("contained") \/ At("rejecting")) /\ Do(<< >>)
    BY <2>1
  <2>2. CASE At("throw") /\ Throw
    BY <2>2
  <2> QED
    BY <2>1, <2>2 DEF Resume
<1>5. agenda # << >> /\ agenda[1].op = op
  BY <1>4, HeadTask
<1>6. Meek(agenda[1]) /\ agenda[1].op \notin Preparing
  BY <1>5 DEF Meek, Preparing
<1>7. op = "throw" => ~Safe(agenda[1])
  BY <1>5 DEF Safe
<1> QED
  BY <1>1, <1>2, <1>3, <1>4, <1>5, <1>6, <1>7, MeekShort, ThrowService

LEMMA RequestWriteService ==
  ASSUME IInv, Service, RequestWrite, UNCHANGED applicationVars
  PROVE  Service'
<1> DEFINE x == Emit("requested", {}, revision)
           y == [Task EXCEPT !.op = "perform"]
           p == <<x, y>>
<1>1. Discipline'
  BY RequestWriteDiscipline DEF Service
<1>2. /\ UNCHANGED <<nodes, active, contexts, adapter, lifecycle, savepoint, throws, overlapped>>
      /\ UNCHANGED unavailable
  BY DEF RequestWrite, storeVars, validationVars, observerVars, applicationVars
<1>3. Going' => Going
  BY <1>2 DEF Going
<1>4. /\ agenda # << >> /\ agenda[1].op = "write" /\ Task = agenda[1] /\ TaskOK(Task, requests)
      /\ Task.op = "write"
  BY HeadTask DEF RequestWrite
<1>5. ~Inner(agenda[1]) /\ agenda[1].op \notin Preparing
  BY <1>4 DEF Inner, Preparing
<1>6. y.op = "perform" /\ y.node = Task.node /\ y.value = Task.value /\ Task.value \notin {NoVerdict, Anew}
  <2>1. Writing("write", Task)
    BY <1>4 DEF TaskOK
  <2> QED
    BY <2>1, RuntimeAssumption DEF Writing, NoVerdict, Anew
<1>7. x.op = "emit"
  BY DEF Emit
<1>8. Do(p)
  BY DEF RequestWrite
<1>9. IsStack(p) /\ Len(p) = 2 /\ p[1] = x /\ p[2] = y /\ (Safe(y) /\ (Safe(x) \/ y.op = "contained") => Mild(p))
  BY ShortMild
<1> HIDE DEF p, x, y
<1>10. Mild(p)
  BY <1>6, <1>7, <1>9 DEF Safe
<1>11. \A j \in 1..Len(p) : j = 1 \/ j = 2
  BY <1>9
<1>12. \A n, v : Pays(y, n, v) <=> Pays(agenda[1], n, v)
  BY <1>4, <1>6 DEF Pays, Does
<1>13. Spare(x) /\ Spare(y) /\ \A n, v : ~Pays(x, n, v)
  BY <1>6, <1>7 DEF Spare, Inner, Pays, Does
<1>14. \A j \in 1..Len(p) : Spare(p[j]) /\ \A n, v : Pays(p[j], n, v) => Pays(agenda[1], n, v)
  BY <1>9, <1>11, <1>12, <1>13
<1>15. Kept(p, 2)
  <2>1. \A j \in 1..(2 - 1) : j = 1
    OBVIOUS
  <2> QED
    BY <1>7, <1>9, <2>1 DEF Kept, Safe
<1>16. \A n, v : Pays(agenda[1], n, v) => Promised(p, n, v)
  <2>1. 2 \in 1..Len(p)
    BY <1>9
  <2> QED
    BY <1>9, <1>12, <1>15, <2>1 DEF Promised
<1> QED
  BY <1>1, <1>2, <1>3, <1>4, <1>5, <1>8, <1>9, <1>10, <1>14, <1>16, DoService

LEMMA EndService ==
  ASSUME IInv, Service, ProjectFact \/ FinishUpdate \/ Quarantine
  PROVE  Service'
<1>1. Discipline'
  BY EndDiscipline DEF Service
<1>2. /\ UNCHANGED <<nodes, active, contexts, adapter, lifecycle, savepoint, throws, overlapped>>
      /\ UNCHANGED unavailable /\ Do(<< >>)
  BY DEF ProjectFact, FinishUpdate, Quarantine, storeVars, validationVars, observerVars
<1>3. Going' => Going
  BY <1>2 DEF Going
<1>4. agenda # << >> /\ agenda[1].op \in {"project", "finish", "quarantined"}
  BY HeadTask DEF ProjectFact, FinishUpdate, Quarantine
<1>5. Meek(agenda[1]) /\ agenda[1].op \notin Preparing
  BY <1>4 DEF Meek, Preparing
<1> QED
  BY <1>1, <1>2, <1>3, <1>4, <1>5, MeekShort

LEMMA DisposeApplicationService ==
  ASSUME IInv, Service, DisposeApplication
  PROVE  Service'
<1> DEFINE x == Emit("disposed", {}, revision)
           y == [op |-> "disposed"]
<1>1. Discipline'
  BY DisposeApplicationDiscipline DEF Service
<1>2. /\ UNCHANGED <<nodes, active, contexts, adapter, lifecycle, savepoint, throws, overlapped>>
      /\ ~unavailable' => ~unavailable
  BY DEF DisposeApplication, storeVars, validationVars, observerVars
<1>3. Going' => Going
  BY <1>2 DEF Going
<1>4. agenda # << >> /\ agenda[1].op = "dispose"
  BY HeadTask DEF DisposeApplication
<1>5. Meek(agenda[1]) /\ agenda[1].op \notin Preparing /\ ~Safe(agenda[1])
  BY <1>4 DEF Meek, Preparing, Safe
<1>6. Meek(x) /\ Meek(y)
  BY DEF Meek, Emit
<1>7. Do(<< >>) \/ Do(<<x, y>>)
  BY DEF DisposeApplication, Dispose
<1> HIDE DEF x, y
<1> QED
  BY <1>1, <1>2, <1>3, <1>4, <1>5, <1>6, <1>7, MeekShort

LEMMA InputService ==
  ASSUME IInv, Service, NEW n \in Nodes, NEW v \in Values, Input(n, v)
  PROVE  Service'
<1> DEFINE x == Emit("intent", {}, revision)
           y == Execute([type |-> "value", node |-> n, value |-> v])
           p == <<x, y>>
<1>1. Discipline'
  BY InputDiscipline DEF Service
<1>2. /\ UNCHANGED <<nodes, active, contexts, adapter, lifecycle, savepoint, throws, overlapped>>
      /\ UNCHANGED unavailable /\ agenda = << >> /\ agenda' = p
  BY DEF Input, Call, storeVars, validationVars, observerVars
<1>3. Going' => Going
  BY <1>2 DEF Going
<1>4. /\ Spare(x) /\ Spare(y)
      /\ \A m, w : ~Pays(x, m, w) /\ ~Pays(y, m, w)
  BY DEF Spare, Inner, Execute, Emit, Pays, Does
<1>5. IsStack(p) /\ Len(p) = 2 /\ p[1] = x /\ p[2] = y
  BY StackOfTwo
<1> HIDE DEF p, x, y
<1>6. \A j \in 1..Len(p) : j = 1 \/ j = 2
  BY <1>5
<1>7. \A j \in 1..Len(p) : Spare(p[j]) /\ \A m, w : ~Pays(p[j], m, w)
  BY <1>4, <1>5, <1>6
<1> QED
  BY <1>1, <1>2, <1>3, <1>5, <1>7, TurnService

LEMMA HostCallService ==
  ASSUME IInv, Service, \/ \E d \in Documents : Call(<<Update(d)>>)
                        \/ Call(<<[op |-> "dispose"]>>)
  PROVE  Service'
<1>1. Discipline'
  BY HostCallDiscipline DEF Service
<1>2. \A d : Spare(Update(d)) /\ \A m, w : ~Pays(Update(d), m, w)
  BY DEF Update, Spare, Inner, Pays, Does
<1>3. LET x == [op |-> "dispose"] IN Spare(x) /\ \A m, w : ~Pays(x, m, w)
  BY DEF Spare, Inner, Pays, Does
<1>4. PICK x : Call(<<x>>) /\ Spare(x) /\ \A m, w : ~Pays(x, m, w)
  BY <1>2, <1>3
<1> DEFINE p == <<x>>
<1>5. /\ UNCHANGED <<nodes, active, contexts, adapter, lifecycle, savepoint, throws, overlapped>>
      /\ UNCHANGED unavailable /\ agenda = << >> /\ agenda' = p
  BY <1>4 DEF Call, storeVars, validationVars, observerVars
<1>6. Going' => Going
  BY <1>5 DEF Going
<1>7. IsStack(p) /\ Len(p) = 1 /\ p[1] = x
  BY StackOfOne
<1> HIDE DEF p
<1>8. \A j \in 1..Len(p) : j = 1
  BY <1>7
<1>9. \A j \in 1..Len(p) : Spare(p[j]) /\ \A m, w : ~Pays(p[j], m, w)
  BY <1>4, <1>7, <1>8
<1> QED
  BY <1>1, <1>5, <1>6, <1>7, <1>9, TurnService
-----------------------------------------------------------------------------
(* Stores and the ends of disposals.                                        *)

LEMMA FinishDisposalService ==
  ASSUME IInv, Service, FinishDisposal, UNCHANGED applicationVars
  PROVE  Service'
<1>1. Discipline' /\ lifecycle' = "disposed"
  BY LaunchDiscipline DEF Service, FinishDisposal
<1> QED
  BY <1>1 DEF Service, Registered, Going

LEMMA FailToRestoreService ==
  ASSUME IInv, Service, FailToRestore
  PROVE  Service'
<1> DEFINE x == [op |-> "dispose"]
           y == [op |-> "quarantined"]
           p == <<x, y>>
<1>1. Discipline'
  BY DisposeApplicationDiscipline DEF Service
<1>2. UNCHANGED <<active, contexts, lifecycle, throws>> /\ At("restore") /\ savepoint.settled /\ Do(p)
  BY DEF FailToRestore, validationVars, observerVars
<1>3. IsStack(p) /\ Len(p) = 2 /\ p[1] = x /\ p[2] = y
  BY StackOfTwo
<1>4. x.op # "launch" /\ y.op # "launch"
  OBVIOUS
<1> HIDE DEF p, x, y
<1>5. \A j \in 1..Len(p) : j = 1 \/ j = 2
  BY <1>3
<1>6. \A j \in 1..Len(p) : p[j].op # "launch"
  BY <1>3, <1>4, <1>5
<1>7. agenda # << >>
  BY <1>2, HeadTask
<1>8. Registered'
  BY <1>2, <1>3, <1>6, <1>7, DoInherits, RegisteredKept DEF Service
<1>9. throws > 0
  BY <1>2 DEF IInv, Control, Coordinated, Preparing
<1>10. ~Going'
  BY <1>2, <1>9 DEF Going
<1> QED
  BY <1>1, <1>8, <1>10 DEF Service

(* What is owed below a task that may throw is sheltered from it.           *)
LEMMA BelowKept ==
  ASSUME IInv, agenda # << >>, Meek(agenda[1]), ~Safe(agenda[1]), NEW p, IsStack(p), Do(p)
  PROVE  \A n, v : Promised(agenda, n, v) => Promised(agenda', n, v)
<1>1. IsStack(agenda) /\ \A n, v : ~Pays(agenda[1], n, v)
  BY AgendaStack, MeekSpare
<1> QED
  BY <1>1, PromisedPush DEF Do

LEMMA PreparingHead ==
  ASSUME IInv, NEW op \in Staging, At(op)
  PROVE  /\ agenda # << >> /\ Meek(agenda[1]) /\ ~Safe(agenda[1]) /\ agenda[1].op = op
         /\ Task = agenda[1]
<1>1. agenda # << >> /\ agenda[1].op = op /\ Task = agenda[1]
  BY HeadTask
<1> QED
  BY <1>1 DEF Meek, Safe, Staging, Preparing

LEMMA RenderCandidateService ==
  ASSUME IInv, Service, RenderCandidate
  PROVE  Service'
<1>1. At("render") /\ UNCHANGED <<nodes, active, contexts, adapter, lifecycle, savepoint, throws>>
      /\ UNCHANGED <<overlapped, unavailable>>
  BY DEF RenderCandidate, storeVars, validationVars, observerVars
<1>2. Discipline'
  BY UpdateDiscipline DEF Service
<1>3. PICK x : Do(<<x>>) /\ x.op \in {"commit", "restore"}
  <2>1. \A op : Later(op).op = op
    BY DEF Later
  <2> QED
    BY <2>1 DEF RenderCandidate
<1> DEFINE p == <<x>>
<1>4. IsStack(p) /\ Len(p) = 1 /\ p[1] = x /\ Do(p)
  BY <1>3, StackOfOne
<1> HIDE DEF p
<1>5. agenda # << >> /\ Meek(agenda[1]) /\ ~Safe(agenda[1])
  BY <1>1, PreparingHead DEF Staging, Preparing
<1>6. \A j \in 1..Len(p) : j = 1
  BY <1>4
<1>7. \A j \in 1..Len(p) : p[j].op # "launch"
  BY <1>3, <1>4, <1>6
<1>8. Registered'
  BY <1>1, <1>4, <1>5, <1>7, DoInherits, RegisteredKept DEF Service
<1>9. \A n, v : Promised(agenda, n, v) => Promised(agenda', n, v)
  BY <1>4, <1>5, BelowKept
<1>10. ASSUME Going'
       PROVE  Serving'
  <2>1. Going
    BY <1>1, <1>10 DEF Going
  <2>2. savepoint # None /\ ~At("giveUp")
    <3>1. savepoint # None
      BY <1>1 DEF IInv, Control, Coordinated, Preparing
    <3> QED
      BY <1>1, <3>1 DEF At
  <2>3. /\ Answering(savepoint.nodes)
        /\ \A n \in DOMAIN nodes : nodes[n].request = NoRequest
        /\ ~unavailable => Stored(nodes) /\ Stored(savepoint.nodes)
    BY <2>1, <2>2 DEF Service, Serving
  <2>4. \A graph, n : ~Resolving(graph, n)
    BY <1>1 DEF At, Resolving
  <2>5. savepoint' # None
    BY <1>1, <2>2 DEF None
  <2>6. Answering(savepoint.nodes)'
    BY <1>1, <1>9, <2>3, <2>4 DEF Answering
  <2>7. ~unavailable' => Stored(nodes)' /\ Stored(savepoint.nodes)'
    BY <1>1, <1>9, <2>3 DEF Stored
  <2>8. \A n \in DOMAIN nodes' : nodes'[n].request = NoRequest
    BY <1>1, <2>3
  <2> QED
    BY <2>5, <2>6, <2>7, <2>8 DEF Serving
<1> QED
  BY <1>2, <1>8, <1>10 DEF Service

\* The documents agree while no update is in progress.
LEMMA BoundNodes ==
  ASSUME IInv, ~unavailable, savepoint = None, NEW op, At(op), op \notin {"dispose", "quarantined"}
  PROVE  bindings = document /\ DOMAIN nodes = NodesOf[bindings]
<1>1. ~Pending("quarantined")
  <2>1. ~At("dispose")
    BY DEF At
  <2> QED
    BY <2>1 DEF IInv, Control, Phase
<1> QED
  BY <1>1 DEF IInv, Control, Agreed

(* Tasks below one that is done are sound as before.                        *)
LEMMA SoundTail ==
  ASSUME IInv, agenda # << >>, NEW p, IsStack(p), Do(p),
         \A i \in 2..Len(agenda) : \A j : agenda'[j] = agenda[i] => Sound(agenda[j])',
         \A j \in 1..Len(p) : \A i : agenda'[i] = p[j] => Sound(agenda[i])'
  PROVE  \A j \in 1..Len(agenda') : Sound(agenda[j])'
<1> DEFINE t == p \o Tail(agenda)
<1>1. IsStack(agenda) /\ Len(agenda) \in Nat
  BY AgendaStack
<1>2. Rest(agenda, t, 1, Len(p)) /\ \A i \in 1..Len(p) : t[i] = p[i]
  BY <1>1, Pushing
<1>3. agenda' = t
  BY DEF Do
<1> HIDE DEF t
<1> SUFFICES ASSUME NEW j \in 1..Len(t) PROVE Sound(agenda[j])'
  BY <1>3
<1>4. CASE j \in 1..Len(p)
  BY <1>2, <1>3, <1>4
<1>5. CASE j \notin 1..Len(p)
  <2>1. t[j] = agenda[(j - Len(p)) + 1] /\ (j - Len(p)) + 1 \in (1 + 1)..Len(agenda)
    BY <1>1, <1>2, <1>5, RestIndex
  <2>2. (j - Len(p)) + 1 \in 2..Len(agenda)
    BY <2>1
  <2> QED
    BY <1>3, <2>1, <2>2
<1> QED
  BY <1>4, <1>5
\* Only the first task is a command of a validation.
LEMMA CommandsBelow ==
  ASSUME IInv, Service, agenda # << >>, NEW p, IsStack(p), Do(p), \A j \in 1..Len(p) : ~Inner(p[j])
  PROVE  IsStack(agenda') /\ CommandSound' /\ \A n : ~Naming(n)' /\ \A graph : ~Resolving(graph, n)'
<1> DEFINE t == p \o Tail(agenda)
<1>1. IsStack(agenda) /\ Len(agenda) \in Nat
  BY AgendaStack
<1>2. IsStack(t) /\ Rest(agenda, t, 1, Len(p)) /\ \A i \in 1..Len(p) : t[i] = p[i]
  BY <1>1, Pushing
<1>3. agenda' = t
  BY DEF Do
<1> HIDE DEF t
<1>4. \A i \in 1..Len(agenda) : i > 1 => ~Inner(agenda[i])
  BY <1>1 DEF Service, Discipline, Disciplined
<1>5. \A j \in 1..Len(p) : ~Inner(t[j])
  BY <1>2
<1>6. Uninvolved(t)
  BY <1>1, <1>2, <1>4, <1>5, UninvolvedRest
<1> QED
  BY <1>2, <1>3, <1>6, UninvolvedNext

LEMMA NoCommand ==
  ASSUME IInv, Service, agenda # << >>, ~Inner(agenda[1])
  PROVE  \A n : ~Naming(n) /\ \A graph : ~Resolving(graph, n)
BY AgendaStack, UninvolvedHere, UninvolvedFacts DEF Service

\* What holds of the next task and of all others when no update is staged.
LEMMA ServingFacts ==
  ASSUME IInv, Service, Going, NEW op, At(op), op \notin Preparing
  PROVE  /\ savepoint = None /\ throws = 0
         /\ \A i \in 1..Len(agenda) : Sound(agenda[i])
         /\ agenda # << >> /\ agenda[1].op = op /\ Task = agenda[1] /\ 1 \in 1..Len(agenda)
         /\ Sound(agenda[1]) /\ TaskOK(Task, requests)
         /\ CommandSound /\ Answering(nodes)
         /\ ~unavailable => Stored(nodes)
<1>1. agenda # << >> /\ agenda[1].op = op /\ Task = agenda[1] /\ 1 \in 1..Len(agenda) /\ TaskOK(Task, requests)
  BY HeadTask
<1>2. \A o \in Preparing : ~At(o)
  BY DEF At
<1>3. throws = 0 /\ savepoint = None
  BY <1>2, NoSavepoint DEF Going
<1> QED
  BY <1>1, <1>3 DEF Service, Serving

(* A store is written what its control has.                                 *)
LEMMA WriteStoreService ==
  ASSUME IInv, Service, WriteStore, UNCHANGED applicationVars
  PROVE  Service'
<1> DEFINE node == Task.node
<1>1. /\ UNCHANGED <<nodes, active, contexts, lifecycle, savepoint, throws, overlapped>>
      /\ UNCHANGED unavailable /\ At("perform")
  BY DEF WriteStore, storeVars, validationVars, observerVars, applicationVars
<1>2. Discipline'
  BY WriteStoreDiscipline DEF Service
<1>3. /\ agenda # << >> /\ agenda[1].op = "perform" /\ Task = agenda[1] /\ Task.op = "perform"
      /\ TaskOK(Task, requests)
  BY <1>1, HeadTask
<1>4. Writing("perform", Task)
  BY <1>3 DEF TaskOK
<1>5. PICK p : Do(p) /\ IsStack(p) /\ Mild(p) /\ \A j \in 1..Len(p) : Meek(p[j])
  <2>1. CASE Do(<< >>)
    <3> DEFINE p == << >>
    <3>1. Do(p) /\ IsStack(p) /\ Mild(p) /\ Len(p) = 0
      BY <2>1, ShortMild
    <3> HIDE DEF p
    <3> QED
      BY <3>1
  <2>2. CASE Do(<<Emit("settled", {}, revision)>>)
    <3> DEFINE x == Emit("settled", {}, revision)
               p == <<x>>
    <3>1. Do(p) /\ IsStack(p) /\ (Safe(x) => Mild(p)) /\ Len(p) = 1 /\ p[1] = x
      BY <2>2, ShortMild
    <3>2. Safe(x) /\ Meek(x)
      BY DEF Safe, Meek, Emit
    <3> HIDE DEF p, x
    <3>3. \A j \in 1..Len(p) : j = 1
      BY <3>1
    <3> QED
      BY <3>1, <3>2, <3>3
  <2> QED
    BY <2>1, <2>2 DEF WriteStore
<1>6. \A j \in 1..Len(p) : Spare(p[j]) /\ ~Inner(p[j]) /\ p[j].op # "launch"
                          /\ \A n, v : ~Pays(p[j], n, v)
  BY <1>5, MeekSpare DEF Spare
<1>7. Registered'
  BY <1>1, <1>3, <1>5, <1>6, DoInherits, RegisteredKept DEF Service
<1>8. IsStack(agenda) /\ ~Inner(agenda[1])
  BY <1>3, AgendaStack DEF Inner
<1>9. \A n, v : Promised(agenda, n, v) /\ ~Pays(agenda[1], n, v) => Promised(agenda', n, v)
  BY <1>3, <1>5, <1>8, PromisedPush DEF Do
<1>10. ASSUME Going'
       PROVE  Serving'
  <2>1. Going
    BY <1>1, <1>10 DEF Going
  <2>2. /\ savepoint = None /\ \A i \in 1..Len(agenda) : Sound(agenda[i])
        /\ Sound(agenda[1]) /\ Answering(nodes) /\ (~unavailable => Stored(nodes))
    BY <1>1, <2>1, ServingFacts DEF Preparing
  <2>3. /\ \A n : ~Naming(n) /\ \A graph : ~Resolving(graph, n)
        /\ CommandSound' /\ \A n : ~Naming(n)' /\ \A graph : ~Resolving(graph, n)'
    BY <1>3, <1>5, <1>6, <1>8, NoCommand, CommandsBelow
  <2>4. \A j \in 1..Len(agenda') : Sound(agenda[j])'
    <3>1. ASSUME NEW i \in 2..Len(agenda), NEW j, agenda'[j] = agenda[i]
          PROVE  Sound(agenda[j])'
      <4>1. Sound(agenda[i])
        <5>1. i \in 1..Len(agenda)
          BY <1>8, StackFacts
        <5> QED
          BY <2>2, <5>1
      <4> QED
        BY <1>1, <2>3, <3>1, <4>1 DEF Sound
    <3>2. ASSUME NEW i \in 1..Len(p), NEW j, agenda'[j] = p[i]
          PROVE  Sound(agenda[j])'
      <4>1. p[i].op \notin {"start", "launch"} /\ \A n, v : ~Pays(p[i], n, v)
        BY <1>6 DEF Spare
      <4> QED
        BY <3>2, <4>1 DEF Sound
    <3> QED
      BY <1>3, <1>5, <3>1, <3>2, SoundTail
  <2>5. \A n, control : ~Pays(agenda[1], n, Debt(control))
    BY <1>3 DEF Pays, Does, Debt
  <2>6. Answering(nodes)'
    BY <1>1, <1>9, <2>2, <2>3, <2>5 DEF Answering
  <2>7. ASSUME ~unavailable'
        PROVE  Stored(nodes)'
    <3>1. ~unavailable /\ Stored(nodes)
      BY <1>1, <2>2, <2>7
    <3>2. node \in DOMAIN nodes /\ nodes[node].value = Task.value
      <4>1. Pays(agenda[1], node, Task.value)
        <5>1. Task.value \notin {NoVerdict, Anew}
          BY <1>4, RuntimeAssumption DEF Writing, NoVerdict, Anew
        <5> QED
          BY <1>3, <5>1 DEF Pays, Does
      <4> QED
        BY <1>3, <1>4, <2>2, <3>1, <4>1 DEF Sound, Writing
    <3>3. node \in NodesOf[bindings]
      BY <1>1, <2>2, <3>1, <3>2, BoundNodes
    <3>4. adapter' = [adapter EXCEPT ![node] = Task.value] /\ node \in DOMAIN adapter
      BY <1>4, <3>3 DEF WriteStore, IInv, GraphTypes, Writing
    <3>5. adapter'[node] = nodes[node].value /\ \A n \in Nodes \ {node} : adapter'[n] = adapter[n]
      BY <3>2, <3>4 DEF IInv, GraphTypes
    <3>6. \A n, v : n # node => ~Pays(agenda[1], n, v)
      BY <1>3 DEF Pays, Does
    <3>7. \A n \in DOMAIN nodes : n \in Nodes
      BY DEF IInv, GraphTypes
    <3> HIDE DEF node
    <3> QED
      BY <1>1, <1>9, <3>1, <3>5, <3>6, <3>7 DEF Stored
  <2> QED
    BY <1>1, <2>2, <2>3, <2>4, <2>6, <2>7 DEF Serving
<1> QED
  BY <1>2, <1>7, <1>10 DEF Service
-----------------------------------------------------------------------------
(* Validations are scheduled, started and launched.                         *)

LEMMA HeadNext ==
  ASSUME IInv, agenda # << >>, NEW p, IsStack(p), Do(p), Len(p) >= 1
  PROVE  /\ agenda' # << >> /\ agenda'[1] = p[1] /\ Task' = p[1]
         /\ \A o : At(o)' <=> p[1].op = o
<1> DEFINE t == p \o Tail(agenda)
<1>1. IsStack(agenda) /\ Len(agenda) \in Nat /\ Len(p) \in Nat
  BY AgendaStack, StackFacts
<1>2. IsStack(t) /\ Rest(agenda, t, 1, Len(p)) /\ \A i \in 1..Len(p) : t[i] = p[i]
  BY <1>1, Pushing
<1>3. agenda' = t
  BY DEF Do
<1> HIDE DEF t
<1>4. Len(t) # 0 /\ t[1] = p[1]
  BY <1>1, <1>2, RestIndex DEF Rest
<1>5. t # << >> /\ Head(t) = p[1]
  BY <1>2, <1>4, StackFacts
<1> QED
  BY <1>3, <1>4, <1>5 DEF Task, At

\* A task that is left alone is as sound as before.
LEMMA SoundKept ==
  ASSUME NEW j, NEW x, agenda'[j] = x, Sound(x), nodes' = nodes, ~unavailable' => ~unavailable,
         \A n : x.op = "launch" /\ x.node = n => ~Naming(n) /\ ~Naming(n)'
  PROVE  Sound(agenda[j])'
<1>1. ASSUME NEW n, x.node = n
      PROVE  /\ x.op \in {"start", "launch"} => n \in DOMAIN nodes'
             /\ x.op = "launch" =>
                  x.request = IF Naming(n)' THEN (Task.command.request)' ELSE nodes'[n].request
  BY <1>1 DEF Sound
<1>2. ~unavailable' => \A n \in Nodes, v \in Values :
        Pays(x, n, v) => n \in DOMAIN nodes' /\ nodes'[n].value = v
  BY DEF Sound
<1> QED
  BY <1>1, <1>2 DEF Sound

\* Requests may be given up, their causes with them.
LEMMA RegisteredLess ==
  ASSUME IInv, Registered, Inherits(agenda, agenda'), lifecycle' = "active" => lifecycle = "active",
         NEW set, active' = Cancelled(set), contexts' \subseteq contexts,
         \A c \in contexts : c \notin contexts' => \E n \in set \cap Nodes : active[n] = c
  PROVE  Registered'
<1> SUFFICES ASSUME lifecycle' = "active"
    PROVE  /\ \A n \in Nodes : active'[n] # NoRequest => active'[n] \in contexts' /\ n \in Validated
           /\ \A n, m \in Nodes : active'[n] = active'[m] /\ n # m => active'[n] = NoRequest
           /\ \A i \in 1..Len(agenda') : agenda'[i].op = "launch" =>
                agenda'[i].request \in contexts' /\ \A n \in Nodes : active'[n] # agenda'[i].request
  BY DEF Registered
<1>1. /\ \A n \in Nodes : active[n] # NoRequest => active[n] \in contexts /\ n \in Validated
      /\ \A n, m \in Nodes : active[n] = active[m] /\ n # m => active[n] = NoRequest
      /\ \A i \in 1..Len(agenda) : agenda[i].op = "launch" =>
           agenda[i].request \in contexts /\ \A n \in Nodes : active[n] # agenda[i].request
  BY DEF Registered
<1>2. \A n \in Nodes : active'[n] = IF n \in set THEN NoRequest ELSE active[n]
  BY DEF Cancelled
<1>3. ASSUME NEW n \in Nodes, active'[n] # NoRequest
      PROVE  active'[n] \in contexts' /\ n \in Validated
  <2>1. n \notin set /\ active'[n] = active[n] /\ active[n] # NoRequest
    BY <1>2, <1>3
  <2>2. active[n] \in contexts /\ n \in Validated
    BY <1>1, <2>1
  <2>3. ASSUME NEW m \in set \cap Nodes, active[m] = active[n]
        PROVE  FALSE
    BY <1>1, <2>1, <2>3
  <2> QED
    BY <2>1, <2>2, <2>3
<1>4. \A n, m \in Nodes : active'[n] = active'[m] /\ n # m => active'[n] = NoRequest
  BY <1>1, <1>2
<1>5. ASSUME NEW j \in 1..Len(agenda'), agenda'[j].op = "launch"
      PROVE  agenda'[j].request \in contexts' /\ \A n \in Nodes : active'[n] # agenda'[j].request
  <2>1. PICK i \in 1..Len(agenda) : agenda[i] = agenda'[j]
    BY <1>5 DEF Inherits
  <2>2. agenda[i].request \in contexts /\ \A n \in Nodes : active[n] # agenda[i].request
    BY <1>1, <1>5, <2>1
  <2>3. agenda[i].request # NoRequest
    <3>1. TaskOK(agenda[i], requests) /\ requests \in Nat
      BY DEF IInv, AgendaOK, Typed, GraphTypes
    <3>2. agenda[i].request \in 1..requests
      BY <1>5, <2>1, <3>1 DEF TaskOK
    <3> QED
      BY <3>1, <3>2 DEF NoRequest
  <2>4. \A n \in Nodes : active'[n] # agenda[i].request
    BY <1>2, <2>2, <2>3
  <2> QED
    BY <2>1, <2>2, <2>4
<1> QED
  BY <1>3, <1>4, <1>5

\* What is validated anew is validated.
LEMMA AnewToo ==
  ASSUME NEW s, NEW n, Promised(s, n, Anew)
  PROVE  Promised(s, n, NoVerdict) /\ \A control : Promised(s, n, Debt(control))
<1>1. \A task : Does(task, n, Anew) => Does(task, n, NoVerdict)
  BY DEF Does, Anew, NoVerdict
<1>2. \A task : Pays(task, n, Anew) => Pays(task, n, NoVerdict)
  BY <1>1 DEF Pays
<1>3. Promised(s, n, NoVerdict)
  BY <1>2 DEF Promised
<1> QED
  BY <1>3 DEF Debt

\* A validation of a control that is there is due again: nothing else is owed
\* by the task that makes way.
LEMMA AnewService ==
  ASSUME IInv, Service, Going, agenda # << >>, NEW node \in DOMAIN nodes,
         agenda[1].op \in {"schedule", "start"}, agenda[1].node = node,
         NEW p, IsStack(p), Do(p), Mild(p),
         \/ Promised(p, node, Anew)
         \/ active'[node] = nodes[node].request
         \/ Resolving(nodes, node)',
         savepoint = None, UNCHANGED <<nodes, adapter>>, ~unavailable' => ~unavailable,
         \A n \in Nodes \ {node} : active'[n] = active[n]
  PROVE  /\ Answering(nodes)'
         /\ ~unavailable' => Stored(nodes)'
         /\ Promised(p, node, Anew) => Promised(agenda', node, Anew)
<1>1. IsStack(agenda) /\ IsStack(Tail(agenda)) /\ ~Inner(agenda[1])
  BY AgendaStack, StackFacts DEF Inner
<1>2. Answering(nodes) /\ (~unavailable => Stored(nodes)) /\ \A n : ~Resolving(nodes, n)
  BY <1>1, NoCommand DEF Service, Serving
<1>3. \A n, v : Promised(agenda, n, v) /\ ~Pays(agenda[1], n, v) => Promised(agenda', n, v)
  BY <1>1, PromisedPush DEF Do
<1>4. Promised(p, node, Anew) => Promised(agenda', node, Anew)
  BY <1>1, PromisedAbove DEF Do
<1>5. \A n, v : Pays(agenda[1], n, v) => n = node /\ v \in {NoVerdict, Anew}
  BY DEF Pays, Does
<1>6. Answering(nodes)'
  <2>1. Promised(p, node, Anew) => Promised(agenda', node, Debt(nodes[node]))
    BY <1>4, AnewToo DEF Debt
  <2> QED
    BY <1>2, <1>3, <1>5, <2>1 DEF Answering
<1>7. \A n \in DOMAIN nodes : nodes[n].value \notin {NoVerdict, Anew}
  BY RuntimeAssumption DEF IInv, GraphTypes, ControlOf, NoVerdict, Anew
<1>8. ~unavailable' => Stored(nodes)'
  BY <1>2, <1>3, <1>5, <1>7 DEF Stored
<1> QED
  BY <1>4, <1>6, <1>8

(* A store write, or a validation that is started, works for its control.   *)
LEMMA PaysClaims ==
  ASSUME IInv, NEW i \in 1..Len(agenda), NEW n, NEW v, Pays(agenda[i], n, v), v # NoVerdict
  PROVE  Claims(agenda[i], n)
<1>1. TaskOK(agenda[i], requests)
  BY DEF IInv, AgendaOK, Typed
<1>2. CASE agenda[i].op = "settle"
  <2>1. PICK k \in 1..Len(agenda[i].work) : Does(agenda[i].work[k], n, v)
    BY <1>2 DEF Pays, Does
  <2>3. agenda[i].work[k].op \in {"write", "schedule"}
    BY <1>1, <1>2, <2>1 DEF TaskOK, Writing, Scheduling
  <2>2. agenda[i].work[k].op \in {"write", "perform"} /\ agenda[i].work[k].node = n
    BY <2>1, <2>3 DEF Does
  <2> QED
    BY <1>2, <2>1, <2>2, <2>3 DEF Claims
<1>3. CASE Does(agenda[i], n, v)
  BY <1>3 DEF Claims, Does
<1> QED
  BY <1>2, <1>3 DEF Pays

\* While a validation is scheduled, none of its control is being started.
LEMMA NotAnew ==
  ASSUME IInv, Discipline, ~overlapped, agenda # << >>, agenda[1].op = "schedule",
         NEW n \in Nodes, agenda[1].node = n
  PROVE  ~Promised(agenda, n, Anew)
<1> SUFFICES ASSUME NEW i \in 1..Len(agenda), Pays(agenda[i], n, Anew) PROVE FALSE
  BY DEF Promised
<1>1. Len(agenda) \in Nat
  BY AgendaStack
<1>2. Claims(agenda[i], n)
  <2>1. Anew # NoVerdict
    BY DEF Anew, NoVerdict
  <2> QED
    BY <2>1, PaysClaims
<1>3. i # 1
  BY <1>2 DEF Claims
<1>4. i \in 2..Len(agenda)
  BY <1>1, <1>3
<1>5. Touches(agenda[1], n) /\ ~Inner(agenda[1])
  BY DEF Touches, Inner
<1> QED
  BY <1>2, <1>4, <1>5, HeadAlone

LEMMA ScheduleService ==
  ASSUME IInv, Service, ScheduleValidation, UNCHANGED applicationVars
  PROVE  Service'
<1> DEFINE node == Task.node
           x == Execute([type |-> "cancel", node |-> node, request |-> active[node]])
           y == [op |-> "start", node |-> node]
<1>1. At("schedule") /\ UNCHANGED <<nodes, adapter, lifecycle, savepoint, throws, overlapped>>
      /\ UNCHANGED unavailable
  BY DEF ScheduleValidation, storeVars, observerVars, applicationVars
<1>2. Discipline'
  BY ScheduleDiscipline DEF Service
<1>3. /\ agenda # << >> /\ agenda[1].op = "schedule" /\ Task = agenda[1] /\ node = agenda[1].node
      /\ ~Inner(agenda[1]) /\ IsStack(agenda) /\ Safe(agenda[1]) /\ TaskOK(Task, requests)
  BY <1>1, HeadTask, AgendaStack DEF Inner, Safe
<1>4. node \in Nodes
  BY <1>3 DEF TaskOK
<1>5. /\ Safe(x) /\ Safe(y) /\ x.op = "execute" /\ x.command.type = "cancel" /\ x.command.node = node
      /\ y.op = "start" /\ y.node = node /\ ~Inner(y) /\ Does(y, node, Anew)
      /\ x.command.request = active[node]
      /\ \A n, v : ~Pays(x, n, v) /\ (Pays(y, n, v) => v \in {NoVerdict, Anew})
  BY DEF Safe, Execute, Inner, Does, Pays, Anew, NoVerdict
<1>6. \/ node \notin DOMAIN nodes /\ Do(<< >>) /\ UNCHANGED <<active, contexts>>
      \/ /\ node \in DOMAIN nodes /\ active' = Cancelled({node}) /\ contexts' = Without(active[node])
         /\ Do((IF active[node] = NoRequest THEN << >> ELSE <<x>>)
               \o (IF CanValidate(nodes[node]) THEN <<y>> ELSE << >>))
  BY DEF ScheduleValidation
<1> HIDE DEF x, y, node
<1>7. Going' => Going
  BY <1>1 DEF Going
<1>8. ASSUME Going
      PROVE  /\ savepoint = None /\ \A i \in 1..Len(agenda) : Sound(agenda[i])
             /\ Answering(nodes) /\ (~unavailable => Stored(nodes))
             /\ \A n : ~Naming(n) /\ \A graph : ~Resolving(graph, n)
  BY <1>1, <1>3, <1>8, ServingFacts, NoCommand DEF Preparing
<1>9. CASE node \notin DOMAIN nodes /\ Do(<< >>) /\ UNCHANGED <<active, contexts>>
  <2> DEFINE p == << >>
  <2>1. Do(p) /\ IsStack(p) /\ Mild(p) /\ Len(p) = 0
    BY <1>9, ShortMild
  <2> HIDE DEF p
  <2>2. Registered'
    BY <1>1, <1>3, <1>9, <2>1, DoInherits, RegisteredKept DEF Service
  <2>3. \A n, v : Promised(agenda, n, v) /\ ~Pays(agenda[1], n, v) => Promised(agenda', n, v)
    BY <1>3, <2>1, PromisedPush DEF Do
  <2>4. \A n, v : Pays(agenda[1], n, v) => n = node /\ v = NoVerdict
    BY <1>3 DEF Pays, Does
  <2>5. ASSUME Going'
        PROVE  Serving'
    <3>1. CommandSound' /\ \A n : ~Naming(n)' /\ \A graph : ~Resolving(graph, n)'
      <4>1. \A j \in 1..Len(p) : ~Inner(p[j])
        BY <2>1
      <4> QED
        BY <1>3, <2>1, <4>1, CommandsBelow
    <3>2. \A j \in 1..Len(agenda') : Sound(agenda[j])'
      <4>1. \A i \in 2..Len(agenda) : \A j : agenda'[j] = agenda[i] => Sound(agenda[j])'
        <5> SUFFICES ASSUME NEW i \in 2..Len(agenda), NEW j, agenda'[j] = agenda[i]
                     PROVE  Sound(agenda[j])'
          OBVIOUS
        <5>1. i \in 1..Len(agenda)
          BY <1>3, StackFacts
        <5> QED
          BY <1>1, <1>7, <1>8, <2>5, <3>1, <5>1, SoundKept
      <4>2. \A j \in 1..Len(p) : \A i : agenda'[i] = p[j] => Sound(agenda[i])'
        BY <2>1
      <4> QED
        BY <1>3, <2>1, <4>1, <4>2, SoundTail
    <3>3. \A n \in DOMAIN nodes : n # node /\ nodes[n].value \notin {NoVerdict, Anew}
      BY <1>9, RuntimeAssumption DEF IInv, GraphTypes, ControlOf, NoVerdict, Anew
    <3>4. Answering(nodes)'
      BY <1>1, <1>7, <1>8, <1>9, <2>3, <2>4, <2>5, <3>1, <3>3 DEF Answering
    <3>5. ~unavailable' => Stored(nodes)'
      BY <1>1, <1>7, <1>8, <2>3, <2>4, <2>5, <3>3 DEF Stored
    <3> QED
      BY <1>1, <1>7, <1>8, <2>5, <3>1, <3>2, <3>4, <3>5 DEF Serving
  <2> QED
    BY <1>2, <2>2, <2>5 DEF Service
<1>10. CASE /\ node \in DOMAIN nodes /\ active' = Cancelled({node}) /\ contexts' = Without(active[node])
            /\ Do((IF active[node] = NoRequest THEN << >> ELSE <<x>>)
                  \o (IF CanValidate(nodes[node]) THEN <<y>> ELSE << >>))
  <2>1. \/ active[node] = NoRequest /\ Do(<< >>)
        \/ Do(<<x>>)
        \/ Do(<<y>>)
        \/ Do(<<x, y>>)
    <3>1. \/ active[node] = NoRequest /\ Do(<< >> \o << >>)
          \/ Do(<<x>> \o << >>)
          \/ Do(<< >> \o <<y>>)
          \/ Do(<<x>> \o <<y>>)
      BY <1>10
    <3> QED
      BY <3>1, ShortStacks
  <2>2. PICK p : /\ Do(p) /\ IsStack(p) /\ Mild(p) /\ Len(p) \in {0, 1, 2}
                 /\ Len(p) = 0 => active[node] = NoRequest
                 /\ Len(p) = 1 => p[1] \in {x, y}
                 /\ Len(p) = 2 => p[1] = x /\ p[2] = y
    <3>1. ASSUME NEW z \in {x, y}, Do(<<z>>)
          PROVE  \E p : Do(p) /\ IsStack(p) /\ Mild(p) /\ Len(p) = 1 /\ p[1] = z
      <4> DEFINE p == <<z>>
      <4>1. Do(p) /\ IsStack(p) /\ Len(p) = 1 /\ p[1] = z /\ (Safe(z) => Mild(p))
        BY <3>1, ShortMild
      <4> HIDE DEF p
      <4> QED
        BY <1>5, <4>1
    <3>2. CASE Do(<<x, y>>)
      <4> DEFINE p == <<x, y>>
      <4>1. /\ Do(p) /\ IsStack(p) /\ Len(p) = 2 /\ p[1] = x /\ p[2] = y
            /\ Safe(y) /\ (Safe(x) \/ y.op = "contained") => Mild(p)
        BY <3>2, ShortMild
      <4> HIDE DEF p
      <4> QED
        BY <1>5, <4>1
    <3>3. CASE active[node] = NoRequest /\ Do(<< >>)
      <4> DEFINE p == << >>
      <4>1. Do(p) /\ IsStack(p) /\ Mild(p) /\ Len(p) = 0
        BY <3>3, ShortMild
      <4> HIDE DEF p
      <4> QED
        BY <3>3, <4>1
    <3> QED
      BY <2>1, <3>1, <3>2, <3>3
  <2>3. \A j \in 1..Len(p) : (j = 1 \/ j = 2) /\ (p[j] = x \/ p[j] = y)
    <3>1. /\ \A j \in 1..0 : FALSE
          /\ \A j \in 1..1 : j = 1
          /\ \A j \in 1..2 : j = 1 \/ j = 2
      OBVIOUS
    <3>2. CASE Len(p) = 0
      BY <3>1, <3>2
    <3>3. CASE Len(p) = 1
      BY <2>2, <3>1, <3>3
    <3>4. CASE Len(p) = 2
      BY <2>2, <3>1, <3>4
    <3> QED
      BY <2>2, <3>2, <3>3, <3>4
  <2>4. Promised(p, node, Anew) \/ Len(p) = 0 \/ (Len(p) = 1 /\ p[1] = x)
    <3>1. ASSUME Len(p) = 1, p[1] = y
          PROVE  Promised(p, node, Anew)
      <4>1. 1 \in 1..Len(p) /\ Kept(p, 1)
        BY <3>1 DEF Kept
      <4> QED
        BY <1>5, <3>1, <4>1 DEF Promised, Pays
    <3>2. ASSUME Len(p) = 2
          PROVE  Promised(p, node, Anew)
      <4>1. \A j \in 1..(2 - 1) : j = 1
        OBVIOUS
      <4>2. 2 \in 1..Len(p) /\ Kept(p, 2) /\ p[2] = y
        BY <1>5, <2>2, <3>2, <4>1 DEF Kept
      <4> QED
        BY <1>5, <4>2 DEF Promised, Pays
    <3> QED
      BY <2>2, <3>1, <3>2
  <2>5. Registered'
    <3>1. \A j \in 1..Len(p) : p[j].op # "launch"
      BY <1>5, <2>3
    <3>2. Inherits(agenda, agenda')
      BY <1>3, <2>2, <3>1, DoInherits
    <3>3. contexts' \subseteq contexts /\ \A c \in contexts : c \notin contexts' => active[node] = c
      BY <1>10 DEF Without
    <3>4. \A c \in contexts : c \notin contexts' => \E n \in {node} \cap Nodes : active[n] = c
      BY <1>4, <3>3
    <3> QED
      BY <1>1, <1>10, <3>2, <3>3, <3>4, RegisteredLess DEF Service
  <2>6. ASSUME Going'
        PROVE  Serving'
    <3>1. active'[node] = NoRequest /\ \A n \in Nodes \ {node} : active'[n] = active[n]
      BY <1>4, <1>10 DEF Cancelled
    <3>2. Len(p) # 0 => agenda' # << >> /\ Task' = p[1] /\ \A o : At(o)' <=> p[1].op = o
      <4>1. Len(p) # 0 => Len(p) >= 1
        BY <2>2
      <4> QED
        BY <1>3, <2>2, <4>1, HeadNext
    <3>3. nodes[node].request \in {NoRequest, active[node]}
      <4>1. ~Promised(agenda, node, Anew)
        BY <1>1, <1>3, <1>4, <1>7, <2>6, NotAnew DEF Service, Going
      <4>2. active[node] = nodes[node].request \/ Promised(agenda, node, Debt(nodes[node]))
        BY <1>4, <1>7, <1>8, <1>10, <2>6 DEF Answering
      <4> QED
        BY <4>1, <4>2 DEF Debt
    <3>4. \/ Promised(p, node, Anew)
          \/ active'[node] = nodes[node].request
          \/ \A n : n = node => Resolving(nodes, n)'
      <4>1. CASE Len(p) = 0
        BY <2>2, <3>1, <3>3, <4>1
      <4>2. CASE Len(p) = 1 /\ p[1] = x /\ nodes[node].request = active[node]
        <5>1. Task' = x /\ At("execute")'
          BY <1>5, <3>2, <4>2
        <5>2. \A n : n = node => /\ Task'.command.type = "cancel" /\ Task'.command.node = n
                                /\ Task'.command.request = nodes'[n].request
          BY <1>1, <1>5, <4>2, <5>1
        <5>3. \A n : n = node => Resolving(nodes, n)'
          BY <5>1, <5>2 DEF Resolving
        <5> QED
          BY <5>3
      <4> QED
        BY <2>4, <3>1, <3>3, <4>1, <4>2
    <3>5. /\ Answering(nodes)' /\ (~unavailable' => Stored(nodes)')
      <4>1. PICK n \in DOMAIN nodes : n = node
        BY <1>10
      <4>2. agenda # << >> /\ agenda[1].op \in {"schedule", "start"} /\ agenda[1].node = n
        BY <1>3, <4>1
      <4>3. IsStack(p) /\ Do(p) /\ Mild(p) /\ Going
        BY <1>7, <2>2, <2>6
      <4>4. savepoint = None /\ UNCHANGED <<nodes, adapter>> /\ (~unavailable' => ~unavailable)
        BY <1>1, <1>8, <4>3
      <4>5. \A m \in Nodes \ {n} : active'[m] = active[m]
        BY <3>1, <4>1
      <4>6. \/ Promised(p, n, Anew)
            \/ active'[n] = nodes[n].request
            \/ Resolving(nodes, n)'
        BY <3>4, <4>1
      <4> QED
        BY <1>1, <4>2, <4>3, <4>4, <4>5, <4>6, AnewService
    <3>6. CommandSound' /\ \A n : ~Naming(n)'
      <4>1. CASE Len(p) # 0
        <5>1. Task' = x \/ (Task' = y /\ ~At("execute")')
          BY <1>5, <2>2, <3>2, <4>1
        <5> QED
          BY <1>1, <1>5, <1>10, <3>1, <5>1 DEF CommandSound, Naming
      <4>2. CASE Len(p) = 0
        <5>1. \A j \in 1..Len(p) : ~Inner(p[j])
          BY <4>2
        <5> QED
          BY <1>3, <2>2, <5>1, CommandsBelow
      <4> QED
        BY <4>1, <4>2
    <3>7. \A j \in 1..Len(agenda') : Sound(agenda[j])'
      <4>1. \A i \in 2..Len(agenda) : \A j : agenda'[j] = agenda[i] => Sound(agenda[j])'
        <5> SUFFICES ASSUME NEW i \in 2..Len(agenda), NEW j, agenda'[j] = agenda[i]
                     PROVE  Sound(agenda[j])'
          OBVIOUS
        <5>1. i \in 1..Len(agenda)
          BY <1>3, StackFacts
        <5> QED
          BY <1>1, <1>7, <1>8, <2>6, <3>6, <5>1, SoundKept
      <4>2. {NoVerdict, Anew} \cap Values = {}
        BY RuntimeAssumption DEF NoVerdict, Anew
      <4>3. \A j \in 1..Len(p) : \A i : agenda'[i] = p[j] => Sound(agenda[i])'
        <5> SUFFICES ASSUME NEW i, agenda'[i] = x \/ agenda'[i] = y PROVE Sound(agenda[i])'
          BY <2>3
        <5>1. agenda'[i].op # "launch" /\ \A n \in Nodes, v \in Values : ~Pays(agenda'[i], n, v)
          BY <1>5, <4>2
        <5>2. agenda'[i].op \in {"start", "launch"} => agenda'[i].node \in DOMAIN nodes'
          BY <1>1, <1>5, <1>10
        <5> QED
          BY <5>1, <5>2 DEF Sound
      <4> QED
        BY <1>3, <2>2, <4>1, <4>3, SoundTail
    <3> QED
      BY <1>1, <1>7, <1>8, <2>6, <3>5, <3>6, <3>7 DEF Serving
  <2> QED
    BY <1>2, <2>5, <2>6 DEF Service
<1> QED
  BY <1>6, <1>9, <1>10
\* A new request is remembered before its validation is launched.
LEMMA RegisteredNew ==
  ASSUME IInv, Registered, lifecycle' = "active" => lifecycle = "active", agenda # << >>,
         NEW p, IsStack(p), Do(p), NEW r, r = requests + 1, active' = active, contexts' = contexts \cup {r},
         \A j \in 1..Len(p) : p[j].op = "launch" => p[j].request = r
  PROVE  Registered'
<1> DEFINE t == p \o Tail(agenda)
<1>1. IsStack(agenda) /\ Len(agenda) \in Nat
  BY AgendaStack
<1>2. Rest(agenda, t, 1, Len(p)) /\ \A i \in 1..Len(p) : t[i] = p[i]
  BY <1>1, Pushing
<1>3. agenda' = t
  BY DEF Do
<1> HIDE DEF t
<1> SUFFICES ASSUME lifecycle' = "active"
    PROVE  /\ \A n \in Nodes : active[n] # NoRequest => active[n] \in contexts' /\ n \in Validated
           /\ \A n, m \in Nodes : active[n] = active[m] /\ n # m => active[n] = NoRequest
           /\ \A j \in 1..Len(t) : t[j].op = "launch" =>
                t[j].request \in contexts' /\ \A n \in Nodes : active[n] # t[j].request
  BY <1>3 DEF Registered
<1>4. /\ \A n \in Nodes : active[n] # NoRequest => active[n] \in contexts /\ n \in Validated
      /\ \A n, m \in Nodes : active[n] = active[m] /\ n # m => active[n] = NoRequest
      /\ \A i \in 1..Len(agenda) : agenda[i].op = "launch" =>
           agenda[i].request \in contexts /\ \A n \in Nodes : active[n] # agenda[i].request
  BY DEF Registered
<1>5. \A n \in Nodes : active[n] # r
  <2>1. requests \in Nat /\ \A n \in Nodes : active[n] \in 0..requests
    BY DEF IInv, GraphTypes
  <2> QED
    BY <2>1
<1>6. ASSUME NEW j \in 1..Len(t), t[j].op = "launch"
      PROVE  t[j].request \in contexts' /\ \A n \in Nodes : active[n] # t[j].request
  <2>1. CASE j \in 1..Len(p)
    BY <1>2, <1>5, <1>6, <2>1
  <2>2. CASE j \notin 1..Len(p)
    <3>1. \E i \in 1..Len(agenda) : t[j] = agenda[i]
      BY <1>1, <1>2, <2>2, RestIndex
    <3> QED
      BY <1>4, <1>6, <3>1
  <2> QED
    BY <2>1, <2>2
<1> QED
  BY <1>4, <1>6

LEMMA StartService ==
  ASSUME IInv, Service, StartValidation, UNCHANGED applicationVars
  PROVE  Service'
<1> DEFINE node == Task.node
           r == requests + 1
           x == Execute([type |-> "start", node |-> node, request |-> r])
           y == [op |-> "launch", node |-> node, request |-> r]
           p == <<x, y>>
<1>1. At("start") /\ UNCHANGED <<nodes, adapter, lifecycle, savepoint, throws, overlapped>>
      /\ UNCHANGED <<unavailable, active>> /\ contexts' = contexts \cup {r}
  BY DEF StartValidation, storeVars, observerVars, applicationVars
<1>2. Discipline'
  BY StartDiscipline DEF Service
<1>3. /\ agenda # << >> /\ agenda[1].op = "start" /\ Task = agenda[1] /\ node = agenda[1].node
      /\ ~Inner(agenda[1]) /\ IsStack(agenda) /\ Safe(agenda[1]) /\ TaskOK(Task, requests)
  BY <1>1, HeadTask, AgendaStack DEF Inner, Safe
<1>4. node \in Nodes
  BY <1>3 DEF TaskOK
<1>5. /\ Safe(x) /\ Safe(y) /\ x.op = "execute" /\ x.command.type = "start" /\ x.command.node = node
      /\ x.command.request = r
      /\ y.op = "launch" /\ y.node = node /\ y.request = r /\ Does(y, node, Anew)
      /\ \A n, v : ~Pays(x, n, v) /\ (Pays(y, n, v) => v \in {NoVerdict, Anew})
  BY DEF Safe, Execute, Does, Pays, Anew, NoVerdict
<1>6. Do(p)
  BY DEF StartValidation
<1>7. /\ IsStack(p) /\ Len(p) = 2 /\ p[1] = x /\ p[2] = y
      /\ Safe(y) /\ (Safe(x) \/ y.op = "contained") => Mild(p)
  BY ShortMild
<1>8. r = requests + 1
  OBVIOUS
<1> HIDE DEF x, y, node, p, r
<1>9. \A j \in 1..Len(p) : (j = 1 /\ p[j] = x) \/ (j = 2 /\ p[j] = y)
  <2>1. \A j \in 1..Len(p) : j = 1 \/ j = 2
    BY <1>7
  <2> QED
    BY <1>7, <2>1
<1>10. Registered'
  <2>1. \A j \in 1..Len(p) : p[j].op = "launch" => p[j].request = r
    BY <1>5, <1>9
  <2> QED
    BY <1>1, <1>3, <1>6, <1>7, <1>8, <2>1, RegisteredNew DEF Service
<1>11. Promised(p, node, Anew)
  <2>1. \A j \in 1..(2 - 1) : j = 1
    OBVIOUS
  <2>2. 2 \in 1..Len(p) /\ Kept(p, 2) /\ p[2] = y
    BY <1>5, <1>7, <2>1 DEF Kept
  <2> QED
    BY <1>5, <2>2 DEF Promised, Pays
<1>12. ASSUME Going'
       PROVE  Serving'
  <2>1. Going
    BY <1>1, <1>12 DEF Going
  <2>2. /\ savepoint = None /\ \A i \in 1..Len(agenda) : Sound(agenda[i])
        /\ Sound(agenda[1])
        /\ \A n : ~Naming(n) /\ \A graph : ~Resolving(graph, n)
    BY <1>1, <1>3, <2>1, ServingFacts, NoCommand DEF Preparing
  <2>3. node \in DOMAIN nodes
    BY <1>3, <2>2 DEF Sound
  <2>4. \A n \in Nodes \ {node} : active'[n] = active[n]
    BY <1>1
  <2>5. /\ Answering(nodes)' /\ (~unavailable' => Stored(nodes)')
        /\ Promised(agenda', node, Anew)
    BY <1>1, <1>3, <1>5, <1>6, <1>7, <1>11, <2>1, <2>2, <2>3, <2>4, AnewService
  <2>6. agenda' # << >> /\ Task' = x /\ At("execute")'
    <3>1. Len(p) >= 1
      BY <1>7
    <3> QED
      BY <1>3, <1>5, <1>6, <1>7, <3>1, HeadNext
  <2>7. \A n : Naming(n)' <=> n = node
    BY <1>5, <2>6 DEF Naming
  <2>8. CommandSound'
    BY <1>1, <1>5, <2>3, <2>5, <2>6 DEF CommandSound
  <2>9. \A j \in 1..Len(agenda') : Sound(agenda[j])'
    <3>1. \A i \in 2..Len(agenda) : \A j : agenda'[j] = agenda[i] => Sound(agenda[j])'
      <4> SUFFICES ASSUME NEW i \in 2..Len(agenda), NEW j, agenda'[j] = agenda[i]
                   PROVE  Sound(agenda[j])'
        OBVIOUS
      <4>1. i \in 1..Len(agenda)
        BY <1>3, StackFacts
      <4>2. \A n : agenda[i].op = "launch" /\ agenda[i].node = n => n # node
        <5>1. Touches(agenda[1], node)
          BY <1>3 DEF Touches
        <5>2. ~Claims(agenda[i], node)
          BY <1>3, <1>4, <2>1, <5>1, HeadAlone DEF Service, Going
        <5> QED
          BY <5>2 DEF Claims
      <4>3. \A n : agenda[i].op = "launch" /\ agenda[i].node = n => ~Naming(n) /\ ~Naming(n)'
        BY <2>2, <2>7, <4>2
      <4> QED
        BY <1>1, <2>2, <4>1, <4>3, SoundKept
    <3>2. {NoVerdict, Anew} \cap Values = {}
      BY RuntimeAssumption DEF NoVerdict, Anew
    <3>3. \A j \in 1..Len(p) : \A i : agenda'[i] = p[j] => Sound(agenda[i])'
      <4>1. ASSUME NEW i, agenda'[i] = x
            PROVE  Sound(agenda[i])'
        <5>1. agenda'[i].op = "execute" /\ \A n, v : ~Pays(agenda'[i], n, v)
          BY <1>5, <4>1
        <5> QED
          BY <5>1 DEF Sound
      <4>2. ASSUME NEW i, agenda'[i] = y
            PROVE  Sound(agenda[i])'
        <5>1. /\ agenda'[i].op = "launch" /\ agenda'[i].node = node /\ agenda'[i].request = r
              /\ \A n \in Nodes, v \in Values : ~Pays(agenda'[i], n, v)
          BY <1>5, <3>2, <4>2
        <5>2. \A n : n = node => n \in DOMAIN nodes' /\ Naming(n)' /\ Task'.command.request = r
          BY <1>1, <1>5, <2>3, <2>6, <2>7
        <5>3. \A n : agenda'[i].node = n => n \in DOMAIN nodes' /\ Naming(n)' /\ Task'.command.request = r
          BY <5>1, <5>2
        <5> QED
          BY <5>1, <5>3 DEF Sound
      <4> QED
        BY <1>9, <4>1, <4>2
    <3> QED
      BY <1>3, <1>6, <1>7, <3>1, <3>3, SoundTail
  <2> QED
    BY <1>1, <2>2, <2>5, <2>8, <2>9 DEF Serving
<1> QED
  BY <1>2, <1>10, <1>12 DEF Service
\* A launched request is in progress for its control alone.
LEMMA RegisteredLaunch ==
  ASSUME IInv, Verdicts, Registered, LaunchValidation
  PROVE  Registered'
<1> DEFINE node == Task.node
           request == Task.request
           e == << >>
<1>1. At("launch") /\ UNCHANGED <<lifecycle, contexts>> /\ Do(e)
  BY DEF LaunchValidation
<1>2. /\ agenda # << >> /\ Task = agenda[1] /\ agenda[1].op = "launch" /\ 1 \in 1..Len(agenda)
      /\ IsStack(agenda) /\ Len(agenda) \in Nat /\ TaskOK(Task, requests)
  BY <1>1, HeadTask, AgendaStack
<1>3. active' = active \/ active' = [active EXCEPT ![node] = request]
  BY DEF LaunchValidation
<1>4. IsStack(e) /\ Len(e) = 0
  BY EmptyStack
<1>5. node \in Nodes /\ node \in Validated /\ request # NoRequest
  <2>1. node \in Nodes /\ request \in 1..requests /\ requests \in Nat
    BY <1>2 DEF TaskOK, IInv, GraphTypes
  <2>2. node \in Validated
    BY <1>2 DEF Verdicts, Asked, ForValidated
  <2> QED
    BY <2>1, <2>2 DEF NoRequest
<1>6. Task.op = "launch" /\ agenda[1].request = request
  BY <1>2
<1> HIDE DEF e, node, request
<1>7. \A j \in 1..Len(agenda') : \E i \in 2..Len(agenda) : agenda[i] = agenda'[j] /\ i \in 1..Len(agenda)
  <2>1. Rest(agenda, e \o Tail(agenda), 1, Len(e))
    BY <1>2, <1>4, Pushing
  <2>2. Rest(agenda, agenda', 1, 0)
    BY <1>1, <1>4, <2>1 DEF Do
  <2> SUFFICES ASSUME NEW j \in 1..Len(agenda')
               PROVE  \E i \in 2..Len(agenda) : agenda[i] = agenda'[j] /\ i \in 1..Len(agenda)
    OBVIOUS
  <2> DEFINE i == (j - 0) + 1
  <2>3. agenda'[j] = agenda[i] /\ i \in 2..Len(agenda) /\ i \in 1..Len(agenda)
    BY <1>2, <2>2 DEF Rest
  <2> HIDE DEF i
  <2> QED
    BY <2>3
<1>8. \A i \in 2..Len(agenda) : agenda[i].op = "launch" => agenda[i].request # request
  <2> SUFFICES ASSUME NEW i \in 2..Len(agenda), agenda[i].op = "launch", agenda[i].request = request
               PROVE  FALSE
    OBVIOUS
  <2>1. i \in 1..Len(agenda)
    BY <1>2
  <2>2. i <= 1
    BY <1>2, <1>6, <2>1 DEF Verdicts, Asked, Names
  <2> QED
    BY <1>2, <2>2
<1>9. CASE active' = active
  <2>1. Inherits(agenda, agenda')
    BY <1>7 DEF Inherits
  <2> QED
    BY <1>1, <1>9, <2>1, RegisteredKept
<1>10. CASE active' = [active EXCEPT ![node] = request]
  <2> SUFFICES ASSUME lifecycle = "active"
      PROVE  /\ \A n \in Nodes : active'[n] # NoRequest => active'[n] \in contexts /\ n \in Validated
             /\ \A n, m \in Nodes : active'[n] = active'[m] /\ n # m => active'[n] = NoRequest
             /\ \A j \in 1..Len(agenda') : agenda'[j].op = "launch" =>
                  agenda'[j].request \in contexts /\ \A n \in Nodes : active'[n] # agenda'[j].request
    BY <1>1 DEF Registered
  <2>1. /\ \A n \in Nodes : active[n] # NoRequest => active[n] \in contexts /\ n \in Validated
        /\ \A n, m \in Nodes : active[n] = active[m] /\ n # m => active[n] = NoRequest
        /\ \A i \in 1..Len(agenda) : agenda[i].op = "launch" =>
             agenda[i].request \in contexts /\ \A n \in Nodes : active[n] # agenda[i].request
    BY DEF Registered
  <2>2. request \in contexts /\ \A n \in Nodes : active[n] # request
    BY <1>2, <1>6, <2>1
  <2>3. \A n \in Nodes : active'[n] = IF n = node THEN request ELSE active[n]
    BY <1>10 DEF IInv, GraphTypes
  <2>4. \A n \in Nodes : active'[n] # NoRequest => active'[n] \in contexts /\ n \in Validated
    BY <1>5, <2>1, <2>2, <2>3
  <2>5. \A n, m \in Nodes : active'[n] = active'[m] /\ n # m => active'[n] = NoRequest
    BY <2>1, <2>2, <2>3
  <2>6. ASSUME NEW j \in 1..Len(agenda'), agenda'[j].op = "launch"
        PROVE  agenda'[j].request \in contexts /\ \A n \in Nodes : active'[n] # agenda'[j].request
    <3>1. PICK i \in 2..Len(agenda) : agenda[i] = agenda'[j] /\ i \in 1..Len(agenda)
      BY <1>7
    <3>2. agenda[i].op = "launch" /\ agenda[i].request # request
      BY <1>8, <2>6, <3>1
    <3> QED
      BY <2>1, <2>3, <3>1, <3>2
  <2> QED
    BY <2>4, <2>5, <2>6
<1> QED
  BY <1>3, <1>9, <1>10

LEMMA LaunchService ==
  ASSUME IInv, Verdicts, Service, LaunchValidation, UNCHANGED applicationVars
  PROVE  Service'
<1> DEFINE node == Task.node
           p == << >>
<1>1. At("launch") /\ UNCHANGED <<nodes, adapter, lifecycle, savepoint, throws, overlapped>>
      /\ UNCHANGED unavailable
  BY DEF LaunchValidation, storeVars, observerVars, applicationVars
<1>2. Discipline' /\ Registered'
  BY LaunchDiscipline, RegisteredLaunch DEF Service
<1>3. /\ agenda # << >> /\ agenda[1].op = "launch" /\ Task = agenda[1] /\ node = agenda[1].node
      /\ ~Inner(agenda[1]) /\ IsStack(agenda) /\ Safe(agenda[1]) /\ TaskOK(Task, requests)
  BY <1>1, HeadTask, AgendaStack DEF Inner, Safe
<1>4. node \in Nodes
  BY <1>3 DEF TaskOK
<1>5. Do(p) /\ IsStack(p) /\ Mild(p) /\ Len(p) = 0
  BY ShortMild DEF LaunchValidation
<1>6. node \in DOMAIN nodes => active' = [active EXCEPT ![node] = agenda[1].request]
  BY <1>3 DEF LaunchValidation
<1> HIDE DEF node, p
<1>7. \A j \in 1..Len(p) : ~Inner(p[j])
  BY <1>5
<1>8. \A n, v : Promised(agenda, n, v) /\ ~Pays(agenda[1], n, v) => Promised(agenda', n, v)
  BY <1>3, <1>5, PromisedPush DEF Do
<1>9. \A n, v : Pays(agenda[1], n, v) => n = node /\ v \in {NoVerdict, Anew}
  BY <1>3 DEF Pays, Does
<1>10. ASSUME Going'
       PROVE  Serving'
  <2>1. Going
    BY <1>1, <1>10 DEF Going
  <2>2. /\ savepoint = None /\ \A i \in 1..Len(agenda) : Sound(agenda[i])
        /\ Sound(agenda[1]) /\ Answering(nodes) /\ (~unavailable => Stored(nodes))
        /\ \A n : ~Naming(n) /\ \A graph : ~Resolving(graph, n)
    BY <1>1, <1>3, <2>1, ServingFacts, NoCommand DEF Preparing
  <2>3. node \in DOMAIN nodes /\ agenda[1].request = nodes[node].request
    BY <1>3, <2>2 DEF Sound
  <2>4. \A n \in Nodes : active'[n] = IF n = node THEN nodes[node].request ELSE active[n]
    BY <1>6, <2>3 DEF IInv, GraphTypes
  <2>5. CommandSound' /\ \A n : ~Naming(n)' /\ \A graph : ~Resolving(graph, n)'
    BY <1>3, <1>5, <1>7, CommandsBelow
  <2>6. \A j \in 1..Len(agenda') : Sound(agenda[j])'
    <3>1. \A i \in 2..Len(agenda) : \A j : agenda'[j] = agenda[i] => Sound(agenda[j])'
      <4> SUFFICES ASSUME NEW i \in 2..Len(agenda), NEW j, agenda'[j] = agenda[i]
                   PROVE  Sound(agenda[j])'
        OBVIOUS
      <4>1. i \in 1..Len(agenda)
        BY <1>3, StackFacts
      <4> QED
        BY <1>1, <2>2, <2>5, <4>1, SoundKept
    <3>2. \A j \in 1..Len(p) : \A i : agenda'[i] = p[j] => Sound(agenda[i])'
      BY <1>5
    <3> QED
      BY <1>3, <1>5, <3>1, <3>2, SoundTail
  <2>7. \A n \in DOMAIN nodes : nodes[n].value \notin {NoVerdict, Anew}
    BY RuntimeAssumption DEF IInv, GraphTypes, ControlOf, NoVerdict, Anew
  <2>8. Answering(nodes)'
    <3>1. \A n \in Nodes : IF n \in DOMAIN nodes
                           THEN active[n] = nodes[n].request \/ Promised(agenda, n, Debt(nodes[n]))
                           ELSE active[n] = NoRequest
      BY <2>2 DEF Answering
    <3>2. \A n \in Nodes : IF n \in DOMAIN nodes
                           THEN active'[n] = nodes[n].request \/ Promised(agenda', n, Debt(nodes[n]))
                           ELSE active'[n] = NoRequest
      BY <1>8, <1>9, <2>3, <2>4, <3>1
    <3> QED
      BY <1>1, <3>2 DEF Answering
  <2>9. ~unavailable' => Stored(nodes)'
    BY <1>1, <1>8, <1>9, <2>2, <2>7 DEF Stored
  <2> QED
    BY <1>1, <2>2, <2>5, <2>6, <2>8, <2>9 DEF Serving
<1> QED
  BY <1>2, <1>10 DEF Service
LEMMA AnswerService ==
  ASSUME IInv, Service, NEW answer \in answers, NEW verdict, AnswerValidation(answer, verdict),
         UNCHANGED applicationVars
  PROVE  Service'
<1> DEFINE node == answer.node
           request == answer.request
           x == Execute([type |-> "resolve", node |-> node, request |-> request, verdict |-> verdict])
           s == << >>
<1>1. /\ agenda = s /\ Len(s) = 0 /\ IsStack(s) /\ agenda = << >>
      /\ UNCHANGED <<nodes, adapter, lifecycle, savepoint, throws, overlapped>>
      /\ UNCHANGED unavailable
  BY EmptyStack DEF AnswerValidation, storeVars, observerVars, applicationVars
<1>2. Discipline'
  BY AnswerDiscipline DEF Service
<1>3. Going' => Going
  BY <1>1 DEF Going
<1>4. node \in Nodes /\ request # NoRequest
  BY DEF IInv, GraphTypes, NoRequest
<1>5. \/ agenda' = s /\ UNCHANGED <<active, contexts>>
      \/ /\ active[node] = request /\ active' = Cancelled({node}) /\ contexts' = Without(request)
         /\ \/ request \notin contexts /\ agenda' = s
            \/ request \in contexts /\ agenda' = <<x>>
  BY <1>1 DEF AnswerValidation, Current
<1>6. /\ x.op = "execute" /\ x.command.type = "resolve" /\ x.command.node = node
      /\ x.command.request = request /\ \A n, v : ~Pays(x, n, v)
  BY DEF Execute, Pays, Does
<1> HIDE DEF node, request, x, s
<1>7. CASE agenda' = s /\ UNCHANGED <<active, contexts>>
  <2>1. \A j \in 1..Len(s) : Spare(s[j]) /\ \A n, v : ~Pays(s[j], n, v)
    BY <1>1
  <2>2. UNCHANGED <<nodes, active, contexts, adapter, lifecycle, savepoint>>
    BY <1>1, <1>7
  <2>3. ~unavailable' => ~unavailable
    BY <1>1
  <2> QED
    BY <1>1, <1>2, <1>3, <1>7, <2>1, <2>2, <2>3, TurnService
<1>8. CASE /\ active[node] = request /\ active' = Cancelled({node}) /\ contexts' = Without(request)
           /\ \/ request \notin contexts /\ agenda' = s
              \/ request \in contexts /\ agenda' = <<x>>
  <2>1. \A j \in 1..Len(agenda') : agenda'[j] = x
    <3>1. Len(<<x>>) = 1 /\ <<x>>[1] = x
      BY StackOfOne
    <3>2. \A j \in 1..1 : j = 1
      OBVIOUS
    <3> QED
      BY <1>1, <1>8, <3>1, <3>2
  <2>2. Registered'
    <3>1. Inherits(agenda, agenda')
      BY <1>6, <2>1 DEF Inherits
    <3>2. contexts' \subseteq contexts /\ \A c \in contexts : c \notin contexts' => active[node] = c
      BY <1>8 DEF Without
    <3>3. \A c \in contexts : c \notin contexts' => \E n \in {node} \cap Nodes : active[n] = c
      BY <1>4, <3>2
    <3> QED
      BY <1>1, <1>8, <3>1, <3>2, <3>3, RegisteredLess DEF Service
  <2>3. ASSUME Going'
        PROVE  Serving'
    <3>1. /\ savepoint = None /\ Registered /\ lifecycle = "active"
          /\ Answering(nodes) /\ (~unavailable => Stored(nodes))
      <4>1. \A op \in Preparing : ~At(op)
        BY <1>1 DEF At
      <4>2. savepoint = None
        BY <1>3, <2>3, <4>1, NoSavepoint DEF Going
      <4> QED
        BY <1>3, <2>3, <4>2 DEF Service, Serving, Going
    <3>2. \A n, v : ~Promised(agenda, n, v) /\ \A graph : ~Resolving(graph, n)
      BY <1>1 DEF Promised, Resolving, At
    <3>3. \A n \in Nodes : active[n] = IF n \in DOMAIN nodes THEN nodes[n].request ELSE NoRequest
      BY <3>1, <3>2 DEF Answering
    <3>4. node \in DOMAIN nodes /\ nodes[node].request = request
      BY <1>4, <1>8, <3>3
    <3>5. agenda' = <<x>>
      BY <1>4, <1>8, <3>1 DEF Registered
    <3>6. agenda' # << >> /\ Task' = x
      <4>1. Len(<<x>>) = 1 /\ <<x>>[1] = x /\ IsStack(<<x>>)
        BY StackOfOne
      <4>2. <<x>> # << >> /\ Head(<<x>>) = <<x>>[1]
        BY <4>1, StackFacts
      <4> QED
        BY <3>5, <4>1, <4>2 DEF Task
    <3>7. \A n \in Nodes : active'[n] = IF n = node THEN NoRequest ELSE active[n]
      BY <1>8 DEF Cancelled
    <3>8. CommandSound'
      BY <1>1, <1>4, <1>6, <3>4, <3>6, <3>7 DEF CommandSound
    <3>9. \A n : n = node => Resolving(nodes, n)'
      BY <1>1, <1>6, <3>4, <3>6 DEF Resolving, At
    <3>10. Answering(nodes)'
      BY <1>1, <1>4, <3>3, <3>4, <3>7, <3>9 DEF Answering
    <3>11. ~unavailable' => Stored(nodes)'
      BY <1>1, <3>1, <3>2 DEF Stored
    <3>12. \A j \in 1..Len(agenda') : Sound(agenda[j])'
      <4> SUFFICES ASSUME NEW j \in 1..Len(agenda') PROVE Sound(agenda[j])'
        OBVIOUS
      <4>1. agenda'[j].op = "execute" /\ \A n, v : ~Pays(agenda'[j], n, v)
        BY <1>6, <2>1
      <4> QED
        BY <4>1 DEF Sound
    <3> QED
      BY <1>1, <3>1, <3>8, <3>10, <3>11, <3>12 DEF Serving
  <2> QED
    BY <1>2, <2>2, <2>3 DEF Service
<1> QED
  BY <1>5, <1>7, <1>8
-----------------------------------------------------------------------------
(* Commands.                                                                *)

(* The value and the request a command leaves.                              *)
LEMMA AppliedValues ==
  ASSUME GraphTypes, NEW command, Command(command, requests), Applicable(command)
  PROVE  LET after == Applied(command)
             n == command.node
         IN  /\ command.type # "value" => after[n].value = nodes[n].value
             /\ command.type \in {"resolve", "cancel"} =>
                  \/ after[n] = nodes[n] /\ nodes[n].request # command.request
                  \/ after[n].request = NoRequest
<1> DEFINE n == command.node
           c == nodes[n]
<1>1. n \in DOMAIN nodes /\ c \in ControlOf(requests)
  BY DEF GraphTypes, Applicable
<1>2. ASSUME NEW d, Applied(command) = [nodes EXCEPT ![n] = d]
      PROVE  Applied(command)[n] = d
  BY <1>1, <1>2 DEF GraphTypes
<1>3. CASE command.type = "value"
  BY <1>3
<1>4. CASE command.type = "start"
  <2>1. Applied(command) = [nodes EXCEPT ![n] = Started(c, command.request)]
    BY <1>4 DEF Applied
  <2>2. Started(c, command.request).value = c.value
    BY <1>1 DEF Started, ControlOf
  <2>3. command.type \notin {"resolve", "cancel"}
    BY <1>4
  <2> QED
    BY <1>2, <2>1, <2>2, <2>3
<1>5. ASSUME NEW v
      PROVE  LET d == Judged(c, command.request, v)
             IN  /\ d.value = c.value
                 /\ ((d = c /\ c.request # command.request) \/ d.request = NoRequest)
  <2>1. CASE c.request # command.request
    BY <2>1 DEF Judged
  <2>2. CASE c.request = command.request
    <3>1. Judged(c, command.request, v) = [c EXCEPT !.request = NoRequest, !.verdict = v]
      BY <2>2 DEF Judged
    <3> QED
      BY <1>1, <2>2, <3>1 DEF ControlOf
  <2> QED
    BY <2>1, <2>2
<1>6. CASE command.type = "resolve"
  <2>1. Applied(command) = [nodes EXCEPT ![n] = Judged(c, command.request, command.verdict)]
    BY <1>6 DEF Applied
  <2> DEFINE d == Judged(c, command.request, command.verdict)
  <2>2. d.value = c.value /\ ((d = c /\ c.request # command.request) \/ d.request = NoRequest)
    BY <1>5
  <2>3. Applied(command)[n] = d
    BY <1>2, <2>1
  <2> HIDE DEF d
  <2> QED
    BY <2>2, <2>3
<1>7. CASE command.type = "cancel"
  <2>1. Applied(command) = [nodes EXCEPT ![n] = Judged(c, command.request, NoVerdict)]
    BY <1>7 DEF Applied
  <2> DEFINE d == Judged(c, command.request, NoVerdict)
  <2>2. d.value = c.value /\ ((d = c /\ c.request # command.request) \/ d.request = NoRequest)
    BY <1>5
  <2>3. Applied(command)[n] = d
    BY <1>2, <2>1
  <2> HIDE DEF d
  <2> QED
    BY <2>2, <2>3
<1> QED
  BY <1>3, <1>4, <1>6, <1>7 DEF Command

(* Only the launch of the request a command names works for its control.    *)
LEMMA CommandAlone ==
  ASSUME IInv, Discipline, ~overlapped, At("execute"), NEW i \in 2..Len(agenda),
         NEW n \in Nodes, Task.command.node = n, Claims(agenda[i], n)
  PROVE  \/ agenda[i].op = "launch" /\ Task.command.type = "start"
         \/ agenda[i].op = "start" /\ Task.command.type = "cancel"
<1>1. agenda # << >> /\ Task = agenda[1] /\ agenda[1].op = "execute" /\ Len(agenda) \in Nat
      /\ 1 \in 1..Len(agenda) /\ i \in 1..Len(agenda) /\ 1 < i
  BY HeadTask
<1>2. Separate(agenda, i, 1)
  BY <1>1 DEF Discipline, Exclusive
<1>3. Touches(agenda[1], n)
  BY <1>1 DEF Touches
<1>4. i = 2 /\ Helps(agenda[1], agenda[2])
  BY <1>2, <1>3 DEF Separate
<1> QED
  BY <1>1, <1>4 DEF Helps

(* What a command leaves to do works for its control, with its value.       *)
LEMMA RemainingPays ==
  ASSUME GraphTypes, NEW command, Command(command, requests), Applicable(command),
         NEW n, NEW v, Pays(Remaining(command, Triggers(command, Changing(command))), n, v),
         v # NoVerdict
  PROVE  n = command.node /\ v = Applied(command)[n].value
<1> DEFINE set == Triggers(command, Changing(command))
           task == Remaining(command, set)
<1>1. set \in SUBSET Validated
  BY DEF Triggers
<1>2. /\ task.op = "settle"
      /\ \A k \in 1..Len(task.work) :
           \/ WritesNow(command) /\ k = 1 /\ task.work[k] = WriteOf(command)
           \/ \E m \in set : task.work[k] = [op |-> "schedule", node |-> m]
  <2> HIDE DEF set
  <2> QED
    BY <1>1, RemainingShape
<1> HIDE DEF task, set
<1>3. Pays(task, n, v)
  BY DEF task, set
<1>4. PICK k \in 1..Len(task.work) : Does(task.work[k], n, v)
  BY <1>2, <1>3 DEF Pays, Does
<1>5. task.work[k] = WriteOf(command)
  <2>1. ASSUME NEW m, task.work[k] = [op |-> "schedule", node |-> m]
        PROVE  FALSE
    <3>1. task.work[k].op = "schedule"
      BY <2>1
    <3> QED
      BY <1>4, <3>1 DEF Does
  <2> QED
    BY <1>2, <2>1
<1> QED
  BY <1>4, <1>5 DEF Does, WriteOf
\* Nothing that a command leaves to do throws.
LEMMA CommittedSafe ==
  ASSUME NEW p, NEW task, FactsThen(p, task), task.op = "settle", Neat(task)
  PROVE  /\ IsStack(p) /\ Len(p) \in Nat /\ Mild(p)
         /\ \A i \in 1..Len(p) : Safe(p[i]) /\ Spare(p[i])
         /\ \A i \in 1..Len(p) : \A n, v : Pays(p[i], n, v) => Pays(task, n, v)
         /\ \A n, v : Pays(task, n, v) => Promised(p, n, v)
<1>1. PICK m \in 2..Len(p) :
        /\ p[m] = task
        /\ \A i \in 1..Len(p) : i # m => Meek(p[i]) /\ Safe(p[i])
  BY DEF FactsThen
<1>2. IsStack(p) /\ Len(p) \in Nat /\ m \in 1..Len(p)
  BY <1>1 DEF FactsThen
<1>3. Safe(task) /\ Spare(task)
  BY DEF Safe, Spare, Inner
<1>4. \A i \in 1..Len(p) : Safe(p[i]) /\ Spare(p[i])
  BY <1>1, <1>3, MeekSpare
<1>5. \A i \in 1..Len(p) : \A n, v : Pays(p[i], n, v) => Pays(task, n, v)
  <2> SUFFICES ASSUME NEW i \in 1..Len(p), NEW n, NEW v, Pays(p[i], n, v) PROVE Pays(task, n, v)
    OBVIOUS
  <2>1. CASE i = m
    BY <1>1, <2>1
  <2>2. CASE i # m
    BY <1>1, <2>2, MeekSpare
  <2> QED
    BY <2>1, <2>2
<1>6. Mild(p)
  BY <1>4 DEF Mild
<1>7. Kept(p, m)
  BY <1>2, <1>4 DEF Kept
<1>8. \A n, v : Pays(task, n, v) => Promised(p, n, v)
  BY <1>1, <1>2, <1>7 DEF Promised
<1> QED
  BY <1>2, <1>4, <1>5, <1>6, <1>8

(* A command that was applied.                                              *)
LEMMA CommittedServing ==
  ASSUME IInv, Service, Going, At("execute"), UNCHANGED <<adapter, active, savepoint, unavailable>>,
         NEW command, command = Task.command, Command(command, requests), Applicable(command),
         nodes' = Applied(command),
         NEW p, Do(p), FactsThen(p, Remaining(command, Triggers(command, Changing(command))))
  PROVE  Serving'
<1> DEFINE task == Remaining(command, Triggers(command, Changing(command)))
           n == command.node
           after == Applied(command)
<1>1. /\ savepoint = None /\ \A i \in 1..Len(agenda) : Sound(agenda[i])
      /\ agenda # << >> /\ agenda[1].op = "execute" /\ Task = agenda[1]
      /\ CommandSound /\ Answering(nodes) /\ (~unavailable => Stored(nodes))
      /\ IsStack(agenda) /\ IsStack(Tail(agenda))
  <2>1. /\ savepoint = None /\ \A i \in 1..Len(agenda) : Sound(agenda[i])
        /\ agenda # << >> /\ agenda[1].op = "execute" /\ Task = agenda[1]
        /\ CommandSound /\ Answering(nodes) /\ (~unavailable => Stored(nodes))
    BY ServingFacts DEF Preparing
  <2> QED
    BY <2>1, AgendaStack, StackFacts
<1>2. GraphTypes /\ n \in Nodes /\ command.type \in {"value", "start", "resolve", "cancel"}
  BY DEF IInv, Command
<1>3. /\ DOMAIN after = DOMAIN nodes /\ n \in DOMAIN nodes
      /\ \A m \in DOMAIN nodes \ {n} : after[m] = nodes[m]
      /\ command.type = "value" => after[n].request = nodes[n].request
      /\ command.type = "start" => after[n].request = command.request
      /\ command.type # "value" => after[n].value = nodes[n].value
      /\ command.type \in {"resolve", "cancel"} =>
           \/ after[n] = nodes[n] /\ nodes[n].request # command.request
           \/ after[n].request = NoRequest
  BY <1>2, AppliedFacts, AppliedValues
<1>4. Neat(task) /\ task.op = "settle"
  BY <1>2, RemainingTouches DEF Remaining
<1>5. /\ IsStack(p) /\ Len(p) \in Nat /\ Mild(p)
      /\ \A i \in 1..Len(p) : Safe(p[i]) /\ Spare(p[i])
      /\ \A i \in 1..Len(p) : \A m, v : Pays(p[i], m, v) => Pays(task, m, v)
      /\ \A m, v : Pays(task, m, v) => Promised(p, m, v)
  BY <1>4, CommittedSafe
<1>6. \A m, v : Pays(task, m, v) /\ v # NoVerdict => m = n /\ v = after[m].value
  BY <1>2, RemainingPays
<1>7. WritesNow(command) => Pays(task, n, after[n].value)
  <2> SUFFICES ASSUME WritesNow(command) PROVE Pays(task, n, after[n].value)
    OBVIOUS
  <2> DEFINE set == Triggers(command, Changing(command))
             w == WriteOf(command)
  <2>1. set \in SUBSET Validated
    BY DEF Triggers
  <2>2. Len(task.work) >= 1 /\ task.work[1] = w /\ Len(task.work) \in Nat
    <3> HIDE DEF set, w
    <3>1. LET t == Remaining(command, set)
          IN  Len(t.work) >= 1 /\ t.work[1] = w /\ Len(t.work) \in Nat
      BY <2>1, RemainingShape DEF w
    <3> QED
      BY <3>1 DEF set
  <2>3. after[n].value \notin {NoVerdict, Anew}
    <3>1. after \in [DOMAIN nodes -> ControlOf(requests)]
      BY <1>2, AppliedTypes DEF after
    <3>2. after[n].value \in Values
      <4> HIDE DEF after, n
      <4> QED
        BY <1>3, <3>1 DEF ControlOf
    <3> QED
      BY <3>2, RuntimeAssumption DEF NoVerdict, Anew
  <2>4. w.op = "write" /\ w.node = n /\ w.value = after[n].value
    BY DEF WriteOf
  <2> HIDE DEF w, task, after, n
  <2>5. Does(w, n, after[n].value)
    BY <2>3, <2>4 DEF Does
  <2>6. 1 \in 1..Len(task.work)
    BY <2>2
  <2> QED
    BY <1>4, <2>2, <2>5, <2>6 DEF Pays
<1> HIDE DEF task, n, after
<1>8. nodes' = after /\ n = Task.command.node /\ n = agenda[1].command.node
  BY <1>1 DEF after, n
<1>9. \A m, v : ~Pays(agenda[1], m, v)
  BY <1>1 DEF Pays, Does
<1>10. \A m, v : Promised(agenda, m, v) => Promised(agenda', m, v)
  BY <1>1, <1>5, <1>9, PromisedPush DEF Do
<1>11. \A m, v : Promised(p, m, v) => Promised(agenda', m, v)
  BY <1>1, <1>5, PromisedAbove DEF Do
<1>12. CommandSound' /\ \A m : ~Naming(m)' /\ \A graph : ~Resolving(graph, m)'
  BY <1>1, <1>5, CommandsBelow DEF Spare
<1>13. command.type # "value" =>
         IF command.type = "start" THEN Promised(agenda, n, Anew) ELSE active[n] = NoRequest
  BY <1>1, <1>8 DEF CommandSound
<1>14. \A m \in Nodes \ {n} : ~Naming(m) /\ \A graph : ~Resolving(graph, m)
  BY <1>8 DEF Naming, Resolving
<1>15. command.type = "value" => \A graph : ~Resolving(graph, n)
  BY DEF Resolving
<1>16. Resolving(nodes, n) => nodes[n].request = command.request
  BY DEF Resolving
<1>17. Answering(nodes)'
  <2> SUFFICES ASSUME NEW m \in Nodes
               PROVE  IF m \in DOMAIN after
                      THEN active[m] = after[m].request \/ Promised(agenda', m, Debt(after[m]))
                      ELSE active[m] = NoRequest
    BY <1>8 DEF Answering
  <2>1. IF m \in DOMAIN nodes
        THEN active[m] = nodes[m].request \/ Promised(agenda, m, Debt(nodes[m])) \/ Resolving(nodes, m)
        ELSE active[m] = NoRequest
    BY <1>1 DEF Answering
  <2>2. CASE m # n
    BY <1>3, <1>10, <1>14, <2>1, <2>2
  <2>3. CASE m = n /\ command.type = "value"
    <3>1. Debt(after[n]) = Debt(nodes[n])
      BY <1>3, <2>3 DEF Debt
    <3> QED
      BY <1>3, <1>10, <1>15, <2>1, <2>3, <3>1
  <2>4. CASE m = n /\ command.type = "start"
    <3>1. Promised(agenda, n, Debt(after[n]))
      BY <1>13, <2>4, AnewToo
    <3> QED
      BY <1>3, <1>10, <2>4, <3>1
  <2>5. CASE m = n /\ command.type \in {"resolve", "cancel"}
    BY <1>3, <1>10, <1>13, <1>16, <2>1, <2>5
  <2> QED
    BY <1>2, <2>2, <2>3, <2>4, <2>5
<1>18. ASSUME ~unavailable'
       PROVE  Stored(nodes)'
  <2>1. \A m \in Bound \cap DOMAIN nodes :
          adapter[m] = nodes[m].value \/ Promised(agenda, m, nodes[m].value)
    BY <1>1, <1>18 DEF Stored
  <2>2. n \in NodesOf[bindings]
    BY <1>1, <1>3, <1>18, BoundNodes
  <2>3. after[n].value = nodes[n].value \/ WritesNow(command) \/ n \notin Bound
    BY <1>3, <2>2 DEF WritesNow, n, after
  <2>4. \A m \in Bound \cap DOMAIN after :
          adapter[m] = after[m].value \/ Promised(agenda', m, after[m].value)
    BY <1>3, <1>5, <1>7, <1>10, <1>11, <2>1, <2>3
  <2> QED
    BY <1>8, <2>4 DEF Stored
<1>19. ASSUME NEW i \in 2..Len(agenda), NEW j, agenda'[j] = agenda[i]
       PROVE  Sound(agenda[j])'
  <2>1. i \in 1..Len(agenda) /\ Sound(agenda[i])
    <3>1. i \in 1..Len(agenda)
      BY <1>1, StackFacts
    <3> QED
      BY <1>1, <3>1
  <2>2. Claims(agenda[i], n) =>
          \/ agenda[i].op = "launch" /\ command.type = "start"
          \/ agenda[i].op = "start" /\ command.type = "cancel"
    BY <1>2, <1>8, CommandAlone DEF Service, Going
  <2>3. agenda[i].op \in {"start", "launch"} => agenda[i].node \in DOMAIN after
    BY <1>3, <2>1 DEF Sound
  <2>4. ASSUME agenda[i].op = "launch"
        PROVE  agenda[i].request = after[agenda[i].node].request
    <3>1. agenda[i].node \in DOMAIN nodes
      BY <1>3, <2>3, <2>4
    <3>2. agenda[i].request = IF Naming(agenda[i].node) THEN command.request ELSE nodes[agenda[i].node].request
      BY <2>1, <2>4 DEF Sound
    <3>3. CASE agenda[i].node # n
      <4>1. agenda[i].node \in Nodes
        BY <1>2, <3>1 DEF GraphTypes
      <4> QED
        BY <1>3, <1>14, <3>1, <3>2, <3>3, <4>1
    <3>4. CASE agenda[i].node = n
      <4>1. command.type = "start"
        BY <2>2, <2>4, <3>4 DEF Claims
      <4>2. Naming(n)
        BY <1>8, <4>1 DEF Naming
      <4> QED
        BY <1>3, <3>2, <3>4, <4>1, <4>2
    <3> QED
      BY <3>3, <3>4
  <2>5. ASSUME ~unavailable, NEW m \in Nodes, NEW v \in Values, Pays(agenda[i], m, v)
        PROVE  m \in DOMAIN after /\ after[m].value = v
    <3>1. m \in DOMAIN nodes /\ nodes[m].value = v
      BY <2>1, <2>5 DEF Sound
    <3>2. CASE m # n
      BY <1>3, <3>1, <3>2
    <3>3. CASE m = n /\ command.type # "value"
      BY <1>3, <3>1, <3>3
    <3>4. CASE m = n /\ command.type = "value"
      <4>1. v # NoVerdict
        BY RuntimeAssumption DEF NoVerdict, Anew
      <4>2. Claims(agenda[i], n)
        BY <2>1, <2>5, <3>4, <4>1, PaysClaims
      <4> QED
        BY <2>2, <3>4, <4>2
    <3> QED
      BY <3>2, <3>3, <3>4
  <2> QED
    BY <1>8, <1>12, <1>19, <2>3, <2>4, <2>5 DEF Sound
<1>20. ASSUME NEW i \in 1..Len(p), NEW j, agenda'[j] = p[i]
       PROVE  Sound(agenda[j])'
  <2>1. p[i].op \notin {"start", "launch"}
    BY <1>5 DEF Spare
  <2>2. \A m \in Nodes, v \in Values : Pays(p[i], m, v) => m \in DOMAIN after /\ after[m].value = v
    <3>1. {NoVerdict, Anew} \cap Values = {}
      BY RuntimeAssumption DEF NoVerdict, Anew
    <3> QED
      BY <1>3, <1>5, <1>6, <3>1
  <2> QED
    BY <1>8, <1>20, <2>1, <2>2 DEF Sound
<1>21. \A j \in 1..Len(agenda') : Sound(agenda[j])'
  BY <1>1, <1>5, <1>19, <1>20, SoundTail
<1> QED
  BY <1>1, <1>12, <1>17, <1>18, <1>21 DEF Serving

LEMMA ExecuteService ==
  ASSUME IInv, Service, ExecuteCommand, UNCHANGED applicationVars
  PROVE  Service'
<1> DEFINE command == Task.command
<1>1. /\ At("execute") /\ Command(command, requests)
      /\ UNCHANGED <<lifecycle, savepoint, active, contexts, adapter, overlapped>>
      /\ \/ (lifecycle = "disposed" \/ savepoint # None) /\ Throw /\ UNCHANGED <<nodes, throws>>
         \/ ~Applicable(command) /\ Do(Rejection) /\ UNCHANGED <<nodes, throws>>
         \/ Do(Rejection) /\ throws' # 0
         \/ /\ Applicable(command) /\ nodes' = Applied(command) /\ UNCHANGED throws
            /\ \E next : Do(Committed(command, Triggers(command, Changing(command)),
                                      Changing(command), next))
  BY ExecuteChoices
<1>2. Discipline' /\ UNCHANGED unavailable
  BY ExecuteDiscipline DEF Service, applicationVars
<1>3. agenda # << >> /\ agenda[1].op = "execute" /\ Task = agenda[1] /\ GraphTypes
  BY <1>1, HeadTask DEF IInv
<1>4. PICK c : c = command
  OBVIOUS
<1> HIDE DEF command
<1>5. CASE (lifecycle = "disposed" \/ savepoint # None) /\ Throw /\ UNCHANGED <<nodes, throws>>
  <2>1. Registered'
    BY <1>1, <1>3, <1>5, ThrowInherits, RegisteredKept DEF Service
  <2>2. ~Going'
    <3> SUFFICES ASSUME Going' PROVE FALSE
      OBVIOUS
    <3>1. Going
      BY <1>1, <1>5 DEF Going
    <3>2. savepoint = None
      BY <1>1, <3>1, ServingFacts DEF Preparing
    <3> QED
      BY <1>5, <3>1, <3>2 DEF Going
  <2> QED
    BY <1>2, <2>1, <2>2 DEF Service
<1>6. ASSUME Do(Rejection)
      PROVE  /\ IsStack(Rejection) /\ Registered'
             /\ \A j \in 1..Len(Rejection) : Meek(Rejection[j])
  <2> DEFINE x == Emit("rejected", {}, revision)
             y == [op |-> "throw"]
             p == <<x, y>>
  <2>1. Meek(x) /\ Meek(y) /\ x.op # "launch" /\ y.op # "launch"
    BY EmitMeek DEF Meek, Emit
  <2>2. IsStack(p) /\ Len(p) = 2 /\ p[1] = x /\ p[2] = y
    BY StackOfTwo
  <2>3. Rejection = p
    BY DEF Rejection
  <2> HIDE DEF x, y, p
  <2>4. \A j \in 1..Len(p) : j = 1 \/ j = 2
    BY <2>2
  <2>5. \A j \in 1..Len(p) : Meek(p[j]) /\ p[j].op # "launch"
    BY <2>1, <2>2, <2>4
  <2>6. Inherits(agenda, agenda')
    BY <1>3, <1>6, <2>2, <2>3, <2>5, DoInherits
  <2> QED
    BY <1>1, <2>2, <2>3, <2>5, <2>6, RegisteredKept DEF Service
<1>7. CASE Do(Rejection) /\ throws' # 0
  BY <1>2, <1>6, <1>7 DEF Service, Going
<1>8. CASE ~Applicable(command) /\ Do(Rejection) /\ UNCHANGED <<nodes, throws>>
  <2>1. CASE ~Going'
    BY <1>2, <1>6, <1>8, <2>1 DEF Service
  <2>2. CASE Going'
    <3>1. Going
      BY <1>1, <1>8, <2>2 DEF Going
    <3>2. agenda[1].command.type = "value"
      <4>1. CommandSound
        BY <1>1, <3>1, ServingFacts DEF Preparing
      <4> QED
        BY <1>1, <1>3, <1>8, <4>1 DEF CommandSound, Applicable, command
    <3>3. ~Inner(agenda[1]) /\ ~Safe(agenda[1]) /\ agenda[1].op \notin Preparing
      BY <1>3, <3>2 DEF Inner, Safe, Preparing
    <3> DEFINE p == Rejection
    <3>4. IsStack(p) /\ Do(p) /\ \A j \in 1..Len(p) : Spare(p[j]) /\ \A n, v : ~Pays(p[j], n, v)
      BY <1>6, <1>8, MeekSpare
    <3> HIDE DEF p
    <3>5. \A n, v : ~Pays(agenda[1], n, v)
      BY <1>3 DEF Pays, Does
    <3>6. UNCHANGED <<nodes, active, contexts, adapter, lifecycle, savepoint>>
      BY <1>1, <1>8
    <3>7. ~unavailable' => ~unavailable
      BY <1>2
    <3> QED
      BY <1>2, <1>3, <3>1, <3>3, <3>4, <3>5, <3>6, <3>7, DoService
  <2> QED
    BY <2>1, <2>2
<1>9. ASSUME Applicable(c), nodes' = Applied(c), UNCHANGED throws,
             NEW next, Do(Committed(c, Triggers(c, Changing(c)), Changing(c), next))
      PROVE  Service'
  <2> DEFINE task == Remaining(c, Triggers(c, Changing(c)))
             p == Committed(c, Triggers(c, Changing(c)), Changing(c), next)
  <2>1. FactsThen(p, task) /\ Do(p)
    BY <1>9, CommittedShape
  <2>2. Neat(task) /\ task.op = "settle"
    BY <1>1, <1>3, <1>4, <1>9, RemainingTouches DEF Remaining
  <2> HIDE DEF p
  <2>3. IsStack(p) /\ \A j \in 1..Len(p) : Spare(p[j])
    <3> HIDE DEF task
    <3> QED
      BY <2>1, <2>2, CommittedSafe
  <2>4. Registered'
    <3>1. \A j \in 1..Len(p) : p[j].op # "launch"
      BY <2>3 DEF Spare
    <3> QED
      BY <1>1, <1>3, <2>1, <2>3, <3>1, DoInherits, RegisteredKept DEF Service
  <2>5. ASSUME Going'
        PROVE  Serving'
    <3>1. Going
      BY <1>1, <1>9, <2>5 DEF Going
    <3>2. c = Task.command
      BY <1>4 DEF command
    <3>3. UNCHANGED <<adapter, active, savepoint, unavailable>>
      BY <1>1, <1>2
    <3> QED
      BY <1>1, <1>4, <1>9, <2>1, <3>1, <3>2, <3>3, CommittedServing
  <2> QED
    BY <1>2, <2>4, <2>5 DEF Service
<1>10. CASE /\ Applicable(command) /\ nodes' = Applied(command) /\ UNCHANGED throws
            /\ \E next : Do(Committed(command, Triggers(command, Changing(command)),
                                      Changing(command), next))
  BY <1>4, <1>9, <1>10
<1> QED
  BY <1>1, <1>5, <1>7, <1>8, <1>10
-----------------------------------------------------------------------------
(* Updates.                                                                 *)

\* Nothing below an update in preparation works for a control.
LEMMA IdleFacts ==
  ASSUME IInv, Service, NEW op \in Staging, At(op), ~overlapped
  PROVE  /\ \A i \in 1..Len(agenda) :
              /\ agenda[i].op \notin {"start", "launch"}
              /\ \A n, v : v # NoVerdict => ~Pays(agenda[i], n, v)
         /\ \A n, v : v # NoVerdict => ~Promised(agenda, n, v)
<1>1. \A i \in 1..Len(agenda) : \A n \in Nodes : ~Claims(agenda[i], n)
  BY StagedIdle DEF Service, Idle
<1>2. \A i \in 1..Len(agenda) : agenda[i].op \notin {"start", "launch"}
  <2> SUFFICES ASSUME NEW i \in 1..Len(agenda), agenda[i].op \in {"start", "launch"} PROVE FALSE
    OBVIOUS
  <2>1. agenda[i].node \in Nodes
    BY DEF IInv, AgendaOK, Typed, TaskOK
  <2> QED
    BY <1>1, <2>1 DEF Claims
<1>3. \A i \in 1..Len(agenda) : \A n, v : v # NoVerdict => ~Pays(agenda[i], n, v)
  BY <1>1, PaysTyped, PaysClaims
<1> QED
  BY <1>2, <1>3 DEF Promised

\* Tasks that work for no control do not depend on any.
LEMMA IdleSound ==
  ASSUME NEW j, NEW task, agenda'[j] = task, task.op \notin {"start", "launch"},
         \A n, v : v # NoVerdict => ~Pays(task, n, v)
  PROVE  Sound(agenda[j])'
<1>1. {NoVerdict, Anew} \cap Values = {}
  BY RuntimeAssumption DEF NoVerdict, Anew
<1> QED
  BY <1>1 DEF Sound

\* A reconciled control awaits no answer, and has the value of its store or
\* the one it had.
LEMMA ReconciledControls ==
  ASSUME GraphTypes, NEW d \in Documents, NEW n \in NodesOf[d]
  PROVE  /\ DOMAIN Reconciled(d) = NodesOf[d] /\ Reconciled(d)[n].request = NoRequest
         /\ \/ Reconciled(d)[n].value = adapter[n]
            \/ n \in DOMAIN nodes /\ Reconciled(d)[n].value = nodes[n].value
<1>1. ASSUME NEW v, NEW r, NEW control \in ControlOf(r)
      PROVE  /\ Migrated(control, v).request = NoRequest
             /\ (Migrated(control, v).value = v \/ Migrated(control, v).value = control.value)
  BY DEF Migrated, ControlOf, Fresh
<1>2. \A v : Fresh(v).value = v /\ Fresh(v).request = NoRequest
  BY DEF Fresh
<1>3. Reconciled(d)[n] = IF n \in DOMAIN nodes THEN Migrated(nodes[n], adapter[n])
                         ELSE Fresh(adapter[n])
  BY DEF Reconciled
<1>4. n \in DOMAIN nodes => nodes[n] \in ControlOf(requests)
  BY DEF GraphTypes
<1>5. DOMAIN Reconciled(d) = NodesOf[d]
  BY DEF Reconciled
<1> QED
  BY <1>1, <1>2, <1>3, <1>4, <1>5

(* An update is staged: what it may restore is owed what the graph was.     *)
LEMMA StagedService ==
  ASSUME IInv, Service, BeginUpdate, ~unavailable, ~updating,
         savepoint' = Savepoint, NEW x, x.op \in {"render", "giveUp"}, Do(<<x>>),
         (nodes' = nodes /\ x.op = "giveUp") \/ nodes' = Reconciled(Task.document)
  PROVE  Service'
<1>1. At("update") /\ UNCHANGED <<active, contexts, adapter, lifecycle, throws, overlapped, unavailable>>
  BY DEF BeginUpdate, validationVars, observerVars
<1>2. Discipline' /\ "update" \in Staging
  BY UpdateDiscipline DEF Service, Staging
<1>3. agenda # << >> /\ Meek(agenda[1]) /\ ~Safe(agenda[1]) /\ Task = agenda[1]
      /\ TaskOK(Task, requests) /\ Task.op = "update"
  BY <1>1, <1>2, PreparingHead, HeadTask
<1>4. Task.document \in Documents /\ GraphTypes
  BY <1>3 DEF TaskOK, IInv
<1>4a. PICK d : d = Task.document
  OBVIOUS
<1>4b. \A n \in NodesOf[d] :
        /\ DOMAIN Reconciled(d) = NodesOf[d] /\ Reconciled(d)[n].request = NoRequest
        /\ \/ Reconciled(d)[n].value = adapter[n]
           \/ n \in DOMAIN nodes /\ Reconciled(d)[n].value = nodes[n].value
  BY <1>4, <1>4a, ReconciledControls
<1>4c. DOMAIN Reconciled(d) = NodesOf[d]
  BY DEF Reconciled
<1> DEFINE p == <<x>>
<1>5. Do(p) /\ IsStack(p) /\ Len(p) = 1 /\ p[1] = x
  BY StackOfOne
<1> HIDE DEF p
<1>6. \A j \in 1..Len(p) : j = 1
  BY <1>5
<1>7. \A j \in 1..Len(p) : p[j].op # "launch" /\ ~Inner(p[j])
  BY <1>5, <1>6 DEF Inner
<1>8. Registered'
  BY <1>1, <1>3, <1>5, <1>7, DoInherits, RegisteredKept DEF Service
<1>9. \A n, v : Promised(agenda, n, v) => Promised(agenda', n, v)
  BY <1>3, <1>5, BelowKept
<1>10. savepoint' # None /\ savepoint'.nodes = nodes
  <2>1. "settled" \in DOMAIN Savepoint /\ "settled" \notin DOMAIN None
    BY DEF Savepoint, None
  <2> QED
    BY <2>1 DEF Savepoint
<1>11. ASSUME Going'
       PROVE  Serving'
  <2>1. Going /\ ~overlapped
    BY <1>1, <1>11 DEF Going
  <2>2. Answering(nodes) /\ Stored(nodes)
    BY <1>1, <2>1, ServingFacts DEF Preparing
  <2>3. \A n : ~Naming(n) /\ \A graph : ~Resolving(graph, n)
    BY <1>3, NoCommand DEF Inner
  <2>4. \A n, v : v # NoVerdict => ~Promised(agenda, n, v)
    BY <1>1, <1>2, <2>1, IdleFacts
  <2>5. \A n \in DOMAIN nodes : nodes[n].value \notin {NoVerdict, Anew}
    BY <1>4, RuntimeAssumption DEF GraphTypes, ControlOf, NoVerdict, Anew
  <2>6. \A n \in Bound \cap DOMAIN nodes : adapter[n] = nodes[n].value
    BY <2>2, <2>4, <2>5 DEF Stored
  <2>7. \A n \in DOMAIN nodes' : n \in Bound =>
          adapter[n] = nodes'[n].value \/ (n \in DOMAIN nodes /\ nodes'[n].value = nodes[n].value)
    <3>1. CASE nodes' = nodes
      BY <3>1
    <3>2. CASE nodes' = Reconciled(Task.document)
      BY <1>4a, <1>4b, <1>4c, <3>2
    <3> QED
      BY <3>1, <3>2
  <2>8. Stored(nodes)'
    BY <1>1, <2>6, <2>7 DEF Stored
  <2>9. ASSUME ~At("giveUp")'
        PROVE  \A n \in DOMAIN nodes' : nodes'[n].request = NoRequest
    <3>1. x.op # "giveUp"
      <4>1. Len(p) >= 1
        BY <1>5
      <4>2. \A o : At(o)' <=> x.op = o
        BY <1>3, <1>5, <4>1, HeadNext
      <4> QED
        BY <2>9, <4>2
    <3>2. nodes' = Reconciled(Task.document)
      BY <3>1
    <3> QED
      BY <1>4a, <1>4b, <1>4c, <3>2
  <2>10. Answering(savepoint.nodes)'
    BY <1>1, <1>9, <1>10, <2>2, <2>3 DEF Answering
  <2>11. Stored(savepoint.nodes)'
    BY <1>1, <1>10, <2>6 DEF Stored
  <2> QED
    BY <1>10, <2>8, <2>9, <2>10, <2>11 DEF Serving, None
<1> QED
  BY <1>2, <1>8, <1>11 DEF Service

LEMMA BeginUpdateService ==
  ASSUME IInv, Service, BeginUpdate
  PROVE  Service'
<1>1. At("update") /\ UNCHANGED <<active, contexts, adapter, lifecycle, throws, overlapped, unavailable>>
  BY DEF BeginUpdate, validationVars, observerVars
<1>2. Discipline'
  BY UpdateDiscipline DEF Service
<1>3. agenda # << >> /\ Meek(agenda[1]) /\ agenda[1].op = "update"
  BY <1>1, PreparingHead DEF Staging
<1>4. CASE unavailable \/ updating
  <2>1. Do(<< >>) /\ UNCHANGED <<nodes, savepoint>>
    BY <1>4 DEF BeginUpdate, storeVars
  <2>2. Going' => Going
    BY <1>1 DEF Going
  <2>3. UNCHANGED <<nodes, active, contexts, adapter, lifecycle, savepoint>>
    BY <1>1, <2>1
  <2>4. agenda[1].op \notin Preparing /\ (~unavailable' => ~unavailable)
    BY <1>1, <1>3 DEF Preparing
  <2> QED
    BY <1>2, <1>3, <2>1, <2>2, <2>3, <2>4, MeekShort
<1>5. CASE ~unavailable /\ ~updating
  <2> DEFINE y(op) == [op |-> op, previous |-> document]
  <2>1. /\ savepoint' = Savepoint
        /\ \/ nodes' = Reconciled(Task.document) /\ Do(<<y("render")>>)
           \/ nodes' = nodes /\ Do(<<y("giveUp")>>)
    BY <1>5 DEF BeginUpdate, ReconcileTentatively
  <2>2. \A op : y(op).op = op
    OBVIOUS
  <2> HIDE DEF y
  <2> QED
    BY <1>5, <2>1, <2>2, StagedService
<1> QED
  BY <1>4, <1>5

\* A commit schedules the validations of its set, and works for nothing else.
LEMMA CommitPromises ==
  ASSUME NEW S, IsFiniteSet(S), NEW p, p = CommitTasks(S)
  PROVE  /\ IsStack(p)
         /\ \A j \in 1..Len(p) : Spare(p[j]) /\ \A n, v : v # NoVerdict => ~Pays(p[j], n, v)
         /\ \A n \in S : Promised(p, n, NoVerdict)
<1> DEFINE d == <<[op |-> "drain"]>>
           e == Each("schedule", S)
           c == <<Contained>>
           f == <<[op |-> "finish"]>>
<1>1. CommitShape(p, S)
  BY CommitStack
<1>2. /\ IsStack(p) /\ Len(p) \in Nat /\ Len(p) >= 3
      /\ p[1] = [op |-> "drain"] /\ p[Len(p)] = [op |-> "finish"]
      /\ \A i \in 2..(Len(p) - 1) :
           p[i] = Contained \/ \E n \in S : p[i] = [op |-> "schedule", node |-> n]
  BY <1>1 DEF CommitShape
<1>3. /\ \A j \in 1..Len(p) : p[j].op \in {"drain", "contained", "schedule", "finish"}
      /\ \A j \in 1..(Len(p) - 1) : p[j].op \in {"drain", "contained", "schedule"}
  <2>1. \A j \in 2..(Len(p) - 1) : p[j].op \in {"contained", "schedule"}
    <3> SUFFICES ASSUME NEW j \in 2..(Len(p) - 1) PROVE p[j].op \in {"contained", "schedule"}
      OBVIOUS
    <3>1. CASE p[j] = Contained
      BY <3>1 DEF Contained
    <3>2. ASSUME NEW n, p[j] = [op |-> "schedule", node |-> n]
          PROVE  p[j].op \in {"contained", "schedule"}
      BY <3>2
    <3> QED
      BY <1>2, <3>1, <3>2
  <2>2. /\ \A j \in 1..Len(p) : j = 1 \/ j = Len(p) \/ j \in 2..(Len(p) - 1)
        /\ \A j \in 1..(Len(p) - 1) : j = 1 \/ j \in 2..(Len(p) - 1)
    BY <1>2
  <2>3. p[1].op = "drain" /\ p[Len(p)].op = "finish"
    BY <1>2
  <2> QED
    BY <2>1, <2>2, <2>3
<1>4. \A j \in 1..(Len(p) - 1) : Safe(p[j])
  BY <1>3 DEF Safe
<1>5. \A j \in 1..Len(p) : Spare(p[j]) /\ \A n, v : v # NoVerdict => ~Pays(p[j], n, v)
  BY <1>3 DEF Spare, Inner, Pays, Does
<1>6. /\ IsStack(e) /\ Len(e) \in Nat
      /\ \A n \in S : \E i \in 1..Len(e) : e[i] = [op |-> "schedule", node |-> n]
  <2>1. IsStack(e) /\ \A n \in S : \E i \in 1..Len(e) : e[i] = [op |-> "schedule", node |-> n]
    BY EachFacts, EachCovers
  <2> HIDE DEF e
  <2> QED
    BY <2>1, StackFacts
<1>7. /\ IsStack(d) /\ Len(d) = 1 /\ IsStack(c) /\ Len(c) = 1 /\ IsStack(f) /\ Len(f) = 1
  BY StackOfOne
<1>8. p = ((d \o e) \o c) \o f
  BY DEF CommitTasks
<1> HIDE DEF d, e, c, f
<1> DEFINE q == d \o e
<1>9. /\ IsStack(q) /\ Len(q) = Len(d) + Len(e)
      /\ \A i \in 1..Len(e) : q[Len(d) + i] = e[i]
  <2>1. IsStack(d) /\ IsStack(e)
    BY <1>6, <1>7
  <2> QED
    BY <2>1, JoinedStack
<1> HIDE DEF q
<1> DEFINE r == q \o c
<1>10. /\ IsStack(r) /\ Len(r) = Len(q) + Len(c)
       /\ \A i \in 1..Len(q) : r[i] = q[i]
  <2>1. IsStack(q) /\ IsStack(c)
    BY <1>7, <1>9
  <2> QED
    BY <2>1, JoinedStack
<1> HIDE DEF r
<1>11. Len(p) = Len(r) + Len(f) /\ \A i \in 1..Len(r) : p[i] = r[i]
  <2>1. p = r \o f
    BY <1>8 DEF r, q
  <2>2. Len(r \o f) = Len(r) + Len(f) /\ \A i \in 1..Len(r) : (r \o f)[i] = r[i]
    BY <1>7, <1>10, JoinedStack
  <2> QED
    BY <2>1, <2>2
<1>12. ASSUME NEW n \in S
       PROVE  Promised(p, n, NoVerdict)
  <2>1. PICK i \in 1..Len(e) : e[i] = [op |-> "schedule", node |-> n]
    BY <1>6
  <2>2. 1 + i \in 1..Len(q) /\ 1 + i \in 1..Len(r) /\ 1 + i \in 1..Len(p) /\ 1 + i <= Len(p) - 1
    BY <1>6, <1>7, <1>9, <1>10, <1>11, <2>1
  <2>3. p[1 + i] = [op |-> "schedule", node |-> n]
    BY <1>7, <1>9, <1>10, <1>11, <2>1, <2>2
  <2>4. Pays(p[1 + i], n, NoVerdict)
    BY <2>3 DEF Pays, Does
  <2>5. \A j \in 1..((1 + i) - 1) : j \in 1..(Len(p) - 1)
    BY <1>2, <2>2
  <2>6. Kept(p, 1 + i)
    BY <1>4, <2>5 DEF Kept
  <2> QED
    BY <2>2, <2>4, <2>6 DEF Promised
<1> QED
  BY <1>2, <1>5, <1>12

(* The candidate graph takes the place of the one before.                   *)
LEMMA CandidateServing ==
  ASSUME IInv, Service, Going, At("commit"),
         NEW S, S = Changed(savepoint.nodes, nodes) \cap Validated, Do(CommitTasks(S)),
         active' = Cancelled(Removed), savepoint' = None,
         UNCHANGED <<nodes, adapter, unavailable>>
  PROVE  Serving'
<1>1. /\ "commit" \in Staging /\ "commit" \in Preparing
      /\ ~overlapped /\ lifecycle = "active" /\ IsFiniteSet(S)
  BY RuntimeAssumption, FS_Subset DEF Going, Staging, Preparing
<1>2. agenda # << >> /\ Meek(agenda[1]) /\ ~Safe(agenda[1]) /\ Task = agenda[1]
  BY <1>1, PreparingHead
<1>3. savepoint # None /\ ~savepoint.settled /\ ~unavailable /\ ~At("giveUp")
  BY <1>1, PreparedFacts
<1>4. /\ Answering(savepoint.nodes) /\ Stored(nodes)
      /\ \A n \in DOMAIN nodes : nodes[n].request = NoRequest
  BY <1>3 DEF Service, Serving
<1>5. DOMAIN nodes \subseteq Nodes
  BY DEF IInv, GraphTypes
<1>6. /\ \A i \in 1..Len(agenda) :
           /\ agenda[i].op \notin {"start", "launch"}
           /\ \A n, v : v # NoVerdict => ~Pays(agenda[i], n, v)
  BY <1>1, IdleFacts
<1>7. \A n : ~Naming(n) /\ \A graph : ~Resolving(graph, n)
  BY <1>2, MeekFacts, NoCommand
<1>8. PICK p : p = CommitTasks(S)
  OBVIOUS
<1>9. /\ IsStack(p) /\ Do(p)
      /\ \A j \in 1..Len(p) : Spare(p[j]) /\ \A n, v : v # NoVerdict => ~Pays(p[j], n, v)
      /\ \A n \in S : Promised(p, n, NoVerdict)
  BY <1>1, <1>8, CommitPromises
<1>10. \A j \in 1..Len(p) : ~Inner(p[j]) /\ p[j].op \notin {"start", "launch"}
  BY <1>9 DEF Spare
<1>11. \A n, v : Promised(agenda, n, v) => Promised(agenda', n, v)
  BY <1>2, <1>9, BelowKept
<1>12. \A n \in S : Promised(agenda', n, NoVerdict)
  <2>1. IsStack(Tail(agenda))
    BY <1>2, AgendaStack, StackFacts
  <2>2. \A n \in S : Promised(p \o Tail(agenda), n, NoVerdict)
    BY <1>9, <2>1, PromisedAbove
  <2> QED
    BY <1>9, <2>2 DEF Do
<1>13. CommandSound' /\ \A n : ~Naming(n)' /\ \A graph : ~Resolving(graph, n)'
  BY <1>2, <1>9, <1>10, CommandsBelow
<1>14. \A i \in 1..Len(agenda') : Sound(agenda[i])'
  <2>1. \A i \in 2..Len(agenda) : \A j : agenda'[j] = agenda[i] => Sound(agenda[j])'
    <3> SUFFICES ASSUME NEW i \in 2..Len(agenda), NEW j, agenda'[j] = agenda[i]
                 PROVE  Sound(agenda[j])'
      OBVIOUS
    <3>1. PICK x : x = agenda[i]
      OBVIOUS
    <3>2. i \in 1..Len(agenda)
      BY <1>2, AgendaStack, StackFacts
    <3>3. agenda'[j] = x /\ x.op \notin {"start", "launch"} /\ \A n, v : v # NoVerdict => ~Pays(x, n, v)
      BY <1>6, <3>1, <3>2
    <3> QED
      BY <3>3, IdleSound
  <2>2. \A j \in 1..Len(p) : \A i : agenda'[i] = p[j] => Sound(agenda[i])'
    BY <1>9, <1>10, IdleSound
  <2> QED
    BY <1>2, <1>9, <2>1, <2>2, SoundTail
<1>15. ASSUME NEW n \in Nodes
       PROVE  IF n \in DOMAIN nodes THEN active'[n] = NoRequest \/ Promised(agenda', n, NoVerdict)
              ELSE active'[n] = NoRequest
  <2>1. active'[n] = IF n \in DOMAIN savepoint.nodes /\ n \notin DOMAIN nodes THEN NoRequest
                     ELSE active[n]
    BY DEF Cancelled, Removed
  <2>2. IF n \in DOMAIN savepoint.nodes
        THEN active[n] = savepoint.nodes[n].request \/ Promised(agenda', n, NoVerdict)
        ELSE active[n] = NoRequest
    <3>1. \A control : Promised(agenda', n, Debt(control)) => Promised(agenda', n, NoVerdict)
      BY AnewToo DEF Debt
    <3> QED
      BY <1>4, <1>7, <1>11, <3>1 DEF Answering
  <2>3. active[n] # NoRequest => n \in Validated
    BY <1>1 DEF Service, Registered
  <2>4. n \in DOMAIN nodes /\ n \in DOMAIN savepoint.nodes /\ savepoint.nodes[n] # nodes[n]
          /\ n \in Validated => n \in S
    BY DEF Changed
  <2> QED
    BY <1>4, <1>12, <2>1, <2>2, <2>3, <2>4
<1>16. Answering(nodes)'
  <2>1. \A n \in DOMAIN nodes : Debt(nodes[n]) = NoVerdict
    BY <1>4 DEF Debt
  <2> QED
    BY <1>4, <1>15, <2>1 DEF Answering
<1>17. Stored(nodes)'
  BY <1>4, <1>11 DEF Stored
<1> QED
  BY <1>13, <1>14, <1>16, <1>17 DEF Serving

LEMMA CommitCandidateService ==
  ASSUME IInv, Service, CommitCandidate
  PROVE  Service'
<1>1. At("commit") /\ UNCHANGED <<nodes, adapter, lifecycle, overlapped, unavailable>>
  BY DEF CommitCandidate
<1>2. Discipline'
  BY <1>1, CommitCandidateDiscipline DEF Service
<1>3. /\ agenda # << >> /\ throws \in Nat /\ savepoint # None /\ ~savepoint.settled
      /\ lifecycle = "active"
  BY <1>1, PreparedFacts DEF Preparing, IInv, Control, ControlTypes
<1>4. Removed \subseteq Nodes
  <2>1. savepoint.nodes \in [NodesOf[Task.previous] -> ControlOf(requests)]
    BY <1>3 DEF IInv, Tentative
  <2>2. Task.previous \in Documents
    BY <1>1, PreparedFacts DEF Preparing
  <2> QED
    BY <2>1, <2>2, RuntimeAssumption DEF Removed
<1>5. ASSUME active' = Cancelled(Removed), contexts' = contexts \ {active[n] : n \in Removed},
             NEW p, IsStack(p), Do(p), \A j \in 1..Len(p) : p[j].op # "launch"
      PROVE  Registered'
  <2>1. Inherits(agenda, agenda')
    BY <1>3, <1>5, DoInherits
  <2>2. \A c \in contexts : c \notin contexts' => \E n \in Removed \cap Nodes : active[n] = c
    BY <1>4, <1>5
  <2>3. contexts' \subseteq contexts
    BY <1>5
  <2> QED
    BY <1>1, <1>5, <2>1, <2>2, <2>3, RegisteredLess DEF Service
<1>6. CASE CommitCoordination(<<[op |-> "finish"]>>) /\ UNCHANGED throws
  <2> DEFINE S == Changed(savepoint.nodes, nodes) \cap Validated
  <2>1. /\ active' = Cancelled(Removed) /\ contexts' = contexts \ {active[n] : n \in Removed}
        /\ savepoint' = None /\ Do(CommitTasks(S))
    BY <1>6 DEF CommitCoordination, CommitTasks
  <2>2. IsFiniteSet(S)
    BY RuntimeAssumption, FS_Subset
  <2>3. PICK s : s = S
    OBVIOUS
  <2>4. PICK p : p = CommitTasks(s)
    OBVIOUS
  <2>5. IsStack(p) /\ Do(p) /\ \A j \in 1..Len(p) : Spare(p[j])
    BY <2>1, <2>2, <2>3, <2>4, CommitPromises
  <2>6. \A j \in 1..Len(p) : p[j].op # "launch"
    BY <2>5 DEF Spare
  <2>7. Registered'
    BY <1>5, <2>1, <2>5, <2>6
  <2>8. Going' => Going
    BY <1>1, <1>6 DEF Going
  <2>9. Going => Serving'
    BY <1>1, <2>1, <2>3, CandidateServing
  <2> QED
    BY <1>2, <2>7, <2>8, <2>9 DEF Service
<1>7. CASE BreakCoordination /\ SelectorThrows /\ Do(<<Later("restore")>>)
  <2>1. ~Going'
    BY <1>3, <1>7 DEF SelectorThrows, Going
  <2> DEFINE p == <<Later("restore")>>
  <2>2. IsStack(p) /\ Len(p) = 1 /\ p[1] = Later("restore") /\ Do(p)
    BY <1>7, StackOfOne
  <2> HIDE DEF p
  <2>3. \A j \in 1..Len(p) : p[j].op # "launch"
    BY <2>2 DEF Later
  <2>4. Registered'
    BY <1>5, <1>7, <2>2, <2>3 DEF BreakCoordination
  <2> QED
    BY <1>2, <2>1, <2>4 DEF Service
<1> QED
  BY <1>6, <1>7 DEF CommitCandidate

(* What was staged is dropped: the graph before is as it was, and was owed   *)
(* all along what it is owed.                                               *)
LEMMA DiscardService ==
  ASSUME IInv, Service, Discipline', NEW op \in {"giveUp", "restore"}, At(op), ~savepoint.settled,
         DiscardCoordination, UNCHANGED <<lifecycle, validationVars, adapter, observerVars, unavailable>>,
         NEW p, IsStack(p), Do(p), \A j \in 1..Len(p) : Meek(p[j])
  PROVE  Service'
<1>1. op \in Staging /\ op \in Preparing
  BY DEF Staging, Preparing
<1>2. agenda # << >> /\ Meek(agenda[1]) /\ ~Safe(agenda[1]) /\ Task = agenda[1]
  BY <1>1, PreparingHead
<1>3. savepoint # None /\ ~unavailable
  BY <1>1, PreparedFacts
<1>4. /\ nodes' = savepoint.nodes /\ savepoint' = None
      /\ UNCHANGED <<active, contexts, throws, overlapped>>
  BY DEF DiscardCoordination, FinishCoordination, validationVars, observerVars
<1>5. \A j \in 1..Len(p) : Spare(p[j]) /\ \A n, v : ~Pays(p[j], n, v)
  BY MeekSpare
<1>6. \A j \in 1..Len(p) : ~Inner(p[j]) /\ p[j].op \notin {"start", "launch"}
  BY <1>5 DEF Spare
<1>7. Registered'
  <2>1. Inherits(agenda, agenda')
    BY <1>2, <1>6, DoInherits
  <2> QED
    BY <1>4, <2>1, RegisteredKept DEF Service
<1>8. \A n, v : Promised(agenda, n, v) => Promised(agenda', n, v)
  BY <1>2, BelowKept
<1>9. ASSUME Going'
      PROVE  Serving'
  <2>1. Going /\ ~overlapped
    BY <1>4, <1>9 DEF Going
  <2>2. Answering(savepoint.nodes) /\ Stored(savepoint.nodes)
    BY <1>3, <2>1 DEF Service, Serving
  <2>3. \A n : ~Naming(n) /\ \A graph : ~Resolving(graph, n)
    BY <1>2, MeekFacts, NoCommand
  <2>4. CommandSound' /\ \A n : ~Naming(n)' /\ \A graph : ~Resolving(graph, n)'
    BY <1>2, <1>6, CommandsBelow
  <2>5. \A i \in 1..Len(agenda) :
          /\ agenda[i].op \notin {"start", "launch"}
          /\ \A n, v : v # NoVerdict => ~Pays(agenda[i], n, v)
    BY <1>1, <2>1, IdleFacts
  <2>6. \A i \in 1..Len(agenda') : Sound(agenda[i])'
    <3>1. \A i \in 2..Len(agenda) : \A j : agenda'[j] = agenda[i] => Sound(agenda[j])'
      <4> SUFFICES ASSUME NEW i \in 2..Len(agenda), NEW j, agenda'[j] = agenda[i]
                   PROVE  Sound(agenda[j])'
        OBVIOUS
      <4>1. PICK x : x = agenda[i]
        OBVIOUS
      <4>2. i \in 1..Len(agenda)
        BY <1>2, AgendaStack, StackFacts
      <4>3. agenda'[j] = x /\ x.op \notin {"start", "launch"} /\ \A n, v : v # NoVerdict => ~Pays(x, n, v)
        BY <2>5, <4>1, <4>2
      <4> QED
        BY <4>3, IdleSound
    <3>2. \A j \in 1..Len(p) : \A i : agenda'[i] = p[j] => Sound(agenda[i])'
      BY <1>5, <1>6, IdleSound
    <3> QED
      BY <1>2, <3>1, <3>2, SoundTail
  <2>7. Answering(nodes)'
    BY <1>4, <1>8, <2>2, <2>3 DEF Answering
  <2>8. Stored(nodes)'
    BY <1>4, <1>8, <2>2 DEF Stored
  <2> QED
    BY <1>4, <2>4, <2>6, <2>7, <2>8 DEF Serving
<1> QED
  BY <1>7, <1>9 DEF Service

LEMMA GiveUpCandidateService ==
  ASSUME IInv, Service, GiveUpCandidate
  PROVE  Service'
<1>1. Discipline'
  BY UpdateDiscipline DEF Service
<1>2. /\ At("giveUp") /\ DiscardCoordination /\ Do(<< >>)
      /\ UNCHANGED <<lifecycle, validationVars, adapter, observerVars, unavailable>>
  BY DEF GiveUpCandidate
<1>3. ~savepoint.settled
  BY <1>2, PreparedFacts DEF Preparing
<1> DEFINE p == << >>
<1>4. IsStack(p) /\ Do(p) /\ Len(p) = 0
  BY <1>2, EmptyStack
<1> HIDE DEF p
<1>5. \A j \in 1..Len(p) : Meek(p[j])
  BY <1>4
<1> QED
  BY <1>1, <1>2, <1>3, <1>4, <1>5, DiscardService

LEMMA RestoreCandidateService ==
  ASSUME IInv, Service, RestoreCandidate
  PROVE  Service'
<1>1. Discipline'
  BY UpdateDiscipline DEF Service
<1>2. /\ At("restore") /\ ~savepoint.settled /\ DiscardCoordination
      /\ UNCHANGED <<lifecycle, validationVars, adapter, observerVars, unavailable>>
      /\ Do(<< >>) \/ Do(<<[op |-> "dispose"], [op |-> "quarantined"]>>)
  BY DEF RestoreCandidate
<1>3. PICK p : IsStack(p) /\ Do(p) /\ \A j \in 1..Len(p) : Meek(p[j])
  <2>1. CASE Do(<< >>)
    <3> DEFINE p == << >>
    <3>1. IsStack(p) /\ Do(p) /\ Len(p) = 0
      BY <2>1, EmptyStack
    <3> HIDE DEF p
    <3>2. \A j \in 1..Len(p) : Meek(p[j])
      BY <3>1
    <3> QED
      BY <3>1, <3>2
  <2>2. CASE Do(<<[op |-> "dispose"], [op |-> "quarantined"]>>)
    <3> DEFINE x == [op |-> "dispose"]
               y == [op |-> "quarantined"]
    <3>1. Meek(x) /\ Meek(y) /\ Do(<<x, y>>)
      BY <2>2 DEF Meek
    <3> HIDE DEF x, y
    <3> DEFINE p == <<x, y>>
    <3>2. IsStack(p) /\ Do(p) /\ Len(p) = 2 /\ p[1] = x /\ p[2] = y
      BY <3>1, StackOfTwo
    <3> HIDE DEF p
    <3>3. \A j \in 1..Len(p) : j = 1 \/ j = 2
      BY <3>2
    <3>4. \A j \in 1..Len(p) : Meek(p[j])
      BY <3>1, <3>2, <3>3
    <3> QED
      BY <3>2, <3>4
  <2> QED
    BY <1>2, <2>1, <2>2
<1> QED
  BY <1>1, <1>2, <1>3, DiscardService

-----------------------------------------------------------------------------
(* All steps.                                                               *)

LEMMA InitService ==
  ASSUME Init
  PROVE  Service
<1> DEFINE s == << >>
<1>1. agenda = s /\ Len(s) = 0
  BY EmptyStack DEF Init
<1> HIDE DEF s
<1>2. Len(agenda) = 0 /\ \A op : ~At(op)
  <2>1. agenda = << >>
    BY DEF Init
  <2> QED
    BY <1>1, <2>1 DEF At
<1>3. Discipline
  BY <1>2 DEF Discipline, Disciplined, Exclusive, Idle
<1>4. /\ savepoint = None /\ active = [n \in Nodes |-> NoRequest] /\ document \in Documents
      /\ nodes = [n \in NodesOf[document] |-> Fresh(InitialValue)]
      /\ adapter = [n \in Nodes |-> InitialValue]
  BY DEF Init
<1>5. Registered
  BY <1>2, <1>4 DEF Registered
<1>6. Fresh(InitialValue).request = NoRequest /\ Fresh(InitialValue).value = InitialValue
  BY DEF Fresh
<1>7. /\ DOMAIN nodes = NodesOf[document]
      /\ \A n \in DOMAIN nodes : nodes[n].request = NoRequest /\ nodes[n].value = InitialValue
  BY <1>4, <1>6
<1>8. Answering(nodes)
  BY <1>4, <1>7 DEF Answering
<1>9. Stored(nodes)
  <2>1. DOMAIN nodes \subseteq Nodes
    BY <1>4, <1>7, RuntimeAssumption
  <2> QED
    BY <1>4, <1>7, <2>1 DEF Stored
<1>10. CommandSound
  BY <1>2 DEF CommandSound
<1>11. \A i \in 1..Len(agenda) : Sound(agenda[i])
  BY <1>2
<1> QED
  BY <1>3, <1>4, <1>5, <1>8, <1>9, <1>10, <1>11 DEF Service, Serving

LEMMA StutterService ==
  ASSUME IInv, Service, UNCHANGED vars
  PROVE  Service'
<1>1. UNCHANGED <<agenda, lifecycle, nodes, savepoint, active, contexts, adapter, throws,
                  overlapped, unavailable>>
  BY DEF vars, runtimeVars, storeVars, validationVars, observerVars, applicationVars
<1>2. (\A op : At(op)' <=> At(op)) /\ Task' = Task
  BY <1>1 DEF At, Task
<1>3. Discipline'
  BY <1>1, <1>2 DEF Service, Discipline
<1>4. Registered'
  BY <1>1 DEF Service, Registered
<1>5. \A n : Naming(n)' <=> Naming(n)
  BY <1>2 DEF Naming
<1>6. (\A i \in 1..Len(agenda) : Sound(agenda[i])) => \A i \in 1..Len(agenda') : Sound(agenda[i])'
  <2>1. ASSUME NEW i \in 1..Len(agenda), Sound(agenda[i])
        PROVE  Sound(agenda[i])'
    <3>1. agenda' = agenda /\ nodes' = nodes /\ unavailable' = unavailable /\ Task' = Task
      BY <1>1, <1>2
    <3> QED
      BY <1>5, <2>1, <3>1 DEF Sound
  <2> QED
    BY <1>1, <2>1
<1>7. CommandSound => CommandSound'
  BY <1>1, <1>2 DEF CommandSound
<1>8. \A graph, n : Resolving(graph, n)' <=> Resolving(graph, n)
  BY <1>2 DEF Resolving
<1>9. /\ Answering(nodes) => Answering(nodes)'
      /\ Answering(savepoint.nodes) => Answering(savepoint.nodes)'
  BY <1>1, <1>8 DEF Answering
<1>10. /\ Stored(nodes) => Stored(nodes)'
       /\ Stored(savepoint.nodes) => Stored(savepoint.nodes)'
  BY <1>1 DEF Stored
<1>11. Serving => Serving'
  BY <1>1, <1>2, <1>6, <1>7, <1>9, <1>10 DEF Serving, None
<1>12. Going' => Going
  BY <1>1 DEF Going
<1> QED
  BY <1>3, <1>4, <1>11, <1>12 DEF Service

LEMMA RuntimeService ==
  ASSUME IInv, Verdicts, Service, RuntimeNext
  PROVE  Service'
<1>1. UNCHANGED applicationVars
  BY DEF RuntimeNext
<1>2. CASE EmitFact
  BY <1>1, <1>2, EmitService
<1>3. CASE DrainFact
  BY <1>1, <1>3, DrainService
<1>4. CASE Observe
  BY <1>1, <1>4, ObserveService
<1>5. CASE ExecuteCommand
  BY <1>1, <1>5, ExecuteService
<1>6. CASE Settle
  BY <1>1, <1>6, SettleService
<1>7. CASE Resume
  BY <1>1, <1>7, ResumeService
<1>8. CASE RequestWrite
  BY <1>1, <1>8, RequestWriteService
<1>9. CASE WriteStore
  BY <1>1, <1>9, WriteStoreService
<1>10. CASE ScheduleValidation
  BY <1>1, <1>10, ScheduleService
<1>11. CASE StartValidation
  BY <1>1, <1>11, StartService
<1>12. CASE LaunchValidation
  BY <1>1, <1>12, LaunchService
<1>13. CASE FinishDisposal
  BY <1>1, <1>13, FinishDisposalService
<1>14. ASSUME NEW answer \in answers, NEW verdict, AnswerValidation(answer, verdict)
       PROVE  Service'
  BY <1>1, <1>14, AnswerService
<1> QED
  BY <1>2, <1>3, <1>4, <1>5, <1>6, <1>7, <1>8, <1>9, <1>10, <1>11, <1>12, <1>13, <1>14
     DEF RuntimeNext

LEMMA ApplicationService ==
  ASSUME IInv, Service, ApplicationNext
  PROVE  Service'
<1>1. CASE ProjectFact \/ FinishUpdate \/ Quarantine
  BY <1>1, EndService
<1>2. CASE BeginUpdate
  BY <1>2, BeginUpdateService
<1>3. CASE RenderCandidate
  BY <1>3, RenderCandidateService
<1>4. CASE CommitCandidate
  BY <1>4, CommitCandidateService
<1>5. CASE GiveUpCandidate
  BY <1>5, GiveUpCandidateService
<1>6. CASE RestoreCandidate
  BY <1>6, RestoreCandidateService
<1>7. CASE FailToRestore
  BY <1>7, FailToRestoreService
<1>8. CASE DisposeApplication
  BY <1>8, DisposeApplicationService
<1>9. CASE ObserveStructurally
  BY <1>9, ObserveStructurallyService
<1>10. ASSUME NEW n \in Nodes, NEW v \in Values, Input(n, v)
       PROVE  Service'
  BY <1>10, InputService
<1>11. CASE \/ \E d \in Documents : Call(<<Update(d)>>)
            \/ Call(<<[op |-> "dispose"]>>)
  BY <1>11, HostCallService
<1> QED
  BY <1>1, <1>2, <1>3, <1>4, <1>5, <1>6, <1>7, <1>8, <1>9, <1>10, <1>11 DEF ApplicationNext

\* Nothing is due any more when the thread rests: what was owed was done.
LEMMA RestServed ==
  ASSUME IInv, Service, AtRest, throws = 0, ~overlapped, lifecycle = "active"
  PROVE  /\ \A n \in Nodes : active[n] = IF n \in DOMAIN nodes THEN nodes[n].request ELSE NoRequest
         /\ ~unavailable => \A n \in Bound \cap DOMAIN nodes : adapter[n] = nodes[n].value
<1>1. agenda = << >> /\ \A op : ~At(op)
  BY DEF AtRest, At
<1>2. savepoint = None
  BY <1>1, NoSavepoint
<1>3. Answering(nodes) /\ (~unavailable => Stored(nodes))
  BY <1>2 DEF Service, Serving, Going
<1>4. \A n, v : ~Promised(agenda, n, v)
  <2>1. Len(agenda) = 0
    BY <1>1, EmptyStack
  <2> QED
    BY <2>1 DEF Promised
<1>5. \A graph, n : ~Resolving(graph, n)
  BY <1>1 DEF Resolving
<1>6. \A n \in Nodes : active[n] = IF n \in DOMAIN nodes THEN nodes[n].request ELSE NoRequest
  BY <1>3, <1>4, <1>5 DEF Answering
<1>7. ~unavailable => \A n \in Bound \cap DOMAIN nodes : adapter[n] = nodes[n].value
  BY <1>3, <1>4 DEF Stored
<1> QED
  BY <1>6, <1>7

LEMMA Serviced == Spec => [](Verdicts /\ Service)
<1>1. Init => Verdicts /\ Service
  BY InitVerdicts, InitService
<1>2. IInv /\ Verdicts /\ Service /\ [Next]_vars => (Verdicts /\ Service)'
  BY StutterVerdicts, RuntimeVerdicts, ApplicationVerdicts,
     StutterService, RuntimeService, ApplicationService DEF Next
<1> QED
  BY <1>1, <1>2, Invariance, PTL DEF Spec

(* When the thread rests, a control awaits an answer exactly if a validator *)
(* works for the request it awaits: whatever changes the value, replaces or *)
(* removes the control or stops the validator settles the request or leaves *)
(* a validation due, which no observer, rejection or discarded update drops *)
(* (runtime-validation.ts, schedule and start; runtime-coordination.ts,     *)
(* commit and discard).  A selector that throws and an observer that works  *)
(* on the very control a call is working for are the two exceptions, and    *)
(* the property names them.                                                 *)
THEOREM PendingAnswered == Spec => []PendingIsAnswered
<1>1. IInv /\ Service => PendingIsAnswered
  BY RestServed DEF PendingIsAnswered, Undisturbed
<1> QED
  BY <1>1, Invariance, Serviced, PTL

(* When the thread rests, the store of every bound control holds its value: *)
(* a change of value owes a write of the value it made (store-write.ts),    *)
(* which is on the agenda until the port passed it on (effect-runner.ts,    *)
(* store-command-port.ts); no other task changes the value before, and what *)
(* an update restores was owed the same all along.  The exceptions are      *)
(* those of PendingIsAnswered.                                              *)
THEOREM StoresFollowControls == Spec => []StoresFollow
<1>1. IInv /\ Service => StoresFollow
  <2> SUFFICES ASSUME IInv, Service, Undisturbed, ~overlapped, ~unavailable
               PROVE  \A n \in Bound \cap DOMAIN nodes : adapter[n] = nodes[n].value
    BY DEF StoresFollow
  <2>1. lifecycle = "active"
    BY DEF IInv, Control, Phase, ControlTypes
  <2> QED
    BY <2>1, RestServed DEF Undisturbed
<1> QED
  BY <1>1, Invariance, Serviced, PTL
=============================================================================
