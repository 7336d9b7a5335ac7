------------------------- MODULE WordComments_proofs -------------------------
(***************************************************************************)
(* Proofs about the comments of a word, for any number of comments and     *)
(* screens.                                                                *)
(*                                                                         *)
(* That the table never knows of a row that arr lacks, except for rejected *)
(* comments, rests on an order: what is drawn, arr, the snapshots on their *)
(* way to the main queue, oldest first, and the local view contain each    *)
(* other in this order, rejected comments aside (`Ordered').               *)
(*                                                                         *)
(* That a screen at rest shows the local view rests on the order of the    *)
(* worker's tasks: a comment of another screen that is yet to be written   *)
(* has a fetch of the open screen behind it (`WritesBeforeListen'), so     *)
(* that the answer to the last fetch lacks none (`LastAnswerFresh').       *)
(***************************************************************************)
EXTENDS WordComments, SequenceTheorems, TLAPS

\* The sequences and functions are well formed.
ShapeOK ==
    /\ arr \in [Screens -> SUBSET Comments]
    /\ drawn \in [Screens -> SUBSET Comments]
    /\ stored \subseteq Comments
    /\ tasks \in Seq(Tasks)
    /\ pending \subseteq Comments \X (Screens \cup {NoScreen})
    /\ fetches \in Seq(Screens)
    /\ mainQueue \in Seq(Blocks)
    /\ rejected \subseteq Comments
    /\ missed \subseteq Screens
    /\ restarts \in 0..MaxRestarts

ScreenOK ==
    /\ open \in Screens \cup {NoScreen}
    /\ sheet \in BOOLEAN
    /\ sheet => open # NoScreen

\* The local view has comments only.
LEMMA ViewTyped == ShapeOK => view \subseteq Comments
  BY DEF ShapeOK, view

\* The oldest block, and the queue behind it.
LEMMA HeadBlock ==
    ASSUME ShapeOK, mainQueue # <<>>
    PROVE  /\ Head(mainQueue) \in Blocks
           /\ Head(mainQueue).screen \in Screens
           /\ Head(mainQueue).comments \subseteq Comments
           /\ Tail(mainQueue) \in Seq(Blocks)
<1>1. Head(mainQueue) \in Blocks /\ Tail(mainQueue) \in Seq(Blocks)
  BY DEF ShapeOK
<1> QED
  BY <1>1 DEF Blocks

\* Every step keeps the shape.
LEMMA ShapeStep == ShapeOK /\ ScreenOK /\ [Next]_vars => ShapeOK'
<1> SUFFICES ASSUME ShapeOK, ScreenOK, [Next]_vars PROVE ShapeOK'
  OBVIOUS
<1> USE DEF screenVars, clientVars
<1>1. ASSUME NEW s \in Screens, OpenWord(s) PROVE ShapeOK'
  <2>1. Append(tasks, Listen(s)) \in Seq(Tasks)
    BY DEF ShapeOK, Listen, Tasks
  <2> QED
    BY <1>1, <2>1 DEF OpenWord, FetchComment, ShapeOK
<1>2. CASE Back \/ AddComment \/ CancelComment \/ UNCHANGED vars
  BY <1>2 DEF Back, AddComment, CancelComment, vars, ShapeOK
<1>3. ASSUME NEW c \in Comments, SaveComment(c) PROVE ShapeOK'
  <2>1. open \in Screens
    BY <1>3 DEF SaveComment, ScreenOK
  <2>2. Append(tasks, Write(c, open)) \in Seq(Tasks)
    BY <2>1 DEF ShapeOK, Write, Tasks
  <2> QED
    BY <1>3, <2>2 DEF SaveComment, ShapeOK
<1>4. ASSUME NEW p \in pending, Acknowledge(p) \/ Reject(p) PROVE ShapeOK'
  <2>1. p[1] \in Comments /\ (p[2] # NoScreen => p[2] \in Screens)
    BY DEF ShapeOK
  <2>2. p[2] # NoScreen => Block("saved", p[2], {}) \in Blocks
    BY <2>1 DEF Block, Blocks
  <2>3. p[2] # NoScreen => Append(mainQueue, Block("saved", p[2], {})) \in Seq(Blocks)
    BY <2>2 DEF ShapeOK
  <2> QED
    BY <1>4, <2>1, <2>3 DEF Acknowledge, Reject, Answered, ShapeOK
<1>5. CASE AnswerFetch
  <2>1. Head(fetches) \in Screens /\ Tail(fetches) \in Seq(Screens)
    BY <1>5 DEF AnswerFetch, ShapeOK
  <2>2. Block("loaded", Head(fetches), view) \in Blocks
    BY <2>1, ViewTyped DEF Block, Blocks
  <2>3. Append(mainQueue, Block("loaded", Head(fetches), view)) \in Seq(Blocks)
    BY <2>2 DEF ShapeOK
  <2> QED
    BY <1>5, <2>1, <2>3 DEF AnswerFetch, ShapeOK
<1>6. CASE DenyFetch
  <2>1. Head(fetches) \in Screens /\ Tail(fetches) \in Seq(Screens)
    BY <1>6 DEF DenyFetch, ShapeOK
  <2> QED
    BY <1>6, <2>1 DEF DenyFetch, ShapeOK
<1>7. CASE CommentSaved
  <2>1. Append(tasks, Listen(Head(mainQueue).screen)) \in Seq(Tasks)
    BY <1>7, HeadBlock DEF CommentSaved, NextBlock, ShapeOK, Listen, Tasks
  <2> QED
    BY <1>7, <2>1, HeadBlock DEF CommentSaved, NextBlock, FetchComment, ShapeOK
<1>8. CASE CommentsLoaded
  <2>1. Block("reload", Head(mainQueue).screen, {}) \in Blocks
    BY <1>8, HeadBlock DEF CommentsLoaded, NextBlock, Block, Blocks
  <2>2. Append(Tail(mainQueue), Block("reload", Head(mainQueue).screen, {})) \in Seq(Blocks)
    BY <1>8, <2>1, HeadBlock DEF CommentsLoaded, NextBlock
  <2> QED
    BY <1>8, <2>2, HeadBlock DEF CommentsLoaded, NextBlock, ShapeOK
<1>9. CASE ReloadData
  BY <1>9, HeadBlock DEF ReloadData, NextBlock, ShapeOK
<1>10. CASE RunTask
  <2>1. tasks # <<>> /\ Tail(tasks) \in Seq(Tasks) /\ Head(tasks) \in Tasks
    BY <1>10 DEF RunTask, ShapeOK
  <2>2. CASE Head(tasks).op = "write"
    BY <1>10, <2>1, <2>2 DEF RunTask, ShapeOK, Tasks
  <2>3. CASE Head(tasks).op = "listen"
    <3>1. Append(fetches, Head(tasks).screen) \in Seq(Screens)
      BY <2>1, <2>3 DEF ShapeOK, Tasks
    <3> QED
      BY <1>10, <2>1, <2>3, <3>1 DEF RunTask, ShapeOK
  <2> QED
    BY <1>10, <2>2, <2>3 DEF RunTask
<1>11. CASE Restart
  <2>1. pending' \subseteq Comments \X (Screens \cup {NoScreen})
    BY <1>11 DEF Restart, ShapeOK
  <2>2. restarts' \in 0..MaxRestarts
    BY <1>11, CommentsAssumption DEF Restart, ShapeOK
  <2>3. tasks' \in Seq(Tasks) /\ fetches' \in Seq(Screens) /\ mainQueue' \in Seq(Blocks)
    BY <1>11, EmptySeq, Zenon DEF Restart
  <2> QED
    BY <1>11, <2>1, <2>2, <2>3 DEF Restart, ShapeOK
<1> QED
  BY <1>1, <1>2, <1>3, <1>4, <1>5, <1>6, <1>7, <1>8, <1>9, <1>10, <1>11
     DEF Next, MainQueueStep

\* A sheet is only up over an open screen.
LEMMA ScreenStep == ScreenOK /\ [Next]_vars => ScreenOK'
<1> SUFFICES ASSUME ScreenOK, [Next]_vars PROVE ScreenOK'
  OBVIOUS
<1>1. ASSUME NEW s \in Screens, OpenWord(s) PROVE ScreenOK'
  <2>1. open' = s /\ open' # NoScreen /\ sheet' = sheet
    BY <1>1, CommentsAssumption DEF OpenWord
  <2> QED
    BY <2>1, Zenon DEF ScreenOK
<1>2. CASE Back
  BY <1>2, Zenon DEF Back, ScreenOK
<1>3. CASE AddComment
  BY <1>3, Zenon DEF AddComment, ScreenOK
<1>4. CASE CancelComment
  BY <1>4, Zenon DEF CancelComment, ScreenOK
<1>5. ASSUME NEW c \in Comments, SaveComment(c) PROVE ScreenOK'
  BY <1>5, Zenon DEF SaveComment, ScreenOK
<1>6. ASSUME UNCHANGED <<open, sheet>> PROVE ScreenOK'
  BY <1>6, Zenon DEF ScreenOK
<1>7. CASE \/ \E p \in pending : Acknowledge(p) \/ Reject(p)
           \/ RunTask \/ AnswerFetch \/ DenyFetch \/ MainQueueStep \/ UNCHANGED vars
  BY <1>6, <1>7 DEF Acknowledge, Reject, Answered, RunTask, AnswerFetch, DenyFetch,
     MainQueueStep, CommentSaved, CommentsLoaded, ReloadData, vars, screenVars
<1>8. CASE Restart
  BY <1>8, Zenon DEF Restart, ScreenOK
<1> QED
  BY <1>1, <1>2, <1>3, <1>4, <1>5, <1>7, <1>8 DEF Next

\* The state of the comments is well formed in every reachable state.
THEOREM TypeCorrect == Spec => []TypeOK
<1>1. Init => ShapeOK
  BY CommentsAssumption DEF Init, ShapeOK
<1>2. Init => ScreenOK
  BY Zenon DEF Init, ScreenOK
<1>3. ShapeOK /\ ScreenOK => TypeOK
  BY Zenon DEF ShapeOK, ScreenOK, TypeOK
<1> QED
  BY <1>1, <1>2, <1>3, ShapeStep, ScreenStep, PTL DEF Spec
-----------------------------------------------------------------------------
(* Rows.                                                                   *)

\* Everything in S is in T or in R, the rejected comments.
Within(S, T, R) == S \ T \subseteq R

Loaded == {i \in DOMAIN mainQueue : mainQueue[i].kind = "loaded"}

Ordered ==
    /\ \A s \in Screens : Within(drawn[s], arr[s], rejected)
    /\ \A s \in Screens : Within(arr[s], view, rejected)
    /\ \A s \in Screens, i \in Loaded : Within(arr[s], mainQueue[i].comments, rejected)
    /\ \A i, j \in Loaded : i < j => Within(mainQueue[i].comments, mainQueue[j].comments, rejected)
    /\ \A i \in Loaded : Within(mainQueue[i].comments, view, rejected)

\* The queue without its oldest block.
LEMMA QueueTail ==
    ASSUME ShapeOK, mainQueue # <<>>
    PROVE  /\ 1 \in DOMAIN mainQueue /\ Head(mainQueue) = mainQueue[1]
           /\ DOMAIN mainQueue \subseteq Nat
           /\ \A i \in DOMAIN Tail(mainQueue) :
                 /\ i \in Nat /\ i > 0 /\ i + 1 \in DOMAIN mainQueue
                 /\ Tail(mainQueue)[i] = mainQueue[i + 1]
<1>1. Len(mainQueue) \in Nat /\ Len(mainQueue) # 0 /\ DOMAIN mainQueue = 1..Len(mainQueue)
  BY EmptySeq, LenProperties DEF ShapeOK
<1>2. /\ Len(Tail(mainQueue)) = Len(mainQueue) - 1
      /\ \A i \in 1..Len(Tail(mainQueue)) : Tail(mainQueue)[i] = mainQueue[i + 1]
      /\ DOMAIN Tail(mainQueue) = 1..Len(Tail(mainQueue))
  BY HeadTailProperties, LenProperties DEF ShapeOK
<1>3. Head(mainQueue) = mainQueue[1]
  BY DEF ShapeOK
<1> QED
  BY <1>1, <1>2, <1>3

\* When the oldest block has run, what the others hold is still in order.
LEMMA QueueAdvances ==
    ASSUME ShapeOK, Ordered, mainQueue # <<>>, UNCHANGED <<view, rejected>>,
           \A i \in Loaded' : i \in DOMAIN Tail(mainQueue)
                               /\ mainQueue'[i] = Tail(mainQueue)[i]
    PROVE  /\ \A i \in Loaded' : i \in Nat /\ i + 1 \in Loaded /\ i + 1 > 1
                                  /\ mainQueue'[i] = mainQueue[i + 1]
           /\ \A i, j \in Loaded' :
                 i < j => Within(mainQueue'[i].comments, mainQueue'[j].comments, rejected')
           /\ \A i \in Loaded' : Within(mainQueue'[i].comments, view', rejected')
<1>1. \A i \in Loaded' : i \in Nat /\ i + 1 \in Loaded /\ i + 1 > 1
                         /\ mainQueue'[i] = mainQueue[i + 1]
  BY QueueTail DEF Loaded
<1>2. \A i, j \in Loaded' : i < j => i + 1 < j + 1
  BY <1>1
<1> QED
  BY <1>1, <1>2 DEF Ordered, Within

\* Every step keeps the order.
LEMMA OrderedStep == ShapeOK /\ Ordered /\ [Next]_vars => Ordered'
<1> SUFFICES ASSUME ShapeOK, Ordered, [Next]_vars PROVE Ordered'
  OBVIOUS
<1> USE DEF screenVars, clientVars
<1>q. ASSUME UNCHANGED <<arr, drawn, mainQueue, rejected>>, view \subseteq view'
      PROVE  Ordered'
  BY <1>q DEF Ordered, Within, Loaded
<1>1. ASSUME NEW s \in Screens, OpenWord(s) PROVE Ordered'
  <2>1. UNCHANGED <<view, mainQueue, rejected>>
    BY <1>1 DEF OpenWord, view
  <2>2. arr' = [arr EXCEPT ![s] = {}] /\ drawn' = [drawn EXCEPT ![s] = {}]
    BY <1>1 DEF OpenWord
  <2> QED
    BY <2>1, <2>2 DEF Ordered, Within, Loaded, ShapeOK
<1>2. CASE Back \/ AddComment \/ CancelComment \/ UNCHANGED vars \/ DenyFetch
  BY <1>2, <1>q DEF Back, AddComment, CancelComment, DenyFetch, vars, view
<1>3. ASSUME NEW c \in Comments, SaveComment(c) PROVE Ordered'
  BY <1>3, <1>q DEF SaveComment, view
<1>4. ASSUME NEW p \in pending, Acknowledge(p) \/ Reject(p) PROVE Ordered'
  <2>1. rejected \subseteq rejected' /\ view \subseteq view' \cup rejected'
    <3>1. pending' = pending \ {p}
      BY <1>4 DEF Acknowledge, Reject, Answered
    <3>2. \/ stored' = stored \cup {p[1]} /\ rejected' = rejected
          \/ stored' = stored /\ rejected' = rejected \cup {p[1]}
      BY <1>4 DEF Acknowledge, Reject
    <3> QED
      BY <3>1, <3>2 DEF view
  <2>2. /\ UNCHANGED <<arr, drawn>>
        /\ mainQueue' = mainQueue \/ mainQueue' = Append(mainQueue, Block("saved", p[2], {}))
    BY <1>4 DEF Acknowledge, Reject, Answered
  <2>3. /\ Loaded' = Loaded
        /\ \A i \in Loaded : mainQueue'[i] = mainQueue[i]
    <3>1. CASE mainQueue' = mainQueue
      BY <3>1 DEF Loaded
    <3>2. CASE mainQueue' = Append(mainQueue, Block("saved", p[2], {}))
      BY <3>2 DEF Loaded, Block, ShapeOK
    <3> QED
      BY <2>2, <3>1, <3>2
  <2> QED
    BY <2>1, <2>2, <2>3 DEF Ordered, Within
<1>5. CASE AnswerFetch
  BY <1>5 DEF AnswerFetch, Ordered, Within, Loaded, Block, view, ShapeOK
<1>6. CASE CommentSaved
  <2>1. /\ mainQueue # <<>> /\ mainQueue' = Tail(mainQueue)
        /\ UNCHANGED <<view, rejected, arr, drawn>>
    BY <1>6 DEF CommentSaved, NextBlock, view
  <2>2. \A i \in Loaded' : i \in DOMAIN Tail(mainQueue) /\ mainQueue'[i] = Tail(mainQueue)[i]
    BY <2>1 DEF Loaded
  <2> QED
    BY <2>1, <2>2, QueueAdvances DEF Ordered, Within
<1>7. CASE CommentsLoaded
  <2> DEFINE s == Head(mainQueue).screen
             cs == Head(mainQueue).comments
  <2>1. /\ mainQueue # <<>> /\ UNCHANGED <<view, rejected, drawn>>
        /\ \/ mainQueue' = Tail(mainQueue) /\ UNCHANGED arr
           \/ /\ mainQueue' = Append(Tail(mainQueue), Block("reload", s, {}))
              /\ arr' = [arr EXCEPT ![s] = cs]
    BY <1>7 DEF CommentsLoaded, NextBlock, view
  <2>2. \A i \in Loaded' : i \in DOMAIN Tail(mainQueue) /\ mainQueue'[i] = Tail(mainQueue)[i]
    <3>1. Tail(mainQueue) \in Seq(Blocks)
      BY <2>1, HeadBlock
    <3> QED
      BY <2>1, <3>1 DEF Loaded, Block
  <2>3. s \in Screens /\ 1 \in Loaded /\ cs = mainQueue[1].comments
    BY <1>7, <2>1, HeadBlock, QueueTail DEF CommentsLoaded, NextBlock, Loaded
  <2> HIDE DEF s, cs
  <2>4. \A t \in Screens : arr'[t] = arr[t] \/ (t = s /\ arr'[t] = cs)
    BY <2>1, <2>3 DEF ShapeOK
  <2>5. \A i \in Loaded : i > 1 => Within(cs, mainQueue[i].comments, rejected)
    BY <2>3 DEF Ordered
  <2>6. Within(arr[s], cs, rejected) /\ Within(cs, view, rejected)
    BY <2>3 DEF Ordered
  <2>7. \A t \in Screens : Within(drawn[t], arr'[t], rejected) /\ Within(arr'[t], view, rejected)
    BY <2>4, <2>6 DEF Ordered, Within
  <2>8. \A t \in Screens, i \in Loaded : i > 1 => Within(arr'[t], mainQueue[i].comments, rejected)
    BY <2>4, <2>5 DEF Ordered
  <2> QED
    BY <2>1, <2>2, <2>7, <2>8, QueueAdvances DEF Ordered, Within
<1>8. CASE ReloadData
  <2>1. /\ mainQueue # <<>> /\ mainQueue' = Tail(mainQueue)
        /\ UNCHANGED <<view, rejected, arr>>
        /\ drawn' = [drawn EXCEPT ![Head(mainQueue).screen] = arr[Head(mainQueue).screen]]
    BY <1>8 DEF ReloadData, NextBlock, view
  <2>2. \A i \in Loaded' : i \in DOMAIN Tail(mainQueue) /\ mainQueue'[i] = Tail(mainQueue)[i]
    BY <2>1 DEF Loaded
  <2>3. \A t \in Screens : drawn'[t] \in {drawn[t], arr[t]}
    BY <2>1 DEF ShapeOK
  <2> QED
    BY <2>1, <2>2, <2>3, QueueAdvances DEF Ordered, Within
<1>9. CASE RunTask
  BY <1>9, <1>q DEF RunTask, view
<1>10. CASE Restart
  <2>1. DOMAIN mainQueue' = {}
    BY <1>10 DEF Restart
  <2> QED
    BY <1>10, <2>1 DEF Restart, Ordered, Within, Loaded
<1> QED
  BY <1>1, <1>2, <1>3, <1>4, <1>5, <1>6, <1>7, <1>8, <1>9, <1>10 DEF Next, MainQueueStep

\* The table never knows of a row that arr lacks, between the assignment of
\* arr and its reload included, unless the server rejected that comment.
THEOREM RowsAlwaysExist == Spec => []RowsExist
<1>1. Init => ShapeOK /\ Ordered
  BY CommentsAssumption DEF Init, ShapeOK, Ordered, Within, Loaded
<1>2. Init => ScreenOK
  BY Zenon DEF Init, ScreenOK
<1>3. Ordered => RowsExist
  BY DEF Ordered, Within, RowsExist
<1> QED
  BY <1>1, <1>2, <1>3, ShapeStep, ScreenStep, OrderedStep, PTL DEF Spec

-----------------------------------------------------------------------------
(* Freshness.                                                              *)

LoadedOf(s) == {i \in BlocksOf(s) : mainQueue[i].kind = "loaded"}
Reloads(s)  == {i \in BlocksOf(s) : mainQueue[i].kind = "reload"}

\* A task that writes a comment of another screen has a fetch of the open one
\* behind it.
WritesBeforeListen ==
    \A s \in Screens, i \in DOMAIN tasks :
       open = s /\ tasks[i].op = "write" /\ tasks[i].screen # s =>
          \E j \in DOMAIN tasks : j > i /\ tasks[j] = Listen(s)

\* No comment of screen s and no fetch of it is under way, up to the main queue.
Answers(s) ==
    /\ s \notin awaiting /\ s \notin missed
    /\ \A c \in Comments : ~Saving(c, s)
    /\ \A i \in BlocksOf(s) : mainQueue[i].kind # "saved"

\* The last answer lacks no comment.
FreshAt(s) ==
    /\ \A i \in LoadedOf(s) :
          (\A j \in LoadedOf(s) : j <= i) => view \subseteq mainQueue[i].comments
    /\ LoadedOf(s) = {} => view \subseteq arr[s]

LastAnswerFresh == \A s \in Screens : open = s /\ Answers(s) => FreshAt(s)

\* arr is on the table unless it is to be reloaded.
Drawn == \A s \in Screens : Reloads(s) = {} => drawn[s] = arr[s]

\* A queue with one element more at its end.
LEMMA Appended ==
    ASSUME NEW S, NEW q \in Seq(S), NEW e \in S
    PROVE  /\ DOMAIN Append(q, e) = DOMAIN q \cup {Len(q) + 1}
           /\ Append(q, e)[Len(q) + 1] = e
           /\ \A i \in DOMAIN q : i \in Nat /\ i < Len(q) + 1 /\ Append(q, e)[i] = q[i]
<1>1. Len(q) \in Nat /\ DOMAIN q = 1..Len(q)
  BY LenProperties
<1>2. /\ Append(q, e) \in Seq(S) /\ Len(Append(q, e)) = Len(q) + 1
      /\ \A i \in 1..Len(q) : Append(q, e)[i] = q[i]
      /\ Append(q, e)[Len(q) + 1] = e
  BY AppendProperties
<1>3. DOMAIN Append(q, e) = 1..(Len(q) + 1)
  BY <1>2, LenProperties
<1>4. 1..(Len(q) + 1) = (1..Len(q)) \cup {Len(q) + 1}
  BY <1>1
<1> QED
  BY <1>1, <1>2, <1>3, <1>4

\* A queue without its first element.
LEMMA Taken ==
    ASSUME NEW S, NEW q \in Seq(S), q # <<>>
    PROVE  /\ 1 \in DOMAIN q /\ q[1] = Head(q)
           /\ \A i \in DOMAIN Tail(q) : i \in Nat /\ i + 1 \in DOMAIN q /\ Tail(q)[i] = q[i + 1]
           /\ \A i \in DOMAIN q : i \in Nat /\ i >= 1 /\ (i # 1 => i - 1 \in DOMAIN Tail(q))
<1>1. Len(q) \in Nat /\ Len(q) # 0 /\ DOMAIN q = 1..Len(q)
  BY EmptySeq, LenProperties
<1>2. /\ Tail(q) \in Seq(S) /\ Len(Tail(q)) = Len(q) - 1 /\ Head(q) = q[1]
      /\ \A i \in 1..Len(Tail(q)) : Tail(q)[i] = q[i + 1]
  BY HeadTailProperties
<1>3. DOMAIN Tail(q) = 1..(Len(q) - 1)
  BY <1>2, LenProperties
<1> QED
  BY <1>1, <1>2, <1>3

\* The blocks behind the oldest one when it has run.
LEMMA BlocksMove ==
    ASSUME ShapeOK, mainQueue # <<>>,
           \/ mainQueue' = Tail(mainQueue)
           \/ \E b \in Blocks : b.kind = "reload" /\ mainQueue' = Append(Tail(mainQueue), b)
    PROVE  /\ 1 \in DOMAIN mainQueue /\ mainQueue[1] = Head(mainQueue)
           /\ \A i \in DOMAIN mainQueue : i \in Nat /\ i >= 1
           /\ \A i \in DOMAIN mainQueue : i # 1 =>
                 i - 1 \in DOMAIN mainQueue' /\ mainQueue'[i - 1] = mainQueue[i]
           /\ \A i \in DOMAIN mainQueue' : mainQueue'[i].kind # "reload" =>
                 i \in Nat /\ i + 1 \in DOMAIN mainQueue /\ mainQueue'[i] = mainQueue[i + 1]
<1> DEFINE t == Tail(mainQueue)
<1>1. t \in Seq(Blocks)
  BY HeadBlock
<1>2. /\ 1 \in DOMAIN mainQueue /\ mainQueue[1] = Head(mainQueue)
      /\ \A i \in DOMAIN t : i \in Nat /\ i + 1 \in DOMAIN mainQueue /\ t[i] = mainQueue[i + 1]
      /\ \A i \in DOMAIN mainQueue : i \in Nat /\ i >= 1 /\ (i # 1 => i - 1 \in DOMAIN t)
  BY Taken DEF ShapeOK
<1>3. \A i \in DOMAIN mainQueue : i # 1 => i - 1 \in DOMAIN t /\ t[i - 1] = mainQueue[i]
  <2> SUFFICES ASSUME NEW i \in DOMAIN mainQueue, i # 1
               PROVE  i - 1 \in DOMAIN t /\ t[i - 1] = mainQueue[i]
    OBVIOUS
  <2>1. i - 1 \in DOMAIN t /\ (i - 1) + 1 = i
    BY <1>2
  <2>2. t[i - 1] = mainQueue[(i - 1) + 1]
    BY <1>2, <2>1
  <2> QED
    BY <2>1, <2>2
<1> HIDE DEF t
<1>4. CASE mainQueue' = t
  BY <1>2, <1>3, <1>4
<1>5. ASSUME NEW b \in Blocks, b.kind = "reload", mainQueue' = Append(t, b)
      PROVE  /\ \A i \in DOMAIN t : i \in DOMAIN mainQueue' /\ mainQueue'[i] = t[i]
             /\ \A i \in DOMAIN mainQueue' : mainQueue'[i].kind # "reload" => i \in DOMAIN t
  BY <1>1, <1>5, Appended
<1>6. ASSUME NEW b \in Blocks, b.kind = "reload", mainQueue' = Append(t, b)
      PROVE  /\ \A i \in DOMAIN mainQueue : i # 1 =>
                   i - 1 \in DOMAIN mainQueue' /\ mainQueue'[i - 1] = mainQueue[i]
             /\ \A i \in DOMAIN mainQueue' : mainQueue'[i].kind # "reload" =>
                   i \in Nat /\ i + 1 \in DOMAIN mainQueue /\ mainQueue'[i] = mainQueue[i + 1]
  BY <1>2, <1>3, <1>5, <1>6
<1>7. \/ mainQueue' = t
      \/ \E b \in Blocks : b.kind = "reload" /\ mainQueue' = Append(t, b)
  BY DEF t
<1> QED
  BY <1>2, <1>4, <1>6, <1>7

\* The main queue runs a block: which, and what becomes of the others.
LEMMA MainQueueMoves ==
    ASSUME ShapeOK, MainQueueStep
    PROVE  /\ mainQueue # <<>>
           /\ \/ mainQueue' = Tail(mainQueue)
              \/ \E b \in Blocks : b.kind = "reload" /\ mainQueue' = Append(Tail(mainQueue), b)
<1>1. mainQueue # <<>>
  BY DEF MainQueueStep, CommentSaved, CommentsLoaded, ReloadData, NextBlock
<1>2. Block("reload", Head(mainQueue).screen, {}) \in Blocks
      /\ Block("reload", Head(mainQueue).screen, {}).kind = "reload"
  BY <1>1, HeadBlock DEF Block, Blocks
<1> QED
  BY <1>1, <1>2 DEF MainQueueStep, CommentSaved, CommentsLoaded, ReloadData

\* arr and the table part only while a reload is to come.
LEMMA DrawnStep == ShapeOK /\ Drawn /\ [Next]_vars => Drawn'
<1> SUFFICES ASSUME ShapeOK, Drawn, [Next]_vars PROVE Drawn'
  OBVIOUS
<1> USE DEF screenVars, clientVars
<1>1. CASE UNCHANGED <<arr, drawn, mainQueue>>
  BY <1>1 DEF Drawn, Reloads, BlocksOf
<1>2. ASSUME NEW b \in Blocks, mainQueue' = Append(mainQueue, b), UNCHANGED <<arr, drawn>>
      PROVE  Drawn'
  <2>1. \A i \in DOMAIN mainQueue : i \in DOMAIN mainQueue' /\ mainQueue'[i] = mainQueue[i]
    BY <1>2, Appended DEF ShapeOK
  <2> QED
    BY <1>2, <2>1 DEF Drawn, Reloads, BlocksOf
<1>3. ASSUME NEW s \in Screens, OpenWord(s) PROVE Drawn'
  BY <1>3 DEF OpenWord, Drawn, Reloads, BlocksOf, ShapeOK
<1>4. ASSUME NEW c \in Comments, SaveComment(c) PROVE Drawn'
  BY <1>1, <1>4 DEF SaveComment
<1>5. CASE \/ Back \/ AddComment \/ CancelComment \/ RunTask \/ DenyFetch
           \/ UNCHANGED vars
  BY <1>1, <1>5 DEF Back, AddComment, CancelComment, RunTask, DenyFetch, vars
<1>6. ASSUME NEW p \in pending, Acknowledge(p) \/ Reject(p) PROVE Drawn'
  <2>1. p[2] # NoScreen => Block("saved", p[2], {}) \in Blocks
    BY DEF ShapeOK, Block, Blocks
  <2> QED
    BY <1>1, <1>2, <1>6, <2>1 DEF Acknowledge, Reject, Answered
<1>7. CASE AnswerFetch
  <2>1. Block("loaded", Head(fetches), view) \in Blocks
    BY <1>7, ViewTyped DEF AnswerFetch, ShapeOK, Block, Blocks
  <2> QED
    BY <1>2, <1>7, <2>1 DEF AnswerFetch
<1>8. CASE MainQueueStep
  <2> DEFINE h == Head(mainQueue)
  <2>1. /\ mainQueue[1] = h
        /\ \A i \in DOMAIN mainQueue : i # 1 =>
              i - 1 \in DOMAIN mainQueue' /\ mainQueue'[i - 1] = mainQueue[i]
    BY <1>8, MainQueueMoves, BlocksMove
  <2>2. h.screen \in Screens
    BY <1>8, MainQueueMoves, HeadBlock
  <2> HIDE DEF h
  <2>3. ASSUME NEW s \in Screens, Reloads(s)' = {}, h.kind # "reload" \/ h.screen # s
        PROVE  Reloads(s) = {}
    <3>1. \A i \in Reloads(s) : i # 1
      BY <2>1, <2>3 DEF Reloads, BlocksOf
    <3>2. \A i \in Reloads(s) : i - 1 \in Reloads(s)'
      BY <2>1, <3>1 DEF Reloads, BlocksOf
    <3> QED
      BY <2>3, <3>2
  <2>4. CASE CommentSaved
    BY <2>3, <2>4 DEF CommentSaved, NextBlock, Drawn, h
  <2>5. CASE CommentsLoaded
    <3>1. h.kind = "loaded" /\ UNCHANGED drawn
      BY <2>5 DEF CommentsLoaded, NextBlock, h
    <3>2. CASE UNCHANGED arr
      BY <2>3, <3>1, <3>2 DEF Drawn
    <3>3. CASE /\ arr' = [arr EXCEPT ![h.screen] = h.comments]
               /\ mainQueue' = Append(Tail(mainQueue), Block("reload", h.screen, {}))
      <4>1. \A s \in Screens : s # h.screen => arr'[s] = arr[s]
        BY <3>3 DEF ShapeOK
      <4>2. Block("reload", h.screen, {}) \in Blocks /\ Tail(mainQueue) \in Seq(Blocks)
        BY <1>8, <2>2, MainQueueMoves, HeadBlock DEF Block, Blocks
      <4>3. Len(Tail(mainQueue)) + 1 \in DOMAIN mainQueue'
            /\ mainQueue'[Len(Tail(mainQueue)) + 1] = Block("reload", h.screen, {})
        BY <3>3, <4>2, Appended
      <4>4. \A s \in Screens : s = h.screen => Reloads(s)' # {}
        BY <4>3 DEF Reloads, BlocksOf, Block
      <4> QED
        BY <2>3, <3>1, <4>1, <4>4 DEF Drawn
    <3> QED
      BY <2>5, <3>2, <3>3 DEF CommentsLoaded, h
  <2>6. CASE ReloadData
    <3>1. drawn' = [drawn EXCEPT ![h.screen] = arr[h.screen]] /\ UNCHANGED arr
      BY <2>6 DEF ReloadData, h
    <3>2. \A s \in Screens : drawn'[s] = IF s = h.screen THEN arr[s] ELSE drawn[s]
      BY <3>1 DEF ShapeOK
    <3> QED
      BY <2>3, <3>1, <3>2 DEF Drawn
  <2> QED
    BY <1>8, <2>4, <2>5, <2>6 DEF MainQueueStep
<1>9. CASE Restart
  BY <1>9 DEF Restart, Drawn
<1> QED
  BY <1>3, <1>4, <1>5, <1>6, <1>7, <1>8, <1>9 DEF Next

\* The worker's tasks stay in the order that lets a fetch see earlier comments.
LEMMA WritesStep == ShapeOK /\ ScreenOK /\ WritesBeforeListen /\ [Next]_vars => WritesBeforeListen'
<1> SUFFICES ASSUME ShapeOK, ScreenOK, WritesBeforeListen, [Next]_vars
             PROVE  WritesBeforeListen'
  OBVIOUS
<1> USE DEF screenVars, clientVars
<1>1. CASE UNCHANGED <<open, tasks>>
  BY <1>1 DEF WritesBeforeListen
<1>2. ASSUME NEW t \in Tasks, tasks' = Append(tasks, t), open' = open,
             t.op = "write" => t.screen = open
      PROVE  WritesBeforeListen'
  <2>1. /\ DOMAIN tasks' = DOMAIN tasks \cup {Len(tasks) + 1} /\ tasks'[Len(tasks) + 1] = t
        /\ \A i \in DOMAIN tasks : tasks'[i] = tasks[i]
    BY <1>2, Appended DEF ShapeOK
  <2> QED
    BY <1>2, <2>1 DEF WritesBeforeListen
<1>3. ASSUME NEW s \in Screens, OpenWord(s) PROVE WritesBeforeListen'
  <2>1. tasks' = Append(tasks, Listen(s)) /\ open' = s
    BY <1>3 DEF OpenWord, FetchComment
  <2>2. Listen(s) \in Tasks /\ Listen(s).op # "write"
    BY DEF Listen, Tasks
  <2>3. /\ DOMAIN tasks' = DOMAIN tasks \cup {Len(tasks) + 1}
        /\ tasks'[Len(tasks) + 1] = Listen(s)
        /\ \A i \in DOMAIN tasks : i < Len(tasks) + 1
    BY <2>1, <2>2, Appended DEF ShapeOK
  <2> QED
    BY <2>1, <2>2, <2>3 DEF WritesBeforeListen
<1>4. ASSUME NEW c \in Comments, SaveComment(c) PROVE WritesBeforeListen'
  <2>1. Write(c, open) \in Tasks /\ Write(c, open).screen = open
    BY <1>4 DEF SaveComment, ScreenOK, Write, Tasks
  <2> QED
    BY <1>2, <1>4, <2>1 DEF SaveComment
<1>5. CASE Back \/ Restart
  BY <1>5, CommentsAssumption DEF Back, Restart, WritesBeforeListen
<1>6. CASE \/ AddComment \/ CancelComment \/ AnswerFetch \/ DenyFetch
           \/ CommentsLoaded \/ ReloadData \/ UNCHANGED vars
  BY <1>1, <1>6 DEF AddComment, CancelComment, AnswerFetch, DenyFetch, CommentsLoaded,
     ReloadData, vars
<1>7. ASSUME NEW p \in pending, Acknowledge(p) \/ Reject(p) PROVE WritesBeforeListen'
  BY <1>1, <1>7 DEF Acknowledge, Reject, Answered
<1>8. CASE CommentSaved
  <2>1. /\ tasks' = Append(tasks, Listen(Head(mainQueue).screen))
        /\ open' = open /\ mainQueue # <<>>
    BY <1>8 DEF CommentSaved, FetchComment, NextBlock
  <2>2. /\ Listen(Head(mainQueue).screen) \in Tasks
        /\ Listen(Head(mainQueue).screen).op # "write"
    BY <2>1, HeadBlock DEF Listen, Tasks
  <2> QED
    BY <1>2, <2>1, <2>2
<1>9. CASE RunTask
  <2>1. tasks # <<>> /\ tasks' = Tail(tasks) /\ open' = open
    BY <1>9 DEF RunTask
  <2>2. /\ \A i \in DOMAIN tasks' : i \in Nat /\ i + 1 \in DOMAIN tasks /\ tasks'[i] = tasks[i + 1]
        /\ \A i \in DOMAIN tasks : i \in Nat /\ i >= 1 /\ (i # 1 => i - 1 \in DOMAIN tasks')
    BY <2>1, Taken DEF ShapeOK
  <2> SUFFICES ASSUME NEW s \in Screens, NEW i \in DOMAIN tasks', open = s,
                      tasks'[i].op = "write", tasks'[i].screen # s
               PROVE  \E j \in DOMAIN tasks' : j > i /\ tasks'[j] = Listen(s)
    BY <2>1 DEF WritesBeforeListen
  <2>3. PICK j \in DOMAIN tasks : j > i + 1 /\ tasks[j] = Listen(s)
    BY <2>2 DEF WritesBeforeListen
  <2>4. j - 1 \in DOMAIN tasks' /\ j - 1 > i /\ (j - 1) + 1 = j
    BY <2>2, <2>3
  <2>5. tasks'[j - 1] = Listen(s)
    BY <2>2, <2>3, <2>4
  <2> QED
    BY <2>4, <2>5
<1> QED
  BY <1>3, <1>4, <1>5, <1>6, <1>7, <1>8, <1>9 DEF Next, MainQueueStep

\* A step that leaves the answers to the open screen as they are, apart from
\* their places in the queue, and adds nothing to the local view.
LEMMA FreshKeeps ==
    ASSUME NEW s \in Screens, NEW d \in {0, 1}, FreshAt(s),
           view' \subseteq view, arr'[s] = arr[s],
           \A i \in LoadedOf(s) : i - d \in LoadedOf(s)' /\ i \in Nat,
           \A i \in LoadedOf(s)' : /\ i + d \in LoadedOf(s) /\ i \in Nat
                                   /\ mainQueue'[i] = mainQueue[i + d]
    PROVE  FreshAt(s)'
<1>1. ASSUME NEW i \in LoadedOf(s)', \A j \in LoadedOf(s)' : j <= i
      PROVE  view' \subseteq mainQueue'[i].comments
  <2>1. \A j \in LoadedOf(s) : j <= i + d
    <3> SUFFICES ASSUME NEW j \in LoadedOf(s) PROVE j <= i + d
      OBVIOUS
    <3>1. j - d <= i /\ i \in Nat /\ j \in Nat
      BY <1>1
    <3> QED
      BY <3>1
  <2> QED
    BY <1>1, <2>1 DEF FreshAt
<1>2. LoadedOf(s)' = {} => LoadedOf(s) = {}
  OBVIOUS
<1>3. LoadedOf(s)' = {} => view' \subseteq arr'[s]
  BY <1>2 DEF FreshAt
<1> QED
  BY <1>1, <1>3 DEF FreshAt

\* The step of the worker or of the server that appends a block.
LEMMA FreshAppend ==
    ASSUME ShapeOK, NEW s \in Screens, NEW b \in Blocks, FreshAt(s),
           mainQueue' = Append(mainQueue, b), arr' = arr, view' \subseteq view,
           ~(b.kind = "loaded" /\ b.screen = s)
    PROVE  FreshAt(s)'
<1>1. /\ DOMAIN mainQueue' = DOMAIN mainQueue \cup {Len(mainQueue) + 1}
      /\ mainQueue'[Len(mainQueue) + 1] = b
      /\ \A i \in DOMAIN mainQueue : i \in Nat /\ mainQueue'[i] = mainQueue[i]
  BY Appended DEF ShapeOK
<1>2. LoadedOf(s)' = LoadedOf(s)
  BY <1>1 DEF LoadedOf, BlocksOf
<1>3. \A i \in LoadedOf(s) : i \in Nat /\ i - 0 = i /\ i + 0 = i /\ mainQueue'[i] = mainQueue[i]
  BY <1>1 DEF LoadedOf, BlocksOf
<1>4. /\ \A i \in LoadedOf(s) : i - 0 \in LoadedOf(s)' /\ i \in Nat
      /\ \A i \in LoadedOf(s)' : /\ i + 0 \in LoadedOf(s) /\ i \in Nat
                                 /\ mainQueue'[i] = mainQueue[i + 0]
  BY <1>2, <1>3
<1> QED
  BY <1>4, FreshKeeps

\* Nothing under way now, nothing under way before: the parts of Answers.
LEMMA AnswersBefore ==
    ASSUME NEW s \in Screens, Answers(s)',
           s \in awaiting => s \in awaiting', s \in missed => s \in missed',
           \A c \in Comments : Saving(c, s) => Saving(c, s)',
           \A i \in BlocksOf(s) : mainQueue[i].kind = "saved" =>
              \E j \in BlocksOf(s)' : mainQueue'[j].kind = "saved"
    PROVE  Answers(s)
  BY DEF Answers

\* The worker comes to a task.
LEMMA FreshRunTask ==
    ASSUME ShapeOK, WritesBeforeListen, LastAnswerFresh, RunTask
    PROVE  LastAnswerFresh'
<1> USE DEF screenVars, clientVars
<1> DEFINE t == Head(tasks)
<1>1. /\ tasks # <<>> /\ tasks' = Tail(tasks) /\ t \in Tasks
      /\ UNCHANGED <<open, arr, stored, mainQueue, missed>>
  BY DEF RunTask, ShapeOK
<1>2. /\ 1 \in DOMAIN tasks /\ tasks[1] = t
      /\ \A i \in DOMAIN tasks : i \in Nat /\ (i # 1 => i - 1 \in DOMAIN tasks')
      /\ \A i \in DOMAIN tasks' : tasks'[i] = tasks[i + 1]
  BY <1>1, Taken DEF ShapeOK
<1>3. \A i \in DOMAIN tasks : i # 1 => \E j \in DOMAIN tasks' : tasks'[j] = tasks[i]
  <2> SUFFICES ASSUME NEW i \in DOMAIN tasks, i # 1
               PROVE  \E j \in DOMAIN tasks' : tasks'[j] = tasks[i]
    OBVIOUS
  <2>1. i - 1 \in DOMAIN tasks' /\ (i - 1) + 1 = i
    BY <1>2
  <2> QED
    BY <1>2, <2>1
<1>4. \/ /\ t.op = "write" /\ pending' = pending \cup {<<t.comment, t.screen>>}
         /\ UNCHANGED fetches
      \/ t.op = "listen" /\ fetches' = Append(fetches, t.screen) /\ UNCHANGED pending
  BY DEF RunTask
<1> HIDE DEF t
<1> SUFFICES ASSUME NEW s \in Screens, open = s, Answers(s)'
             PROVE  FreshAt(s)'
  BY <1>1 DEF LastAnswerFresh
<1>5. CASE t.op = "write"
  <2>1. t.comment \in Comments /\ t.screen \in Screens
    BY <1>1, <1>5 DEF Tasks
  <2>2. CASE t.screen = s
    BY <1>4, <1>5, <2>1, <2>2 DEF Answers, Saving
  <2>3. CASE t.screen # s
    <3>1. PICK j \in DOMAIN tasks : j > 1 /\ tasks[j] = Listen(s)
      BY <1>2, <1>5, <2>3 DEF WritesBeforeListen
    <3>2. j # 1
      BY <1>2, <3>1
    <3>3. \E i \in DOMAIN tasks' : tasks'[i] = Listen(s)
      BY <1>3, <3>1, <3>2
    <3> QED
      BY <3>3 DEF Answers, awaiting
  <2> QED
    BY <2>2, <2>3
<1>6. CASE t.op = "listen"
  <2>1. t.screen \in Screens /\ fetches' = Append(fetches, t.screen) /\ UNCHANGED pending
    BY <1>1, <1>4, <1>6 DEF Tasks
  <2>2. /\ \A i \in DOMAIN fetches : i \in DOMAIN fetches' /\ fetches'[i] = fetches[i]
        /\ Len(fetches) + 1 \in DOMAIN fetches' /\ fetches'[Len(fetches) + 1] = t.screen
    BY <2>1, Appended DEF ShapeOK
  <2>3. \A i \in DOMAIN tasks : tasks[i] = Listen(s) =>
           s = t.screen \/ \E j \in DOMAIN tasks' : tasks'[j] = Listen(s)
    BY <1>2, <1>3 DEF Listen
  <2>4. s \in awaiting => s \in awaiting'
    BY <2>2, <2>3 DEF awaiting
  <2>5. \A c \in Comments : Saving(c, s) => Saving(c, s)'
    BY <1>2, <1>3, <1>6, <2>1 DEF Saving, Write
  <2>6. Answers(s)
    BY <1>1, <2>4, <2>5, AnswersBefore DEF BlocksOf
  <2>7. FreshAt(s) /\ view' = view
    BY <1>1, <2>1, <2>6 DEF LastAnswerFresh, view
  <2> QED
    BY <1>1, <2>7 DEF FreshAt, LoadedOf, BlocksOf
<1> QED
  BY <1>4, <1>5, <1>6

\* The server answers a comment.
LEMMA FreshAnswered ==
    ASSUME ShapeOK, LastAnswerFresh, NEW p \in pending, Acknowledge(p) \/ Reject(p)
    PROVE  LastAnswerFresh'
<1> USE DEF screenVars, clientVars
<1> DEFINE b == Block("saved", p[2], {})
<1>1. /\ UNCHANGED <<open, arr, tasks, fetches, missed>> /\ pending' = pending \ {p}
      /\ mainQueue' = IF p[2] = NoScreen THEN mainQueue ELSE Append(mainQueue, b)
  BY DEF Acknowledge, Reject, Answered
<1>2. view' \subseteq view
  BY <1>1 DEF Acknowledge, Reject, view
<1>3. p[2] # NoScreen => b \in Blocks
  BY DEF ShapeOK, Block, Blocks
<1>4. b.kind = "saved" /\ b.screen = p[2]
  BY DEF Block
<1> HIDE DEF b
<1> SUFFICES ASSUME NEW s \in Screens, open = s, Answers(s)'
             PROVE  FreshAt(s)'
  BY <1>1 DEF LastAnswerFresh
<1>5. s # NoScreen
  BY CommentsAssumption
<1>6. p[2] # NoScreen =>
         /\ \A i \in DOMAIN mainQueue : i \in DOMAIN mainQueue' /\ mainQueue'[i] = mainQueue[i]
         /\ Len(mainQueue) + 1 \in DOMAIN mainQueue' /\ mainQueue'[Len(mainQueue) + 1] = b
  BY <1>1, <1>3, Appended DEF ShapeOK
<1>7. p[2] # s
  BY <1>4, <1>5, <1>6 DEF Answers, BlocksOf
<1>8. \A c \in Comments : Saving(c, s) => Saving(c, s)'
  BY <1>1, <1>7 DEF Saving
<1>9. /\ s \in awaiting => s \in awaiting'
      /\ s \in missed => s \in missed'
  BY <1>1 DEF awaiting
<1>10. \A i \in BlocksOf(s) : mainQueue[i].kind = "saved" =>
          \E j \in BlocksOf(s)' : mainQueue'[j].kind = "saved"
  BY <1>1, <1>6 DEF BlocksOf
<1>11. FreshAt(s)
  BY <1>8, <1>9, <1>10, AnswersBefore DEF LastAnswerFresh
<1>12. CASE p[2] = NoScreen
  BY <1>1, <1>2, <1>11, <1>12 DEF FreshAt, LoadedOf, BlocksOf
<1>13. CASE p[2] # NoScreen
  BY <1>1, <1>2, <1>3, <1>4, <1>11, <1>13, FreshAppend
<1> QED
  BY <1>12, <1>13

\* A fetch is answered, or denied.
LEMMA FreshFetch ==
    ASSUME ShapeOK, LastAnswerFresh, AnswerFetch \/ DenyFetch
    PROVE  LastAnswerFresh'
<1> USE DEF screenVars, clientVars
<1> DEFINE h == Head(fetches)
           b == Block("loaded", h, view)
<1>1. /\ UNCHANGED <<open, arr, tasks, pending, stored>>
      /\ fetches # <<>> /\ fetches' = Tail(fetches)
  BY DEF AnswerFetch, DenyFetch
<1>2. /\ 1 \in DOMAIN fetches /\ fetches[1] = h
      /\ \A i \in DOMAIN fetches : i \in Nat /\ (i # 1 => i - 1 \in DOMAIN fetches')
      /\ \A i \in DOMAIN fetches' : fetches'[i] = fetches[i + 1]
  BY <1>1, Taken DEF ShapeOK
<1>3. view' = view
  BY <1>1 DEF view
<1>4. h \in Screens
  BY <1>1 DEF ShapeOK
<1>5. b \in Blocks /\ b.kind = "loaded" /\ b.screen = h /\ b.comments = view
  BY <1>4, ViewTyped DEF Block, Blocks
<1>6. \/ mainQueue' = Append(mainQueue, b) /\ UNCHANGED missed
      \/ mainQueue' = mainQueue /\ missed' = missed \cup ({h} \ awaiting')
  BY DEF AnswerFetch, DenyFetch
<1> HIDE DEF h, b
<1> SUFFICES ASSUME NEW s \in Screens, open = s, Answers(s)'
             PROVE  FreshAt(s)'
  BY <1>1 DEF LastAnswerFresh
<1>7. mainQueue' = Append(mainQueue, b) =>
         /\ DOMAIN mainQueue' = DOMAIN mainQueue \cup {Len(mainQueue) + 1}
         /\ mainQueue'[Len(mainQueue) + 1] = b
         /\ \A i \in DOMAIN mainQueue : /\ i \in Nat /\ i < Len(mainQueue) + 1
                                        /\ mainQueue'[i] = mainQueue[i]
  BY <1>5, Appended DEF ShapeOK
<1>8. CASE h = s
  <2>1. mainQueue' = Append(mainQueue, b)
    BY <1>6, <1>8 DEF Answers
  <2>2. Len(mainQueue) + 1 \in LoadedOf(s)'
    BY <1>5, <1>7, <1>8, <2>1 DEF LoadedOf, BlocksOf
  <2>3. \A i \in LoadedOf(s)' : i = Len(mainQueue) + 1 \/ (i \in Nat /\ i < Len(mainQueue) + 1)
    BY <1>7, <2>1 DEF LoadedOf, BlocksOf
  <2>4. Len(mainQueue) + 1 \in Nat
    BY DEF ShapeOK
  <2>5. ASSUME NEW i \in LoadedOf(s)', \A j \in LoadedOf(s)' : j <= i
        PROVE  i = Len(mainQueue) + 1
    BY <2>2, <2>3, <2>4, <2>5
  <2>6. \A i \in LoadedOf(s)' : (\A j \in LoadedOf(s)' : j <= i) =>
           view' \subseteq mainQueue'[i].comments
    BY <1>3, <1>5, <1>7, <2>1, <2>5
  <2> QED
    BY <2>2, <2>6 DEF FreshAt
<1>9. CASE h # s
  <2>1. \A i \in DOMAIN fetches : fetches[i] = s => \E j \in DOMAIN fetches' : fetches'[j] = s
    <3> SUFFICES ASSUME NEW i \in DOMAIN fetches, fetches[i] = s
                 PROVE  \E j \in DOMAIN fetches' : fetches'[j] = s
      OBVIOUS
    <3>1. i # 1
      BY <1>2, <1>9
    <3>2. i - 1 \in DOMAIN fetches' /\ (i - 1) + 1 = i
      BY <1>2, <3>1
    <3> QED
      BY <1>2, <3>2
  <2>2. s \in awaiting => s \in awaiting'
    BY <1>1, <2>1 DEF awaiting
  <2>3. s \in missed => s \in missed'
    BY <1>6
  <2>4. \A c \in Comments : Saving(c, s) => Saving(c, s)'
    BY <1>1 DEF Saving
  <2>5. \A i \in BlocksOf(s) : mainQueue[i].kind = "saved" =>
           \E j \in BlocksOf(s)' : mainQueue'[j].kind = "saved"
    BY <1>6, <1>7 DEF BlocksOf
  <2>6. FreshAt(s)
    BY <2>2, <2>3, <2>4, <2>5, AnswersBefore DEF LastAnswerFresh
  <2>7. CASE mainQueue' = mainQueue
    BY <1>1, <1>3, <2>6, <2>7 DEF FreshAt, LoadedOf, BlocksOf
  <2>8. CASE mainQueue' = Append(mainQueue, b)
    BY <1>1, <1>3, <1>5, <1>9, <2>6, <2>8, FreshAppend
  <2> QED
    BY <1>6, <2>7, <2>8
<1> QED
  BY <1>8, <1>9

\* The main queue runs a block.
LEMMA FreshMainQueue ==
    ASSUME ShapeOK, LastAnswerFresh, MainQueueStep
    PROVE  LastAnswerFresh'
<1> USE DEF screenVars, clientVars
<1> DEFINE h == Head(mainQueue)
<1>1. /\ 1 \in DOMAIN mainQueue /\ mainQueue[1] = h
      /\ \A i \in DOMAIN mainQueue : i \in Nat /\ i >= 1
      /\ \A i \in DOMAIN mainQueue : i # 1 =>
            i - 1 \in DOMAIN mainQueue' /\ mainQueue'[i - 1] = mainQueue[i]
      /\ \A i \in DOMAIN mainQueue' : mainQueue'[i].kind # "reload" =>
            i \in Nat /\ i + 1 \in DOMAIN mainQueue /\ mainQueue'[i] = mainQueue[i + 1]
  BY MainQueueMoves, BlocksMove
<1>2. UNCHANGED <<open, pending, stored, fetches>> /\ view' = view
  BY DEF MainQueueStep, CommentSaved, CommentsLoaded, ReloadData, view
<1>3. h.screen \in Screens
  BY MainQueueMoves, HeadBlock
<1>4. \/ /\ h.kind = "saved" /\ UNCHANGED arr /\ missed' = missed \ {h.screen}
         /\ tasks' = Append(tasks, Listen(h.screen))
      \/ h.kind = "reload" /\ UNCHANGED <<arr, missed, tasks>>
      \/ /\ h.kind = "loaded" /\ UNCHANGED <<missed, tasks>>
         /\ \/ arr' = [arr EXCEPT ![h.screen] = h.comments]
            \/ UNCHANGED arr /\ open # h.screen
  BY DEF MainQueueStep, CommentSaved, CommentsLoaded, ReloadData, NextBlock, FetchComment, Alive
<1> HIDE DEF h
<1> SUFFICES ASSUME NEW s \in Screens, open = s, Answers(s)'
             PROVE  FreshAt(s)'
  BY <1>2 DEF LastAnswerFresh
<1>5. tasks' = tasks \/ (tasks' = Append(tasks, Listen(h.screen)) /\ h.kind = "saved")
  BY <1>4
<1>6. /\ \A i \in DOMAIN tasks : i \in DOMAIN tasks' /\ tasks'[i] = tasks[i]
      /\ h.kind = "saved" => \E i \in DOMAIN tasks' : tasks'[i] = Listen(h.screen)
  <2>1. Listen(h.screen) \in Tasks
    BY <1>3 DEF Listen, Tasks
  <2>2. tasks' = Append(tasks, Listen(h.screen)) =>
           /\ \A i \in DOMAIN tasks : i \in DOMAIN tasks' /\ tasks'[i] = tasks[i]
           /\ Len(tasks) + 1 \in DOMAIN tasks' /\ tasks'[Len(tasks) + 1] = Listen(h.screen)
    BY <2>1, Appended DEF ShapeOK
  <2>3. h.kind = "saved" => tasks' = Append(tasks, Listen(h.screen))
    BY <1>4
  <2> QED
    BY <1>5, <2>2, <2>3
<1>7. ~(h.kind = "saved" /\ h.screen = s)
  BY <1>6 DEF Answers, awaiting
<1>8. s \in awaiting => s \in awaiting'
  BY <1>2, <1>6 DEF awaiting
<1>9. s \in missed => s \in missed'
  BY <1>4, <1>7
<1>10. \A c \in Comments : Saving(c, s) => Saving(c, s)'
  BY <1>2, <1>6 DEF Saving
<1>11. \A i \in BlocksOf(s) : mainQueue[i].kind = "saved" =>
          \E j \in BlocksOf(s)' : mainQueue'[j].kind = "saved"
  <2> SUFFICES ASSUME NEW i \in BlocksOf(s), mainQueue[i].kind = "saved"
               PROVE  \E j \in BlocksOf(s)' : mainQueue'[j].kind = "saved"
    OBVIOUS
  <2>1. i # 1 /\ i \in DOMAIN mainQueue /\ mainQueue[i].screen = s
    BY <1>1, <1>7 DEF BlocksOf
  <2>2. i - 1 \in BlocksOf(s)' /\ mainQueue'[i - 1].kind = "saved"
    BY <1>1, <2>1 DEF BlocksOf
  <2> QED
    BY <2>2
<1>12. FreshAt(s)
  BY <1>8, <1>9, <1>10, <1>11, AnswersBefore DEF LastAnswerFresh
<1>13. \A i \in LoadedOf(s)' : /\ i \in Nat /\ i + 1 \in LoadedOf(s)
                               /\ mainQueue'[i] = mainQueue[i + 1]
  BY <1>1 DEF LoadedOf, BlocksOf
<1>14. \A i \in LoadedOf(s) : /\ i \in Nat /\ i >= 1
                              /\ i # 1 => i - 1 \in LoadedOf(s)'
  BY <1>1 DEF LoadedOf, BlocksOf
<1>15. CASE h.kind = "loaded" /\ h.screen = s
  <2>1. 1 \in LoadedOf(s)
    BY <1>1, <1>15 DEF LoadedOf, BlocksOf
  <2>2. arr'[s] = mainQueue[1].comments
    BY <1>1, <1>4, <1>15 DEF ShapeOK
  <2>3. ASSUME LoadedOf(s)' = {} PROVE view' \subseteq arr'[s]
    <3>1. \A j \in LoadedOf(s) : j <= 1
      BY <1>14, <2>3
    <3> QED
      BY <1>2, <1>12, <2>1, <2>2, <3>1 DEF FreshAt
  <2>4. ASSUME NEW i \in LoadedOf(s)', \A j \in LoadedOf(s)' : j <= i
        PROVE  view' \subseteq mainQueue'[i].comments
    <3>1. \A j \in LoadedOf(s) : j <= i + 1
      <4> SUFFICES ASSUME NEW j \in LoadedOf(s) PROVE j <= i + 1
        OBVIOUS
      <4>1. i \in Nat /\ j \in Nat /\ (j # 1 => j - 1 <= i)
        BY <1>13, <1>14, <2>4
      <4> QED
        BY <4>1
    <3> QED
      BY <1>2, <1>12, <1>13, <2>4, <3>1 DEF FreshAt
  <2> QED
    BY <2>3, <2>4 DEF FreshAt
<1>16. CASE ~(h.kind = "loaded" /\ h.screen = s)
  <2>1. 1 \notin LoadedOf(s)
    BY <1>1, <1>16 DEF LoadedOf, BlocksOf
  <2>2. arr'[s] = arr[s]
    BY <1>3, <1>4, <1>16 DEF ShapeOK
  <2>3. \A i \in LoadedOf(s) : i - 1 \in LoadedOf(s)' /\ i \in Nat
    BY <1>14, <2>1
  <2> QED
    BY <1>2, <1>12, <1>13, <2>2, <2>3, FreshKeeps
<1> QED
  BY <1>15, <1>16

\* Every step leaves the last answer to the open screen without a gap.
LEMMA FreshStep ==
    ShapeOK /\ WritesBeforeListen /\ LastAnswerFresh /\ [Next]_vars => LastAnswerFresh'
<1> SUFFICES ASSUME ShapeOK, WritesBeforeListen, LastAnswerFresh, [Next]_vars
             PROVE  LastAnswerFresh'
  OBVIOUS
<1>1. ASSUME NEW s \in Screens, OpenWord(s) PROVE LastAnswerFresh'
  <2>1. tasks' = Append(tasks, Listen(s)) /\ open' = s /\ Listen(s) \in Tasks
    BY <1>1 DEF OpenWord, FetchComment, Listen, Tasks
  <2>2. \E i \in DOMAIN tasks' : tasks'[i] = Listen(s)
    BY <2>1, Appended DEF ShapeOK
  <2> QED
    BY <2>1, <2>2 DEF LastAnswerFresh, Answers, awaiting
<1>2. CASE Back \/ Restart
  BY <1>2, CommentsAssumption DEF Back, Restart, LastAnswerFresh
<1>3. CASE AddComment \/ CancelComment \/ UNCHANGED vars
  <2>1. UNCHANGED <<open, arr, stored, tasks, pending, fetches, mainQueue, missed>>
    BY <1>3 DEF AddComment, CancelComment, vars, screenVars, clientVars
  <2>2. \A s \in Screens : (Answers(s)' => Answers(s)) /\ (FreshAt(s) => FreshAt(s)')
    BY <2>1 DEF Answers, FreshAt, awaiting, Saving, BlocksOf, LoadedOf, view
  <2> QED
    BY <2>1, <2>2 DEF LastAnswerFresh
<1>4. ASSUME NEW c \in Comments, SaveComment(c) PROVE LastAnswerFresh'
  <2> SUFFICES ASSUME NEW s \in Screens, open' = s, Answers(s)' PROVE FALSE
    BY DEF LastAnswerFresh
  <2>1. tasks' = Append(tasks, Write(c, s)) /\ Write(c, s) \in Tasks
    BY <1>4 DEF SaveComment, Write, Tasks
  <2>2. \E i \in DOMAIN tasks' : tasks'[i] = Write(c, s)
    BY <2>1, Appended DEF ShapeOK
  <2> QED
    BY <2>2 DEF Answers, Saving
<1>5. ASSUME NEW p \in pending, Acknowledge(p) \/ Reject(p) PROVE LastAnswerFresh'
  BY <1>5, FreshAnswered
<1>6. CASE RunTask
  BY <1>6, FreshRunTask
<1>7. CASE AnswerFetch \/ DenyFetch
  BY <1>7, FreshFetch
<1>8. CASE MainQueueStep
  BY <1>8, FreshMainQueue
<1> QED
  BY <1>1, <1>2, <1>3, <1>4, <1>5, <1>6, <1>7, <1>8 DEF Next

\* A screen whose writes and fetches are answered shows the local view:
\* comments saved through other screens of the word, or before a restart, are
\* not missing (fetchComment, saveComment, loadData).
THEOREM SettledScreensAreFresh == Spec => []CommentsFresh
<1> DEFINE Inv == /\ ShapeOK /\ ScreenOK /\ Ordered
                  /\ WritesBeforeListen /\ LastAnswerFresh /\ Drawn
<1>1. Init => Inv
  <2> SUFFICES ASSUME Init PROVE Inv
    OBVIOUS
  <2>1. ShapeOK /\ Ordered
    BY CommentsAssumption DEF Init, ShapeOK, Ordered, Within, Loaded
  <2>2. ScreenOK
    BY Zenon DEF Init, ScreenOK
  <2>3. WritesBeforeListen /\ LastAnswerFresh /\ Drawn
    BY CommentsAssumption DEF Init, WritesBeforeListen, LastAnswerFresh, Drawn
  <2> QED
    BY <2>1, <2>2, <2>3
<1>2. Inv => CommentsFresh
  <2> SUFFICES ASSUME Inv, open # NoScreen, Settled(open), open \notin missed
               PROVE  view \subseteq drawn[open] /\ drawn[open] \ view \subseteq rejected
    BY DEF CommentsFresh
  <2>1. PICK s \in Screens : s = open
    BY DEF ScreenOK
  <2>2. Settled(s) /\ s \notin missed
    BY <2>1
  <2>3. Answers(s) /\ LoadedOf(s) = {} /\ Reloads(s) = {}
    BY <2>2 DEF Settled, Answers, LoadedOf, Reloads
  <2>4. view \subseteq arr[s]
    BY <2>1, <2>3 DEF LastAnswerFresh, FreshAt
  <2>5. drawn[s] = arr[s]
    BY <2>3 DEF Drawn
  <2>6. arr[s] \ view \subseteq rejected
    BY DEF Ordered, Within
  <2> QED
    BY <2>1, <2>4, <2>5, <2>6
<1>3. Inv /\ [Next]_vars => Inv'
  BY ShapeStep, ScreenStep, OrderedStep, WritesStep, FreshStep, DrawnStep
<1> HIDE DEF Inv
<1> QED
  BY <1>1, <1>2, <1>3, PTL DEF Spec
=============================================================================
