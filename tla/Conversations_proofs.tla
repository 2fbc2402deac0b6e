-------------------------- MODULE Conversations_proofs --------------------------
(***************************************************************************)
(* Proofs about the conversations, for any number of workers, answers and  *)
(* failures, and windows and batches of any size.                          *)
(***************************************************************************)
EXTENDS Conversations, TLAPS

USE SessionsHaveNoRow, SomeWorkerExpires, WindowHoldsTurns, BatchTakesSome,
    BoundsAreNumbers, NoneIsNoAnswer

-----------------------------------------------------------------------------
(* The numbers.  A window remembers answers of its worker and conversation, *)
(* and while it is not full their numbers are at most its length.  A number *)
(* handed out before an eviction may be larger: its call is in cut.         *)

WindowIsOwn ==
  \A w \in Worker, c \in Key : \A j \in ToSet(window[w][c]) :
    Asked(j) /\ call[j].worker = w /\ call[j].conv = c

WindowCounts ==
  \A w \in Worker, c \in Key : \A j \in ToSet(window[w][c]) :
    j \in cut \/ call[j].number <= Len(window[w][c]) \/ Len(window[w][c]) = Window

AskingCounts ==
  \A k \in Call : At(k, "asking") =>
    k \in cut \/ call[k].number <= Len(window[call[k].worker][call[k].conv]) + 1

HistoryCounts ==
  \A k \in Call : Asked(k) =>
    \A j \in ToSet(call[k].history) :
      /\ Asked(j) /\ j # k /\ call[j].conv = call[k].conv
      /\ j \in cut \/ call[j].number < call[k].number \/ call[k].number = Window + 1

TurnsAreUnique ==
  /\ \A j \in turns : At(j, "stored")
  /\ \A j, k \in turns :
       call[j].conv = call[k].conv /\ call[j].number = call[k].number => j = k

NumbersInv ==
  /\ WindowIsOwn /\ WindowCounts /\ AskingCounts /\ HistoryCounts /\ TurnsAreUnique

-----------------------------------------------------------------------------
(* What a conversation that was never torn still has in a window.           *)

RememberedIsOrdered ==
  \A w \in Worker, c \in Key : window[w][c] # <<>> => c \in ToSet(order[w])

CutIsTorn == \A j \in cut : Asked(j) /\ call[j].conv \in torn

\* A stored answer, or one about to be, is in the window of its worker, or was
\* pushed out of it.
StoredIsRemembered ==
  \A j \in Call : (At(j, "saving") \/ j \in turns) /\ call[j].conv \notin torn =>
    LET s == window[call[j].worker][call[j].conv] IN j \in ToSet(s) \/ Len(s) = Window

AloneIsAlone ==
  \A j, k \in Call :
    Live(j) /\ Live(k) /\ call[k].alone /\ call[j].conv = call[k].conv => j = k

Elsewhere(k) ==
  \E v \in Worker : v # call[k].worker /\ window[v][call[k].conv] # <<>>

\* The number of a lone answer is larger than every number stored, or another
\* worker remembers the conversation and the answer will tear it.
LoneIsNext ==
  \A k \in Call :
    Live(k) /\ call[k].alone /\ call[k].conv \notin torn /\ call[k].number <= Window =>
      \/ At(k, "asking") /\ Elsewhere(k)
      \/ \A j \in turns : call[j].conv = call[k].conv => call[j].number < call[k].number

LoneInv ==
  /\ RememberedIsOrdered /\ CutIsTorn /\ StoredIsRemembered /\ AloneIsAlone
  /\ LoneIsNext /\ LoneAnswersAreStored

-----------------------------------------------------------------------------
\* While nothing failed, no batch lost its transaction.
AuditInv ==
  faults = 0 => owed \subseteq Locked /\ \A w \in Scheduled : ~batch[w].dead
-----------------------------------------------------------------------------
LEMMA RecentKeeps ==
  ASSUME NEW s \in Seq(Call), Len(s) <= Window, NEW k \in Call
  PROVE  LET t == Recent(Append(s, k))
         IN  /\ t \in Seq(Call) /\ t # <<>> /\ Len(t) <= Window /\ Len(t) >= Len(s)
             /\ ToSet(t) \subseteq ToSet(s) \cup {k} /\ k \in ToSet(t)
             /\ Len(s) < Window => ToSet(t) = ToSet(s) \cup {k} /\ Len(t) = Len(s) + 1
<1> DEFINE a == Append(s, k)
           t == Recent(a)
<1>1. /\ a \in Seq(Call) /\ Len(a) = Len(s) + 1 /\ a[Len(s) + 1] = k /\ a # <<>>
      /\ \A i \in 1..Len(s) : a[i] = s[i]
  OBVIOUS
<1>2. CASE Len(s) < Window
  <2>1. t = a
    BY <1>1, <1>2 DEF Recent
  <2>2. ToSet(a) = ToSet(s) \cup {k}
    <3>1. \A x : x \in ToSet(s) <=> \E i \in 1..Len(s) : x = s[i]
      BY DEF ToSet
    <3>2. \A x : x \in ToSet(a) <=> \E i \in 1..Len(s) + 1 : x = a[i]
      BY <1>1 DEF ToSet
    <3>3. ASSUME NEW x \in ToSet(a) PROVE x \in ToSet(s) \cup {k}
      <4>1. PICK i \in 1..Len(s) + 1 : x = a[i]
        BY <3>2, <3>3
      <4> QED BY <1>1, <3>1, <4>1
    <3>4. ASSUME NEW x \in ToSet(s) PROVE x \in ToSet(a)
      BY <1>1, <3>1, <3>2, <3>4
    <3>5. k \in ToSet(a)
      BY <1>1, <3>2
    <3> QED BY <3>3, <3>4, <3>5
  <2> QED BY <1>1, <1>2, <2>1, <2>2
<1>3. CASE Len(s) = Window
  <2>1. t = Tail(a)
    BY <1>1, <1>3 DEF Recent
  <2>2. t \in Seq(Call) /\ Len(t) = Len(s) /\ \A i \in 1..Len(s) : t[i] = a[i + 1]
    BY <1>1, <2>1
  <2>3. \A x : x \in ToSet(t) <=> \E i \in 1..Len(s) : x = t[i]
    BY <2>2 DEF ToSet
  <2>4. \A x : x \in ToSet(s) <=> \E i \in 1..Len(s) : x = s[i]
    BY DEF ToSet
  <2>5. ASSUME NEW x \in ToSet(t) PROVE x \in ToSet(s) \cup {k}
    <3>1. PICK i \in 1..Len(s) : x = a[i + 1]
      BY <2>2, <2>3, <2>5
    <3> QED BY <1>1, <2>4, <3>1
  <2>6. k \in ToSet(t)
    BY <1>1, <1>3, <2>2, <2>3
  <2> QED BY <1>3, <2>2, <2>5, <2>6
<1> QED BY <1>2, <1>3

LEMMA InToSet ==
  ASSUME NEW S, NEW s \in Seq(S)
  PROVE  \A x : x \in ToSet(s) <=> \E i \in 1..Len(s) : x = s[i]
BY DEF ToSet

LEMMA QueueMembers ==
  ASSUME NEW S, NEW s \in Seq(S)
  PROVE  /\ ToSet(s) \subseteq S
         /\ s # <<>> => /\ Head(s) \in ToSet(s) /\ Tail(s) \in Seq(S)
                        /\ \A x \in ToSet(s) : x = Head(s) \/ x \in ToSet(Tail(s))
         /\ \A x \in S : Append(s, x) \in Seq(S) /\ ToSet(Append(s, x)) = ToSet(s) \cup {x}
<1>1. \A x : x \in ToSet(s) <=> \E i \in 1..Len(s) : x = s[i]
  BY DEF ToSet
<1>2. ASSUME s # <<>>
      PROVE  /\ Head(s) \in ToSet(s) /\ Tail(s) \in Seq(S)
             /\ \A x \in ToSet(s) : x = Head(s) \/ x \in ToSet(Tail(s))
  <2> DEFINE t == Tail(s)
  <2>1. /\ t \in Seq(S) /\ Len(t) = Len(s) - 1 /\ Head(s) = s[1] /\ Len(s) >= 1
        /\ \A i \in 1..Len(s) - 1 : t[i] = s[i + 1]
    BY <1>2, SMTT(30)
  <2> HIDE DEF t
  <2>2. \A x : x \in ToSet(t) <=> \E i \in 1..Len(s) - 1 : x = t[i]
    BY <2>1 DEF ToSet
  <2>3. ASSUME NEW x \in ToSet(s), x # Head(s) PROVE x \in ToSet(t)
    <3>1. PICK i \in 1..Len(s) : x = s[i]
      BY <1>1, <2>3
    <3>2. i - 1 \in 1..Len(s) - 1 /\ t[i - 1] = x
      BY <2>1, <2>3, <3>1
    <3> QED BY <2>2, <3>2
  <2> QED BY <1>1, <2>1, <2>3 DEF t
<1>3. ASSUME NEW x \in S
      PROVE  Append(s, x) \in Seq(S) /\ ToSet(Append(s, x)) = ToSet(s) \cup {x}
  <2> DEFINE a == Append(s, x)
  <2>1. /\ a \in Seq(S) /\ Len(a) = Len(s) + 1 /\ a[Len(s) + 1] = x
        /\ \A i \in 1..Len(s) : a[i] = s[i]
    OBVIOUS
  <2>2. \A y : y \in ToSet(a) <=> \E i \in 1..Len(s) + 1 : y = a[i]
    BY <2>1 DEF ToSet
  <2>3. ASSUME NEW y \in ToSet(a) PROVE y \in ToSet(s) \cup {x}
    <3>1. PICK i \in 1..Len(s) + 1 : y = a[i]
      BY <2>2, <2>3
    <3> QED BY <1>1, <2>1, <3>1
  <2>4. ASSUME NEW y \in ToSet(s) \cup {x} PROVE y \in ToSet(a)
    BY <1>1, <2>1, <2>2, <2>4
  <2> QED BY <2>1, <2>3, <2>4
<1>4. ToSet(s) \subseteq S
  BY <1>1
<1> QED BY <1>2, <1>3, <1>4

-----------------------------------------------------------------------------
(* What the steps do to the calls and the windows.                          *)

\* No step takes back what a call was given.
Kept(k) ==
  /\ Asked(k) /\ Asked(k)'
  /\ call'[k].worker = call[k].worker /\ call'[k].conv = call[k].conv
  /\ call'[k].number = call[k].number /\ call'[k].history = call[k].history
  /\ call'[k].alone => call[k].alone

\* The call k goes from one state to another, and no other call changes.
Passes(k, pc) ==
  /\ Live(k) /\ call' = [call EXCEPT ![k].pc = pc]
  /\ call'[k] = [call[k] EXCEPT !.pc = pc] /\ call'[k] \in Answers
  /\ \A j \in Call \ {k} : call'[j] = call[j]

LEMMA CallTyped ==
  ASSUME TypeOK, NEW k \in Call, Asked(k)
  PROVE  /\ call[k] \in Answers /\ call[k].worker \in Worker /\ call[k].conv \in Key
         /\ call[k].number \in 1..Window + 1 /\ call[k].history \in Seq(Call)
BY DEF TypeOK, Asked, Answers

LEMMA PassesKeeps ==
  ASSUME TypeOK, NEW k \in Call, Live(k),
         NEW pc \in {"saving", "stored", "refused", "skipped", "failed", "error"},
         call' = [call EXCEPT ![k].pc = pc]
  PROVE  /\ Passes(k, pc) /\ call' \in [Call -> Answers \cup {None}]
         /\ \A j \in Call : Asked(j) <=> Asked(j)'
         /\ \A j \in Call : Asked(j) => Kept(j)
         /\ \A j \in Call \ {k} : \A p : At(j, p) <=> At(j, p)'
         /\ At(k, pc)' /\ call'[k].pc = pc
<1>1. Asked(k) /\ call[k] \in Answers
  BY CallTyped DEF Live, At
<1>2. call'[k] = [call[k] EXCEPT !.pc = pc] /\ \A j \in Call \ {k} : call'[j] = call[j]
  BY DEF TypeOK
<1>3. [call[k] EXCEPT !.pc = pc] \in Answers
  BY <1>1 DEF Answers
<1>4. /\ call'[k].pc = pc
      /\ call'[k].worker = call[k].worker /\ call'[k].conv = call[k].conv
      /\ call'[k].number = call[k].number /\ call'[k].history = call[k].history
      /\ call'[k].alone = call[k].alone
  BY <1>1, <1>2 DEF Answers
<1>5. call' \in [Call -> Answers \cup {None}]
  BY <1>2, <1>3 DEF TypeOK
<1>6. Asked(k)'
  BY <1>2, <1>3 DEF Asked
<1>7. \A j \in Call \ {k} : Asked(j) <=> Asked(j)'
  BY <1>2 DEF Asked
<1>8. \A j \in Call \ {k} : \A p : At(j, p) <=> At(j, p)'
  BY <1>2, <1>7 DEF At
<1> QED BY <1>1, <1>2, <1>3, <1>4, <1>5, <1>6, <1>7, <1>8 DEF Passes, Kept, At
LEMMA AskKeeps ==
  ASSUME TypeOK, NEW k \in Call, NEW w \in Worker, NEW c \in Key, Ask(k, w, c)
  PROVE  /\ ~Asked(k) /\ call' \in [Call -> Answers \cup {None}]
         /\ call'[k] = [pc |-> "asking", worker |-> w, conv |-> c,
                        number |-> Len(window[w][c]) + 1, history |-> window[w][c],
                        alone |-> \A j \in Call : Live(j) => call[j].conv # c]
         /\ At(k, "asking")'
         /\ \A j \in Call \ {k} : \A p : At(j, p) <=> At(j, p)'
         /\ \A j \in Call : Asked(j) => Kept(j)
         /\ \A j \in Call : Live(j) /\ call[j].conv = c => ~call'[j].alone
         /\ UNCHANGED <<turns, window, order, torn, cut>>
<1> DEFINE others == {j \in Call : Live(j) /\ call[j].conv = c}
           new == [pc |-> "asking", worker |-> w, conv |-> c,
                   number |-> Len(window[w][c]) + 1, history |-> window[w][c],
                   alone |-> others = {}]
<1>1. ~Asked(k) /\ UNCHANGED <<turns, window, order, torn, cut>>
  BY DEF Ask, Fresh
<1>2. call' = [j \in Call |-> CASE j = k -> new
                                [] j \in others -> [call[j] EXCEPT !.alone = FALSE]
                                [] OTHER -> call[j]]
  BY DEF Ask
<1>3. k \notin others
  BY <1>1 DEF Live, At
<1>4. /\ call'[k] = new
      /\ \A j \in others : call'[j] = [call[j] EXCEPT !.alone = FALSE]
      /\ \A j \in Call \ {k} : j \notin others => call'[j] = call[j]
  BY <1>2, <1>3
<1>5. new \in Answers
  <2>1. window[w][c] \in Seq(Call) /\ Len(window[w][c]) \in 0..Window
    BY DEF TypeOK
  <2> QED BY <2>1 DEF Answers
<1>6. ASSUME NEW j \in others
      PROVE  /\ call'[j] \in Answers /\ Asked(j) /\ Asked(j)' /\ ~call'[j].alone
             /\ Kept(j) /\ \A p : At(j, p) <=> At(j, p)'
  <2>1. Asked(j) /\ call[j] \in Answers
    BY CallTyped DEF Live, At
  <2>2. [call[j] EXCEPT !.alone = FALSE] \in Answers
    BY <2>1 DEF Answers
  <2>3. Asked(j)'
    BY <1>4, <2>2 DEF Asked
  <2>4. /\ ~call'[j].alone /\ call'[j].pc = call[j].pc
        /\ call'[j].worker = call[j].worker /\ call'[j].conv = call[j].conv
        /\ call'[j].number = call[j].number /\ call'[j].history = call[j].history
    BY <1>4, <2>1, ZenonT(40) DEF Answers
  <2> QED BY <1>4, <2>1, <2>2, <2>3, <2>4 DEF Kept, At
<1>7. ASSUME NEW j \in Call \ {k}, j \notin others
      PROVE  /\ call'[j] \in Answers \cup {None} /\ (Asked(j) => Kept(j))
             /\ \A p : At(j, p) <=> At(j, p)'
  <2>1. call'[j] = call[j]
    BY <1>4, <1>7
  <2>2. Asked(j) <=> Asked(j)'
    BY <2>1 DEF Asked
  <2> QED BY <2>1, <2>2 DEF Kept, At, TypeOK
<1>8. call' \in [Call -> Answers \cup {None}]
  BY <1>2, <1>4, <1>5, <1>6, <1>7
<1>9. At(k, "asking")'
  BY <1>4, <1>5 DEF At, Asked
<1>10. (others = {}) = (\A j \in Call : Live(j) => call[j].conv # c)
  OBVIOUS
<1> HIDE DEF others
<1>11. \A j \in Call : Live(j) /\ call[j].conv = c => ~call'[j].alone
  BY <1>6 DEF others
<1>12. \A j \in Call \ {k} : \A p : At(j, p) <=> At(j, p)'
  BY <1>6, <1>7
<1>13. \A j \in Call : Asked(j) => Kept(j)
  BY <1>1, <1>6, <1>7
<1> QED BY <1>1, <1>4, <1>8, <1>9, <1>10, <1>11, <1>12, <1>13

LEMMA StopKeeps ==
  ASSUME TypeOK, NEW w \in Worker, Stop(w)
  PROVE  /\ call' \in [Call -> Answers \cup {None}]
         /\ \A j \in Call : Asked(j) => Kept(j)
         /\ \A j \in Call : Asked(j)' => Asked(j)
         /\ \A j \in Call : \A p \in {"asking", "saving", "stored", "refused"} :
              At(j, p)' => At(j, p) /\ (p \in {"asking", "saving"} => call[j].worker # w)
         /\ \A j \in Call : At(j, "stored") => At(j, "stored")'
         /\ window' = [window EXCEPT ![w] = [c \in Key |-> <<>>]]
         /\ order' = [order EXCEPT ![w] = <<>>]
         /\ torn' = torn \cup ToSet(order[w]) /\ UNCHANGED <<turns, cut>>
<1>1. /\ window' = [window EXCEPT ![w] = [c \in Key |-> <<>>]]
      /\ order' = [order EXCEPT ![w] = <<>>]
      /\ torn' = torn \cup ToSet(order[w]) /\ UNCHANGED <<turns, cut>>
  BY DEF Stop
<1>2. /\ call' = [k \in Call |-> IF Live(k) /\ call[k].worker = w
                                THEN [call[k] EXCEPT !.pc = "gone"] ELSE call[k]]
  BY DEF Stop
<1>3. ASSUME NEW j \in Call, Live(j), call[j].worker = w
      PROVE  /\ call'[j] \in Answers /\ Asked(j) /\ Asked(j)' /\ Kept(j) /\ call'[j].pc = "gone"
             /\ ~At(j, "stored")
  <2>1. call'[j] = [call[j] EXCEPT !.pc = "gone"]
    BY <1>2, <1>3
  <2>2. Asked(j) /\ call[j] \in Answers /\ ~At(j, "stored")
    BY <1>3, CallTyped DEF Live, At
  <2>3. [call[j] EXCEPT !.pc = "gone"] \in Answers
    BY <2>2 DEF Answers
  <2>4. Asked(j)'
    BY <2>1, <2>3 DEF Asked
  <2>5. /\ call'[j].alone = call[j].alone /\ call'[j].pc = "gone"
        /\ call'[j].worker = call[j].worker /\ call'[j].conv = call[j].conv
        /\ call'[j].number = call[j].number /\ call'[j].history = call[j].history
    BY <2>1, <2>2 DEF Answers
  <2> QED BY <2>1, <2>2, <2>3, <2>4, <2>5 DEF Kept
<1>4. ASSUME NEW j \in Call, ~(Live(j) /\ call[j].worker = w)
      PROVE  /\ call'[j] = call[j] /\ (Asked(j) <=> Asked(j)') /\ (Asked(j) => Kept(j))
             /\ \A p : At(j, p) <=> At(j, p)'
  <2>1. call'[j] = call[j]
    BY <1>2, <1>4
  <2>2. Asked(j) <=> Asked(j)'
    BY <2>1 DEF Asked
  <2> QED BY <2>1, <2>2 DEF Kept, At
<1>5. call' \in [Call -> Answers \cup {None}]
  <2>1. \A j \in Call : call'[j] \in Answers \cup {None}
    BY <1>3, <1>4 DEF TypeOK
  <2> QED BY <1>2, <2>1
<1>6. ASSUME NEW j \in Call, NEW p \in {"asking", "saving", "stored", "refused"}, At(j, p)'
      PROVE  At(j, p) /\ (p \in {"asking", "saving"} => call[j].worker # w)
  <2>1. ~(Live(j) /\ call[j].worker = w)
    BY <1>3, <1>6 DEF At
  <2>2. At(j, p)
    BY <1>4, <1>6, <2>1
  <2> QED BY <2>1, <2>2 DEF Live
<1>7. \A j \in Call : At(j, "stored") => At(j, "stored")'
  BY <1>3, <1>4
<1> QED BY <1>1, <1>3, <1>4, <1>5, <1>6, <1>7
\* What an answer does: its window takes it up, those in evicted are emptied.
Answered(k, w, c, evicted) ==
  /\ At(k, "asking") /\ call[k].worker = w /\ call[k].conv = c
  /\ \E pc \in {"saving", "skipped"} : Passes(k, pc) /\ At(k, pc)'
  /\ call' \in [Call -> Answers \cup {None}]
  /\ \A j \in Call : Asked(j) <=> Asked(j)'
  /\ \A j \in Call : Asked(j) => Kept(j)
  /\ \A j \in Call \ {k} : \A p : At(j, p) <=> At(j, p)'
  /\ window' \in [Worker -> [Key -> Seq(Call)]]
  /\ window'[w][c] = Recent(Append(window[w][c], k))
  /\ \A d \in Key \ {c} : window'[w][d] = IF d \in evicted THEN <<>> ELSE window[w][d]
  /\ \A v \in Worker \ {w} : window'[v] = window[v] /\ order'[v] = order[v]
  /\ order' \in [Worker -> Seq(Key)]
  /\ \A d \in ToSet(order[w]) : d \in evicted \cup ToSet(order'[w])
  /\ window[w][c] = <<>> => c \in ToSet(order'[w])
  /\ window[w][c] = <<>> \/ evicted = {}
  /\ torn' = torn \cup evicted \cup {d \in {c} : \E v \in Worker \ {w} : window[v][d] # <<>>}
  /\ cut' = cut \cup {j \in Call : At(j, "asking") /\ call[j].worker = w
                                   /\ call[j].conv \in evicted}
  /\ UNCHANGED turns

LEMMA AnswerKeeps ==
  ASSUME TypeOK, NEW k \in Call, Answer(k)
  PROVE  \E w \in Worker, c \in Key, evicted \in SUBSET Key : Answered(k, w, c, evicted)
<1> DEFINE w       == call[k].worker
           c       == call[k].conv
           fresh   == window[w][c] = <<>>
           evicted == IF fresh /\ Len(order[w]) >= Capacity THEN {Head(order[w])} ELSE {}
           row     == [d \in Key |-> IF d = c THEN Recent(Append(window[w][c], k))
                                     ELSE IF d \in evicted THEN <<>> ELSE window[w][d]]
           line    == IF ~fresh THEN order[w]
                      ELSE Append(IF evicted = {} THEN order[w] ELSE Tail(order[w]), c)
<1>1. At(k, "asking") /\ Live(k)
  BY DEF Answer, Live
<1>2. w \in Worker /\ c \in Key
  BY <1>1, CallTyped DEF At
<1>3. /\ call' = [call EXCEPT ![k].pc = IF Found(c) THEN "saving" ELSE "skipped"]
      /\ window' = [window EXCEPT ![w] = row]
      /\ order' = [order EXCEPT ![w] = line]
      /\ torn' = torn \cup evicted
                   \cup {d \in {c} : \E v \in Worker \ {w} : window[v][d] # <<>>}
      /\ cut' = cut \cup {j \in Call : /\ At(j, "asking") /\ call[j].worker = w
                                       /\ call[j].conv \in evicted}
      /\ turns' = turns
  BY DEF Answer
<1>4. order[w] \in Seq(Key) /\ window[w][c] \in Seq(Call) /\ Len(window[w][c]) <= Window
  BY <1>2 DEF TypeOK
<1>5. evicted # {} => order[w] # <<>> /\ evicted = {Head(order[w])} /\ fresh
  BY <1>4
<1>6. /\ evicted \subseteq ToSet(order[w]) /\ evicted \subseteq Key
      /\ evicted # {} => Tail(order[w]) \in Seq(Key)
  BY <1>4, <1>5, QueueMembers
<1>7. Recent(Append(window[w][c], k)) \in Seq(Call)
  BY <1>4, RecentKeeps
<1>8. \A d \in Key : window[w][d] \in Seq(Call)
  BY <1>2 DEF TypeOK
<1> HIDE DEF evicted
<1>9. /\ row[c] = Recent(Append(window[w][c], k))
      /\ \A d \in Key \ {c} : row[d] = IF d \in evicted THEN <<>> ELSE window[w][d]
  BY <1>2
<1>10. row \in [Key -> Seq(Call)]
  <2>1. row[c] \in Seq(Call)
    BY <1>7, <1>9
  <2>2. ASSUME NEW d \in Key \ {c} PROVE row[d] \in Seq(Call)
    <3>1. row[d] = <<>> \/ row[d] = window[w][d]
      BY <1>9
    <3> QED BY <1>8, <3>1
  <2>3. \A d \in Key : row[d] \in Seq(Call)
    BY <2>1, <2>2
  <2> QED BY <2>3
<1>11. line \in Seq(Key)
  <2>1. CASE ~fresh
    BY <1>4, <2>1
  <2>2. CASE fresh /\ evicted = {}
    BY <1>2, <1>4, <2>2
  <2>3. CASE fresh /\ evicted # {}
    <3> DEFINE rest == Tail(order[w])
    <3>1. rest \in Seq(Key)
      BY <1>6, <2>3
    <3>2. line = Append(rest, c)
      BY <2>3
    <3> HIDE DEF rest, line
    <3> QED BY <1>2, <3>1, <3>2
  <2> QED BY <2>1, <2>2, <2>3
<1>12. PICK pc \in {"saving", "skipped"} : call' = [call EXCEPT ![k].pc = pc]
  BY <1>3
<1>13. /\ Passes(k, pc) /\ call' \in [Call -> Answers \cup {None}]
       /\ \A j \in Call : Asked(j) <=> Asked(j)'
       /\ \A j \in Call : Asked(j) => Kept(j)
       /\ \A j \in Call \ {k} : \A p : At(j, p) <=> At(j, p)'
       /\ At(k, pc)'
  <2>1. pc \in {"saving", "stored", "refused", "skipped", "failed", "error"}
    OBVIOUS
  <2> QED BY <1>1, <1>12, <2>1, PassesKeeps, ZenonT(40)
<1> HIDE DEF row, line
<1>14. /\ window'[w] = row /\ \A v \in Worker \ {w} : window'[v] = window[v]
       /\ window' \in [Worker -> [Key -> Seq(Call)]]
  BY <1>2, <1>3, <1>10 DEF TypeOK
<1>15. /\ order'[w] = line /\ \A v \in Worker \ {w} : order'[v] = order[v]
       /\ order' \in [Worker -> Seq(Key)]
  BY <1>2, <1>3, <1>11 DEF TypeOK
<1>16. /\ window'[w][c] = Recent(Append(window[w][c], k))
       /\ \A d \in Key \ {c} : window'[w][d] = IF d \in evicted THEN <<>> ELSE window[w][d]
  BY <1>9, <1>14
<1>17. fresh \/ evicted = {}
  BY <1>5
<1>18. \A d \in ToSet(order[w]) : d \in evicted \cup ToSet(line)
  <2>1. CASE ~fresh
    BY <2>1 DEF line
  <2>2. CASE fresh /\ evicted = {}
    BY <1>2, <1>4, <2>2, QueueMembers DEF line
  <2>3. CASE fresh /\ evicted # {}
    <3> DEFINE rest == Tail(order[w])
    <3>1. \A d \in ToSet(order[w]) : d \in evicted \cup ToSet(rest)
      BY <1>4, <1>5, <2>3, QueueMembers
    <3>2. rest \in Seq(Key) /\ line = Append(rest, c)
      BY <1>6, <2>3 DEF line
    <3> HIDE DEF rest
    <3>3. ToSet(line) = ToSet(rest) \cup {c}
      BY <1>2, <3>2, QueueMembers
    <3> QED BY <3>1, <3>3
  <2> QED BY <2>1, <2>2, <2>3
<1>19. fresh => c \in ToSet(line)
  <2>1. CASE evicted = {}
    BY <1>2, <1>4, <2>1, QueueMembers DEF line
  <2>2. CASE evicted # {} /\ fresh
    <3> DEFINE rest == Tail(order[w])
    <3>2. rest \in Seq(Key) /\ line = Append(rest, c)
      BY <1>6, <2>2 DEF line
    <3> HIDE DEF rest
    <3> QED BY <1>2, <3>2, QueueMembers
  <2> QED BY <2>1, <2>2
<1>20. \E p \in {"saving", "skipped"} : Passes(k, p) /\ At(k, p)'
  BY <1>13
<1>21. UNCHANGED turns
  BY <1>3
<1>22. Answered(k, w, c, evicted)
  BY <1>1, <1>3, <1>13, <1>14, <1>15, <1>16, <1>17, <1>18, <1>19, <1>20, <1>21
     DEF Answered, fresh
<1> QED BY <1>2, <1>6, <1>22

-----------------------------------------------------------------------------
(* The actions that only concern rows and batches, or pass a call on.       *)

RowStep ==
  \/ \E c \in Conversation :
       Create(c) \/ SoftDelete(c) \/ FallDue(c) \/ \E s \in {"active", "archived"} : Update(c, s)
  \/ \E w \in Scheduled : Batch(w) \/ MarkFails(w) \/ CommitFails(w)

\* An answer that ends without a turn.
Drop(k) ==
  \/ AnswerFails(k) \/ SaveFails(k)
  \/ Save(k) /\ Taken(call[k].conv, call[k].number)

Store(k) == Save(k) /\ ~Taken(call[k].conv, call[k].number)

LEMMA Steps ==
  ASSUME [Next]_vars
  PROVE  \/ RowStep \/ UNCHANGED vars \/ \E w \in Worker : Stop(w)
         \/ \E k \in Call : Drop(k) \/ Store(k) \/ Answer(k)
         \/ \E k \in Call, w \in Worker, c \in Key : Ask(k, w, c)
BY DEF Next, RowStep, Drop, Store

LEMMA RowStepKeeps ==
  ASSUME RowStep \/ UNCHANGED vars
  PROVE  UNCHANGED talk
BY DEF RowStep, Batch, Create, SoftDelete, FallDue, Update, List, Mark, Commit, MarkFails,
       CommitFails, vars, talk

LEMMA DropKeeps ==
  ASSUME TypeOK, NEW k \in Call, Drop(k)
  PROVE  /\ \E pc \in {"refused", "failed", "error"} : Passes(k, pc) /\ At(k, pc)'
         /\ call' \in [Call -> Answers \cup {None}]
         /\ \A j \in Call : Asked(j) <=> Asked(j)'
         /\ \A j \in Call : Asked(j) => Kept(j)
         /\ \A j \in Call \ {k} : \A p : At(j, p) <=> At(j, p)'
         /\ At(k, "refused")' => At(k, "saving") /\ Taken(call[k].conv, call[k].number)
         /\ UNCHANGED <<turns, window, order, torn, cut>>
<1>1. UNCHANGED <<turns, window, order, torn, cut>>
  BY DEF Drop, AnswerFails, SaveFails, Save
<1>2. Live(k)
  BY DEF Drop, AnswerFails, SaveFails, Save, Live
<1>3. PICK pc \in {"refused", "failed", "error"} :
        /\ call' = [call EXCEPT ![k].pc = pc]
        /\ pc = "refused" => At(k, "saving") /\ Taken(call[k].conv, call[k].number)
  <2>1. CASE AnswerFails(k)
    BY <2>1 DEF AnswerFails
  <2>2. CASE SaveFails(k)
    BY <2>2 DEF SaveFails
  <2>3. CASE Save(k) /\ Taken(call[k].conv, call[k].number)
    BY <2>3 DEF Save
  <2> QED BY <2>1, <2>2, <2>3 DEF Drop
<1>4. pc \in {"saving", "stored", "refused", "skipped", "failed", "error"}
  OBVIOUS
<1>5. /\ Passes(k, pc) /\ call' \in [Call -> Answers \cup {None}]
      /\ \A j \in Call : Asked(j) <=> Asked(j)'
      /\ \A j \in Call : Asked(j) => Kept(j)
      /\ \A j \in Call \ {k} : \A p : At(j, p) <=> At(j, p)'
      /\ At(k, pc)' /\ call'[k].pc = pc
  BY <1>2, <1>3, <1>4, PassesKeeps, ZenonT(40)
<1>6. At(k, "refused")' => pc = "refused"
  BY <1>5 DEF At
<1> QED BY <1>1, <1>3, <1>5, <1>6

LEMMA StoreKeeps ==
  ASSUME TypeOK, NEW k \in Call, Store(k)
  PROVE  /\ Passes(k, "stored") /\ At(k, "saving") /\ At(k, "stored")'
         /\ call' \in [Call -> Answers \cup {None}]
         /\ \A j \in Call : Asked(j) <=> Asked(j)'
         /\ \A j \in Call : Asked(j) => Kept(j)
         /\ \A j \in Call \ {k} : \A p : At(j, p) <=> At(j, p)'
         /\ turns' = turns \cup {k} /\ ~Taken(call[k].conv, call[k].number)
         /\ UNCHANGED <<window, order, torn, cut>>
<1>1. /\ call' = [call EXCEPT ![k].pc = "stored"] /\ turns' = turns \cup {k}
      /\ At(k, "saving") /\ ~Taken(call[k].conv, call[k].number)
      /\ UNCHANGED <<window, order, torn, cut>>
  BY DEF Store, Save
<1>2. Live(k)
  BY <1>1 DEF Live
<1> QED BY <1>1, <1>2, PassesKeeps

-----------------------------------------------------------------------------
\* The types of the rows and of the batches.
LEMMA RowStepTyped ==
  ASSUME TypeOK, RowStep
  PROVE  TypeOK'
<1>1. ASSUME NEW c \in Conversation,
             Create(c) \/ SoftDelete(c) \/ FallDue(c)
               \/ \E s \in {"active", "archived"} : Update(c, s)
      PROVE TypeOK'
  <2>1. CASE Create(c) \/ SoftDelete(c) \/ \E s \in {"active", "archived"} : Update(c, s)
    <3>1. /\ status' \in [Conversation -> {"none", "active", "archived", "expired", "deleted"}]
          /\ deleted' \in [Conversation -> BOOLEAN]
      BY <2>1 DEF TypeOK, Create, SoftDelete, Update
    <3>2. UNCHANGED <<due, turns, call, window, order, torn, cut, batch, owed, faults>>
      BY <2>1 DEF Create, SoftDelete, Update, talk
    <3> QED BY <3>1, <3>2 DEF TypeOK
  <2>2. CASE FallDue(c)
    <3>1. due' \in Seq(Conversation)
      BY <2>2 DEF TypeOK, FallDue
    <3>2. UNCHANGED <<status, deleted, turns, call, window, order, torn, cut, batch, owed, faults>>
      BY <2>2 DEF FallDue, talk
    <3> QED BY <3>1, <3>2 DEF TypeOK
  <2> QED BY <1>1, <2>1, <2>2
<1>2. ASSUME NEW w \in Scheduled, Batch(w) \/ MarkFails(w) \/ CommitFails(w)
      PROVE  TypeOK'
  <2>1. batch[w] \in Batches
    BY DEF TypeOK
  <2>2. Idle \in Batches
    BY DEF Idle, Batches
  <2>3. CASE List(w)
    <3>1. PICK first \in SUBSET ToSet(due) :
            batch' = [batch EXCEPT ![w].step = "marking", ![w].list = first]
      BY <2>3 DEF List
    <3>2. first \subseteq Conversation
      BY QueueMembers DEF TypeOK
    <3>3. [batch[w] EXCEPT !.step = "marking", !.list = first] \in Batches
      BY <2>1, <3>2 DEF Batches
    <3>4. batch' = [batch EXCEPT ![w] = [batch[w] EXCEPT !.step = "marking", !.list = first]]
      BY <3>1 DEF TypeOK
    <3>5. batch' \in [Scheduled -> Batches]
      BY <3>3, <3>4 DEF TypeOK
    <3> QED BY <2>3, <3>5 DEF List, TypeOK, talk, rows
  <2>4. CASE Mark(w)
    <3>1. PICK c \in batch[w].list :
            /\ batch' = [batch EXCEPT ![w].list = @ \ {c},
                           ![w].marked = IF Markable(c) THEN @ \cup {c} ELSE @]
            /\ owed' = IF Markable(c) THEN owed \cup {c} ELSE owed
            /\ UNCHANGED <<talk, rows, faults>>
      BY <2>4 DEF Mark
    <3> DEFINE b == [batch[w] EXCEPT !.list = @ \ {c},
                                     !.marked = IF Markable(c) THEN @ \cup {c} ELSE @]
    <3>2. c \in Conversation
      BY <2>1 DEF Batches
    <3>3. b \in Batches
      BY <2>1, <3>2 DEF Batches
    <3>4. batch' = [batch EXCEPT ![w] = b]
      BY <3>1 DEF TypeOK
    <3> HIDE DEF b
    <3>5. batch' \in [Scheduled -> Batches]
      BY <3>3, <3>4 DEF TypeOK
    <3>6. owed' \subseteq Conversation
      BY <3>1, <3>2 DEF TypeOK
    <3> QED BY <3>1, <3>5, <3>6 DEF TypeOK, talk, rows
  <2>5. CASE MarkFails(w)
    <3>1. [batch[w] EXCEPT !.list = {}, !.dead = TRUE] \in Batches
      BY <2>1 DEF Batches
    <3>2. batch' = [batch EXCEPT ![w] = [batch[w] EXCEPT !.list = {}, !.dead = TRUE]]
      BY <2>5 DEF MarkFails, TypeOK
    <3>3. batch' \in [Scheduled -> Batches]
      BY <3>1, <3>2 DEF TypeOK
    <3> QED BY <2>5, <3>3 DEF MarkFails, Fault, TypeOK, talk, rows
  <2>6. CASE Commit(w)
    <3>1. batch' \in [Scheduled -> Batches]
      BY <2>2, <2>6 DEF Commit, TypeOK
    <3>2. status' \in [Conversation -> {"none", "active", "archived", "expired", "deleted"}]
      BY <2>6 DEF Commit, TypeOK
    <3> QED BY <2>6, <3>1, <3>2 DEF Commit, TypeOK, talk
  <2>7. CASE CommitFails(w)
    <3>1. batch' \in [Scheduled -> Batches]
      BY <2>2, <2>7 DEF CommitFails, TypeOK
    <3> QED BY <2>7, <3>1 DEF CommitFails, Fault, TypeOK, talk, rows
  <2> QED BY <1>2, <2>3, <2>4, <2>5, <2>6, <2>7 DEF Batch
<1> QED BY <1>1, <1>2 DEF RowStep

\* Every variable has its type (the length of a window is that of its deque).
THEOREM TypeCorrect == Spec => []TypeOK
<1>1. Init => TypeOK
  BY DEF Init, TypeOK, Idle, Batches
<1>2. ASSUME TypeOK, [Next]_vars PROVE TypeOK'
  <2>1. CASE RowStep
    BY <2>1, <1>2, RowStepTyped
  <2>2. CASE UNCHANGED vars
    BY <2>2, <1>2 DEF vars, TypeOK
  <2>3. ASSUME NEW k \in Call, Drop(k) PROVE TypeOK'
    <3>1. call' \in [Call -> Answers \cup {None}]
      BY <1>2, <2>3, DropKeeps
    <3>2. UNCHANGED <<rows, turns, window, order, torn, cut, batch, owed>>
      BY <2>3 DEF Drop, AnswerFails, SaveFails, Save
    <3>3. faults' \in 0..MaxFault
      BY <1>2, <2>3 DEF Drop, AnswerFails, SaveFails, Save, Fault, TypeOK
    <3> QED BY <1>2, <3>1, <3>2, <3>3 DEF TypeOK, rows
  <2>4. ASSUME NEW k \in Call, Store(k) PROVE TypeOK'
    <3>1. call' \in [Call -> Answers \cup {None}] /\ turns' = turns \cup {k}
      BY <1>2, <2>4, StoreKeeps
    <3>2. UNCHANGED <<rows, window, order, torn, cut, batch, owed, faults>>
      BY <2>4 DEF Store, Save
    <3> QED BY <1>2, <3>1, <3>2 DEF TypeOK, rows
  <2>5. ASSUME NEW k \in Call, NEW w \in Worker, NEW c \in Key, Ask(k, w, c) PROVE TypeOK'
    <3>1. call' \in [Call -> Answers \cup {None}]
      BY <1>2, <2>5, AskKeeps
    <3>2. UNCHANGED <<rows, turns, window, order, torn, cut, batch, owed, faults>>
      BY <2>5 DEF Ask
    <3> QED BY <1>2, <3>1, <3>2 DEF TypeOK, rows
  <2>6. ASSUME NEW k \in Call, Answer(k) PROVE TypeOK'
    <3>0. PICK w \in Worker, c \in Key, evicted \in SUBSET Key : Answered(k, w, c, evicted)
      BY <1>2, <2>6, AnswerKeeps
    <3>1. UNCHANGED <<status, deleted, due, batch, owed, faults>>
      <4> HIDE DEF TypeOK
      <4> QED BY <2>6 DEF Answer, rows
    <3>2. \A v \in Worker, d \in Key : Len(window'[v][d]) <= Window
      <4>1. Len(window'[w][c]) <= Window
        BY <1>2, <3>0, RecentKeeps DEF TypeOK, Answered
      <4>2. \A d \in Key \ {c} : Len(window'[w][d]) <= Window
        BY <1>2, <3>0 DEF TypeOK, Answered
      <4>3. \A v \in Worker \ {w}, d \in Key : Len(window'[v][d]) <= Window
        BY <1>2, <3>0 DEF TypeOK, Answered
      <4> QED BY <4>1, <4>2, <4>3
    <3>3. torn' \subseteq Key /\ cut' \subseteq Call
      BY <1>2, <3>0 DEF TypeOK, Answered
    <3> QED BY <1>2, <3>0, <3>1, <3>2, <3>3 DEF TypeOK, Answered
  <2>7. ASSUME NEW w \in Worker, Stop(w) PROVE TypeOK'
    <3>1. /\ call' \in [Call -> Answers \cup {None}]
          /\ window' = [window EXCEPT ![w] = [c \in Key |-> <<>>]]
          /\ order' = [order EXCEPT ![w] = <<>>]
          /\ torn' = torn \cup ToSet(order[w]) /\ UNCHANGED <<turns, cut>>
      BY <1>2, <2>7, StopKeeps
    <3>2. /\ batch' = [v \in Scheduled |-> IF v = w THEN Idle ELSE batch[v]]
          /\ UNCHANGED <<rows, owed>>
      BY <2>7 DEF Stop
    <3>3. batch' \in [Scheduled -> Batches]
      BY <1>2, <3>2 DEF TypeOK, Idle, Batches
    <3>4. torn' \subseteq Key
      BY <1>2, <3>1, QueueMembers DEF TypeOK
    <3>5. faults' \in 0..MaxFault
      BY <1>2, <2>7 DEF Stop, Fault, TypeOK
    <3>6. /\ window' \in [Worker -> [Key -> Seq(Call)]]
          /\ \A v \in Worker, c \in Key : Len(window'[v][c]) <= Window
      BY <1>2, <3>1 DEF TypeOK
    <3>7. order' \in [Worker -> Seq(Key)]
      BY <1>2, <3>1 DEF TypeOK
    <3> QED BY <1>2, <3>1, <3>2, <3>3, <3>4, <3>5, <3>6, <3>7 DEF TypeOK, rows
  <2> QED BY <1>2, <2>1, <2>2, <2>3, <2>4, <2>5, <2>6, <2>7, Steps
<1> QED BY <1>1, <1>2, PTL DEF Spec
-----------------------------------------------------------------------------
LEMMA Remembered ==
  ASSUME TypeOK
  PROVE  /\ \A w \in Worker, c \in Key : ToSet(window[w][c]) \subseteq Call
         /\ \A w \in Worker, c \in Key : Len(window[w][c]) \in 0..Window
         /\ \A k \in Call : Asked(k) => ToSet(call[k].history) \subseteq Call
<1>1. ASSUME NEW w \in Worker, NEW c \in Key
      PROVE  ToSet(window[w][c]) \subseteq Call /\ Len(window[w][c]) \in 0..Window
  <2>1. window[w][c] \in Seq(Call) /\ Len(window[w][c]) <= Window
    BY DEF TypeOK
  <2> QED BY <2>1, QueueMembers
<1>2. ASSUME NEW k \in Call, Asked(k)
      PROVE  ToSet(call[k].history) \subseteq Call
  BY <1>2, CallTyped, QueueMembers
<1> QED BY <1>1, <1>2

\* What was counted of the history of a call stays so.
CountsHistory(k) ==
  \A j \in ToSet(call[k].history) :
    /\ Asked(j) /\ j # k /\ call[j].conv = call[k].conv
    /\ j \in cut \/ call[j].number < call[k].number \/ call[k].number = Window + 1

LEMMA HistoryKept ==
  ASSUME TypeOK, HistoryCounts, \A j \in Call : Asked(j) => Kept(j), cut \subseteq cut',
         NEW k \in Call, Asked(k)
  PROVE  CountsHistory(k)'
<1>1. call'[k].history = call[k].history /\ call'[k].conv = call[k].conv
      /\ call'[k].number = call[k].number
  BY DEF Kept
<1>2. \A j \in ToSet(call[k].history) :
        /\ j \in Call /\ Asked(j) /\ Asked(j)' /\ j # k /\ call[j].conv = call[k].conv
        /\ call'[j].conv = call[j].conv /\ call'[j].number = call[j].number
        /\ j \in cut \/ call[j].number < call[k].number \/ call[k].number = Window + 1
  BY Remembered DEF HistoryCounts, Kept
<1> QED BY <1>1, <1>2 DEF CountsHistory

\* A window that a step leaves alone, while the calls are kept.
LEMMA WindowKept ==
  ASSUME TypeOK, WindowIsOwn, WindowCounts, \A j \in Call : Asked(j) => Kept(j),
         cut \subseteq cut', NEW w \in Worker, NEW c \in Key, window'[w][c] = window[w][c]
  PROVE  \A j \in ToSet(window'[w][c]) :
           /\ Asked(j)' /\ call'[j].worker = w /\ call'[j].conv = c
           /\ j \in cut' \/ call'[j].number <= Len(window'[w][c]) \/ Len(window'[w][c]) = Window
BY Remembered DEF WindowIsOwn, WindowCounts, Kept

\* Turns that a step leaves alone stay unique, while the calls are kept.
LEMMA TurnsKept ==
  ASSUME TypeOK, TurnsAreUnique, NEW k \in Call, ~At(k, "stored"), UNCHANGED turns,
         \A j \in Call : Asked(j) => Kept(j),
         \A j \in Call \ {k} : \A p : At(j, p) <=> At(j, p)'
  PROVE  TurnsAreUnique'
<1>1. \A j \in turns : j \in Call \ {k} /\ At(j, "stored")
  BY DEF TurnsAreUnique, TypeOK
<1>2. \A j \in turns : Asked(j)
  BY <1>1 DEF At
<1>3. \A j \in turns : Kept(j) /\ At(j, "stored")'
  BY <1>1, <1>2
<1>4. \A j \in turns : call'[j].conv = call[j].conv /\ call'[j].number = call[j].number
  BY <1>3 DEF Kept
<1> QED BY <1>3, <1>4 DEF TurnsAreUnique

\* One step keeps the numbers, case by case.
LEMMA NumbersDrop ==
  ASSUME TypeOK, NumbersInv, NEW k \in Call, Drop(k)
  PROVE  NumbersInv'
<1> USE DEF NumbersInv
<1>1. /\ \A j \in Call : Asked(j) <=> Asked(j)'
      /\ \A j \in Call : Asked(j) => Kept(j)
      /\ \A j \in Call \ {k} : \A p : At(j, p) <=> At(j, p)'
      /\ UNCHANGED <<turns, window, cut>>
      /\ Live(k) /\ ~At(k, "asking")' /\ ~At(k, "stored")
  <2>1. PICK pc \in {"refused", "failed", "error"} : Passes(k, pc) /\ At(k, pc)'
    BY DropKeeps
  <2>2. ~At(k, "asking")' /\ Live(k) /\ ~At(k, "stored")
    BY <2>1 DEF At, Passes, Live
  <2> QED BY <2>2, DropKeeps
<1>2. WindowIsOwn' /\ WindowCounts'
  BY <1>1, WindowKept DEF WindowIsOwn, WindowCounts
<1>3. AskingCounts'
  <2>1. ASSUME NEW j \in Call, At(j, "asking")'
        PROVE  At(j, "asking") /\ Kept(j)
    BY <1>1, <2>1 DEF At
  <2> QED BY <1>1, <2>1 DEF AskingCounts, Kept
<1>4. HistoryCounts'
  BY <1>1, HistoryKept DEF HistoryCounts, CountsHistory
<1>5. TurnsAreUnique'
  BY <1>1, TurnsKept
<1> QED BY <1>2, <1>3, <1>4, <1>5

LEMMA NumbersStore ==
  ASSUME TypeOK, NumbersInv, NEW k \in Call, Store(k)
  PROVE  NumbersInv'
<1> USE DEF NumbersInv
<1>1. /\ Passes(k, "stored") /\ At(k, "saving") /\ At(k, "stored")'
      /\ \A j \in Call : Asked(j) <=> Asked(j)'
      /\ \A j \in Call : Asked(j) => Kept(j)
      /\ \A j \in Call \ {k} : \A p : At(j, p) <=> At(j, p)'
      /\ turns' = turns \cup {k} /\ ~Taken(call[k].conv, call[k].number)
      /\ UNCHANGED <<window, cut>>
  BY StoreKeeps
<1>2. WindowIsOwn' /\ WindowCounts'
  BY <1>1, WindowKept DEF WindowIsOwn, WindowCounts
<1>3. AskingCounts'
  <2>1. ASSUME NEW j \in Call, At(j, "asking")'
        PROVE  At(j, "asking") /\ Kept(j)
    BY <1>1, <2>1 DEF At
  <2> QED BY <1>1, <2>1 DEF AskingCounts, Kept
<1>4. HistoryCounts'
  BY <1>1, HistoryKept DEF HistoryCounts, CountsHistory
<1>5. TurnsAreUnique'
  <2>1. \A j \in turns : j \in Call /\ At(j, "stored") /\ j # k /\ Kept(j) /\ At(j, "stored")'
    BY <1>1 DEF TurnsAreUnique, TypeOK, At
  <2>2. Kept(k)
    BY <1>1 DEF At
  <2>3. \A j \in turns : call[j].conv = call[k].conv => call[j].number # call[k].number
    BY <1>1 DEF Taken
  <2> QED BY <1>1, <2>1, <2>2, <2>3 DEF TurnsAreUnique, Kept
<1> QED BY <1>2, <1>3, <1>4, <1>5

LEMMA NumbersAsk ==
  ASSUME TypeOK, NumbersInv, NEW k \in Call, NEW w \in Worker, NEW c \in Key, Ask(k, w, c)
  PROVE  NumbersInv'
<1> USE DEF NumbersInv
<1>1. /\ ~Asked(k) /\ At(k, "asking")'
      /\ call'[k] = [pc |-> "asking", worker |-> w, conv |-> c,
                     number |-> Len(window[w][c]) + 1, history |-> window[w][c],
                     alone |-> \A j \in Call : Live(j) => call[j].conv # c]
      /\ \A j \in Call \ {k} : \A p : At(j, p) <=> At(j, p)'
      /\ \A j \in Call : Asked(j) => Kept(j)
      /\ UNCHANGED <<turns, window, cut>>
  BY AskKeeps
<1>2. WindowIsOwn' /\ WindowCounts'
  BY <1>1, WindowKept DEF WindowIsOwn, WindowCounts
<1>3. /\ call'[k].worker = w /\ call'[k].conv = c /\ call'[k].history = window[w][c]
      /\ call'[k].number = Len(window[w][c]) + 1 /\ Asked(k)'
  BY <1>1 DEF At
<1>4. AskingCounts'
  <2>1. ASSUME NEW j \in Call \ {k}, At(j, "asking")'
        PROVE  At(j, "asking") /\ Kept(j)
    BY <1>1, <2>1 DEF At
  <2>2. k \in cut \/ call'[k].number <= Len(window'[call'[k].worker][call'[k].conv]) + 1
    <3>1. Len(window[w][c]) \in Nat
      BY Remembered
    <3> QED BY <1>1, <1>3, <3>1
  <2>3. ASSUME NEW j \in Call \ {k}, At(j, "asking")'
        PROVE  j \in cut \/ call'[j].number <= Len(window'[call'[j].worker][call'[j].conv]) + 1
    BY <1>1, <2>1, <2>3 DEF AskingCounts, Kept
  <2> QED BY <1>1, <2>2, <2>3 DEF AskingCounts
<1>5. HistoryCounts'
  <2>1. CountsHistory(k)'
    <3>1. ASSUME NEW j \in ToSet(window[w][c])
          PROVE  /\ Asked(j)' /\ j # k /\ call'[j].conv = c
                 /\ j \in cut \/ call'[j].number < Len(window[w][c]) + 1
                      \/ Len(window[w][c]) + 1 = Window + 1
      <4>1. j \in Call /\ Asked(j) /\ Kept(j) /\ call[j].conv = c
        BY <1>1, Remembered DEF WindowIsOwn
      <4>2. j \in cut \/ call[j].number <= Len(window[w][c]) \/ Len(window[w][c]) = Window
        BY DEF WindowCounts
      <4>3. call[j].number \in Nat /\ Len(window[w][c]) \in Nat
        BY <4>1, CallTyped, Remembered
      <4> QED BY <1>1, <4>1, <4>2, <4>3 DEF Kept
    <3> QED BY <1>1, <1>3, <3>1 DEF CountsHistory
  <2>2. ASSUME NEW j \in Call \ {k}, Asked(j)' PROVE Asked(j)
    <3>1. PICK p : p = call'[j].pc
      OBVIOUS
    <3>2. At(j, p)'
      BY <2>2, <3>1 DEF At
    <3> QED BY <1>1, <3>2 DEF At
  <2>3. ASSUME NEW j \in Call \ {k}, Asked(j)' PROVE CountsHistory(j)'
    BY <1>1, <2>2, <2>3, HistoryKept
  <2>4. \A j \in Call : Asked(j)' => CountsHistory(j)'
    BY <2>1, <2>3
  <2> QED BY <2>4 DEF HistoryCounts, CountsHistory
<1>6. TurnsAreUnique'
  <2>1. ~At(k, "stored")
    BY <1>1 DEF At
  <2> QED BY <1>1, <2>1, TurnsKept
<1> QED BY <1>2, <1>4, <1>5, <1>6

LEMMA NumbersStop ==
  ASSUME TypeOK, NumbersInv, NEW w \in Worker, Stop(w)
  PROVE  NumbersInv'
<1> USE DEF NumbersInv
<1>1. /\ \A j \in Call : Asked(j) => Kept(j)
      /\ \A j \in Call : Asked(j)' => Asked(j)
      /\ \A j \in Call : At(j, "asking")' => At(j, "asking") /\ call[j].worker # w
      /\ \A j \in Call : At(j, "stored") => At(j, "stored")'
      /\ window' = [window EXCEPT ![w] = [c \in Key |-> <<>>]]
      /\ UNCHANGED <<turns, cut>>
  BY StopKeeps
<1>2. WindowIsOwn' /\ WindowCounts'
  <2>1. ASSUME NEW c \in Key PROVE window'[w][c] = <<>> /\ ToSet(window'[w][c]) = {}
    BY <1>1 DEF TypeOK, ToSet
  <2>2. \A v \in Worker \ {w}, c \in Key : window'[v][c] = window[v][c]
    BY <1>1 DEF TypeOK
  <2>3. ASSUME NEW v \in Worker, NEW c \in Key, NEW j \in ToSet(window'[v][c])
        PROVE  /\ Asked(j)' /\ call'[j].worker = v /\ call'[j].conv = c
               /\ j \in cut' \/ call'[j].number <= Len(window'[v][c]) \/ Len(window'[v][c]) = Window
    <3>1. window'[v][c] = window[v][c]
      BY <2>1, <2>2
    <3> QED BY <1>1, <3>1, WindowKept
  <2> QED BY <2>3 DEF WindowIsOwn, WindowCounts
<1>3. AskingCounts'
  <2>1. ASSUME NEW j \in Call, At(j, "asking")'
        PROVE  /\ At(j, "asking") /\ Kept(j)
               /\ window'[call[j].worker][call[j].conv] = window[call[j].worker][call[j].conv]
    <3>1. At(j, "asking") /\ call[j].worker # w /\ Asked(j)
      BY <1>1, <2>1 DEF At
    <3>2. call[j].worker \in Worker \ {w}
      BY <3>1, CallTyped
    <3>3. window'[call[j].worker] = window[call[j].worker]
      BY <1>1, <3>2 DEF TypeOK
    <3>4. Kept(j)
      BY <1>1, <3>1
    <3> QED BY <3>1, <3>3, <3>4
  <2>2. ASSUME NEW j \in Call, At(j, "asking")'
        PROVE  j \in cut' \/ call'[j].number <= Len(window'[call'[j].worker][call'[j].conv]) + 1
    <3>1. j \in cut \/ call[j].number <= Len(window[call[j].worker][call[j].conv]) + 1
      BY <2>1, <2>2 DEF AskingCounts
    <3>2. call'[j].worker = call[j].worker /\ call'[j].conv = call[j].conv
          /\ call'[j].number = call[j].number
      BY <2>1, <2>2 DEF Kept
    <3> QED BY <1>1, <2>1, <2>2, <3>1, <3>2
  <2> QED BY <2>2 DEF AskingCounts
<1>4. HistoryCounts'
  BY <1>1, HistoryKept DEF HistoryCounts, CountsHistory
<1>5. TurnsAreUnique'
  <2>1. \A j \in turns : j \in Call /\ At(j, "stored") /\ Kept(j) /\ At(j, "stored")'
    BY <1>1 DEF TurnsAreUnique, TypeOK, At
  <2> QED BY <1>1, <2>1 DEF TurnsAreUnique, Kept
<1> QED BY <1>2, <1>3, <1>4, <1>5

LEMMA NumbersAnswer ==
  ASSUME TypeOK, NumbersInv, NEW k \in Call, Answer(k)
  PROVE  NumbersInv'
<1> USE DEF NumbersInv
<1>0. PICK w \in Worker, c \in Key, evicted \in SUBSET Key : Answered(k, w, c, evicted)
  BY AnswerKeeps
<1>1. /\ At(k, "asking") /\ call[k].worker = w /\ call[k].conv = c
      /\ \A j \in Call : Asked(j) <=> Asked(j)'
      /\ \A j \in Call : Asked(j) => Kept(j)
      /\ \A j \in Call \ {k} : \A p : At(j, p) <=> At(j, p)'
      /\ window'[w][c] = Recent(Append(window[w][c], k))
      /\ \A d \in Key \ {c} : window'[w][d] = IF d \in evicted THEN <<>> ELSE window[w][d]
      /\ \A v \in Worker \ {w} : window'[v] = window[v]
      /\ window[w][c] = <<>> \/ evicted = {}
      /\ cut \subseteq cut' /\ turns' = turns
      /\ \A j \in Call : /\ At(j, "asking") /\ call[j].worker = w /\ call[j].conv \in evicted
                         => j \in cut'
  BY <1>0 DEF Answered
<1>2. ~At(k, "asking")' /\ ~At(k, "stored")
  BY <1>0 DEF Answered, At, Passes
<1>3. /\ window[w][c] \in Seq(Call) /\ Len(window[w][c]) \in 0..Window
      /\ ToSet(window'[w][c]) \subseteq ToSet(window[w][c]) \cup {k}
      /\ Len(window'[w][c]) \in 0..Window /\ Len(window'[w][c]) >= Len(window[w][c])
      /\ Len(window[w][c]) < Window => Len(window'[w][c]) = Len(window[w][c]) + 1
  <2>1. window[w][c] \in Seq(Call) /\ Len(window[w][c]) \in 0..Window
    BY Remembered DEF TypeOK
  <2> DEFINE s == window[w][c]
             t == Recent(Append(s, k))
  <2> HIDE DEF s
  <2>2. /\ t \in Seq(Call) /\ t # <<>> /\ Len(t) <= Window /\ Len(t) >= Len(s)
        /\ ToSet(t) \subseteq ToSet(s) \cup {k} /\ k \in ToSet(t)
        /\ Len(s) < Window => ToSet(t) = ToSet(s) \cup {k} /\ Len(t) = Len(s) + 1
    <3>1. s \in Seq(Call) /\ Len(s) <= Window
      BY <2>1 DEF s
    <3> QED BY <3>1, RecentKeeps
  <2>3. window'[w][c] = t
    BY <1>1 DEF s
  <2> HIDE DEF t
  <2>4. Len(t) \in 0..Window
    BY <2>2
  <2> QED BY <2>1, <2>2, <2>3, <2>4 DEF s
<1>4. ASSUME NEW j \in ToSet(window'[w][c])
      PROVE  /\ Asked(j)' /\ call'[j].worker = w /\ call'[j].conv = c
             /\ j \in cut' \/ call'[j].number <= Len(window'[w][c]) \/ Len(window'[w][c]) = Window
  <2>1. CASE j = k
    <3>1. Asked(k) /\ Kept(k) /\ Asked(k)'
      BY <1>1 DEF At
    <3>2. k \in cut \/ call[k].number <= Len(window[w][c]) + 1
      BY <1>1 DEF AskingCounts
    <3>3. call[k].number \in Nat
      BY <3>1, CallTyped
    <3> QED BY <1>1, <1>3, <2>1, <3>1, <3>2, <3>3 DEF Kept
  <2>2. CASE j # k
    <3>1. j \in Call /\ j \in ToSet(window[w][c]) /\ Asked(j) /\ Kept(j)
      BY <1>1, <1>3, <2>2, Remembered DEF WindowIsOwn
    <3>2. /\ call[j].worker = w /\ call[j].conv = c
          /\ j \in cut \/ call[j].number <= Len(window[w][c]) \/ Len(window[w][c]) = Window
      BY <3>1 DEF WindowIsOwn, WindowCounts
    <3>3. call[j].number \in Nat
      BY <3>1, CallTyped
    <3> QED BY <1>1, <1>3, <3>1, <3>2, <3>3 DEF Kept
  <2> QED BY <2>1, <2>2
<1>5. WindowIsOwn' /\ WindowCounts'
  <2>1. \A d \in Key \ {c} : window'[w][d] = window[w][d] \/ ToSet(window'[w][d]) = {}
    BY <1>1 DEF ToSet
  <2>2. \A v \in Worker \ {w}, d \in Key : window'[v][d] = window[v][d]
    BY <1>1
  <2>3. ASSUME NEW v \in Worker, NEW d \in Key, NEW j \in ToSet(window'[v][d])
        PROVE  /\ Asked(j)' /\ call'[j].worker = v /\ call'[j].conv = d
               /\ j \in cut' \/ call'[j].number <= Len(window'[v][d]) \/ Len(window'[v][d]) = Window
    <3>1. CASE v = w /\ d = c
      BY <1>4, <3>1
    <3>2. CASE ~(v = w /\ d = c)
      <4>1. window'[v][d] = window[v][d]
        BY <2>1, <2>2, <3>2
      <4> QED BY <1>1, <4>1, WindowKept
    <3> QED BY <3>1, <3>2
  <2> QED BY <2>3 DEF WindowIsOwn, WindowCounts
<1>6. AskingCounts'
  <2> SUFFICES ASSUME NEW j \in Call, At(j, "asking")'
               PROVE  \/ j \in cut'
                      \/ call'[j].number <= Len(window'[call'[j].worker][call'[j].conv]) + 1
    BY DEF AskingCounts
  <2>1. j # k /\ At(j, "asking") /\ Kept(j) /\ Asked(j)
    BY <1>1, <1>2 DEF At
  <2>2. /\ call[j].worker \in Worker /\ call[j].conv \in Key /\ call[j].number \in Nat
        /\ Len(window[call[j].worker][call[j].conv]) \in Nat
    BY <2>1, CallTyped, Remembered
  <2>3. j \in cut \/ call[j].number <= Len(window[call[j].worker][call[j].conv]) + 1
    BY <2>1 DEF AskingCounts
  <2>4. CASE call[j].worker # w \/ (call[j].conv # c /\ call[j].conv \notin evicted)
    <3>1. window'[call[j].worker][call[j].conv] = window[call[j].worker][call[j].conv]
      <4>1. CASE call[j].worker # w
        BY <1>1, <2>2, <4>1
      <4>2. CASE call[j].worker = w /\ call[j].conv # c /\ call[j].conv \notin evicted
        BY <1>1, <2>2, <4>2
      <4> QED BY <2>4, <4>1, <4>2
    <3>2. call'[j].worker = call[j].worker /\ call'[j].conv = call[j].conv
          /\ call'[j].number = call[j].number /\ (j \in cut => j \in cut')
      BY <1>1, <2>1 DEF Kept
    <3> QED BY <2>3, <3>1, <3>2
  <2>5. CASE call[j].worker = w /\ call[j].conv = c
    <3>1. Len(window'[w][c]) \in Nat /\ Len(window'[w][c]) >= Len(window[w][c])
      BY <1>3
    <3>2. call'[j].worker = w /\ call'[j].conv = c
          /\ call'[j].number = call[j].number /\ (j \in cut => j \in cut')
      BY <1>1, <2>1, <2>5 DEF Kept
    <3> QED BY <2>2, <2>3, <2>5, <3>1, <3>2
  <2>6. CASE call[j].worker = w /\ call[j].conv \in evicted
    BY <1>1, <2>1, <2>6
  <2> QED BY <2>4, <2>5, <2>6
<1>7. HistoryCounts'
  BY <1>1, HistoryKept DEF HistoryCounts, CountsHistory
<1>8. TurnsAreUnique'
  BY <1>1, <1>2, TurnsKept
<1> QED BY <1>5, <1>6, <1>7, <1>8

LEMMA NumbersCorrect == Spec => []NumbersInv
<1>1. Init => NumbersInv
  BY DEF Init, NumbersInv, WindowIsOwn, WindowCounts, AskingCounts, HistoryCounts,
         TurnsAreUnique, Asked, At, ToSet
<1>2. ASSUME TypeOK, NumbersInv, [Next]_vars PROVE NumbersInv'
  <2>1. CASE RowStep \/ UNCHANGED vars
    <3>1. UNCHANGED <<turns, call, window, order, torn, cut>>
      BY <2>1, RowStepKeeps DEF talk
    <3> QED BY <1>2, <3>1
           DEF NumbersInv, WindowIsOwn, WindowCounts, AskingCounts, HistoryCounts,
               TurnsAreUnique, Asked, At, ToSet
  <2> QED BY <1>2, <2>1, Steps, NumbersDrop, NumbersStore, NumbersAsk, NumbersStop, NumbersAnswer
<1> QED BY <1>1, <1>2, TypeCorrect, PTL DEF Spec

\* The turns of a conversation are listed by their numbers, and an answer comes
\* after those in its history, for windows of any size and any failures.
THEOREM HistoriesAreListedFirst == Spec => []AnswersFollowTheirHistory
<1>1. TypeOK /\ NumbersInv => AnswersFollowTheirHistory
  <2> SUFFICES ASSUME TypeOK, NumbersInv, NEW j \in turns, NEW k \in turns,
                      j \in ToSet(call[k].history)
               PROVE  call[j].number < call[k].number \/ j \in cut
    BY DEF AnswersFollowTheirHistory
  <2>1. j \in Call /\ k \in Call /\ Asked(j) /\ Asked(k)
    BY DEF NumbersInv, TurnsAreUnique, TypeOK, At
  <2>2. /\ j # k /\ call[j].conv = call[k].conv
        /\ j \in cut \/ call[j].number < call[k].number \/ call[k].number = Window + 1
    BY <2>1 DEF NumbersInv, HistoryCounts
  <2>3. call[j].number # call[k].number
    BY <2>2 DEF NumbersInv, TurnsAreUnique
  <2>4. call[j].number \in 1..Window + 1
    BY <2>1, CallTyped
  <2> QED BY <2>2, <2>3, <2>4
<1> QED BY <1>1, NumbersCorrect, TypeCorrect, PTL

-----------------------------------------------------------------------------
LEMMA CutKept ==
  ASSUME TypeOK, CutIsTorn, \A j \in Call : Asked(j) => Kept(j),
         torn \subseteq torn', cut' = cut
  PROVE  CutIsTorn'
<1>1. \A j \in cut : j \in Call /\ Asked(j) /\ call[j].conv \in torn
  BY DEF CutIsTorn, TypeOK
<1> QED BY <1>1 DEF CutIsTorn, Kept

\* A lone answer stays lone while no call of its conversation starts.
LEMMA AloneKept ==
  ASSUME TypeOK, AloneIsAlone, \A j \in Call : Asked(j) => Kept(j),
         \A j \in Call : Live(j)' => Live(j)
  PROVE  AloneIsAlone'
<1>1. \A j \in Call : Live(j)' => Live(j) /\ Kept(j)
  BY DEF Live, At
<1> QED BY <1>1 DEF AloneIsAlone, Kept

\* The number of a call that was the next stays so while the stored turns and
\* the windows are the same.
LEMMA NextKept ==
  ASSUME TypeOK, NumbersInv, LoneIsNext, \A j \in Call : Asked(j) => Kept(j),
         turns' = turns, window' = window, torn' = torn,
         NEW k \in Call, Live(k)', Live(k), At(k, "asking") => At(k, "asking")',
         call'[k].alone, call'[k].conv \notin torn', call'[k].number <= Window
  PROVE  \/ At(k, "asking")' /\ Elsewhere(k)'
         \/ \A j \in turns' : call'[j].conv = call'[k].conv => call'[j].number < call'[k].number
<1>1. Kept(k)
  BY DEF Live, At
<1>2. \/ At(k, "asking") /\ Elsewhere(k)
      \/ \A j \in turns : call[j].conv = call[k].conv => call[j].number < call[k].number
  BY <1>1 DEF LoneIsNext, Kept
<1>3. \A j \in turns : Kept(j)
  BY DEF NumbersInv, TurnsAreUnique, At, TypeOK
<1>4. Elsewhere(k) => Elsewhere(k)'
  BY <1>1 DEF Elsewhere, Kept
<1>5. (\A j \in turns : call[j].conv = call[k].conv => call[j].number < call[k].number)
      => \A j \in turns' : call'[j].conv = call'[k].conv => call'[j].number < call'[k].number
  BY <1>1, <1>3 DEF Kept
<1> QED BY <1>2, <1>4, <1>5

LEMMA LoneDrop ==
  ASSUME TypeOK, NumbersInv, LoneInv, NEW k \in Call, Drop(k)
  PROVE  LoneInv'
<1> USE DEF LoneInv
<1>1. /\ \A j \in Call : Asked(j) <=> Asked(j)'
      /\ \A j \in Call : Asked(j) => Kept(j)
      /\ \A j \in Call \ {k} : \A p : At(j, p) <=> At(j, p)'
      /\ At(k, "refused")' => At(k, "saving") /\ Taken(call[k].conv, call[k].number)
      /\ UNCHANGED <<turns, window, order, torn, cut>>
  BY DropKeeps
<1>2. Live(k) /\ ~At(k, "asking")' /\ ~At(k, "saving")' /\ ~Live(k)' /\ ~At(k, "stored")
  <2>1. PICK pc \in {"refused", "failed", "error"} : Passes(k, pc) /\ At(k, pc)'
    BY DropKeeps
  <2> QED BY <2>1 DEF At, Passes, Live
<1>3. \A j \in Call : Live(j)' => Live(j) /\ j # k
  BY <1>1, <1>2 DEF Live
<1>4. RememberedIsOrdered'
  BY <1>1 DEF RememberedIsOrdered
<1>5. CutIsTorn'
  BY <1>1, CutKept
<1>6. StoredIsRemembered'
  <2>1. ASSUME NEW j \in Call, At(j, "saving")' \/ j \in turns', call'[j].conv \notin torn'
        PROVE  LET s == window'[call'[j].worker][call'[j].conv]
               IN  j \in ToSet(s) \/ Len(s) = Window
    <3>1. (At(j, "saving") \/ j \in turns) /\ Kept(j)
      BY <1>1, <1>2, <2>1 DEF At, NumbersInv, TurnsAreUnique
    <3> QED BY <1>1, <2>1, <3>1 DEF StoredIsRemembered, Kept
  <2> QED BY <2>1 DEF StoredIsRemembered
<1>7. AloneIsAlone'
  BY <1>1, <1>3, AloneKept
<1>8. LoneIsNext'
  <2>1. \A j \in Call : Live(j)' => Live(j) /\ (At(j, "asking") => At(j, "asking")')
    BY <1>1, <1>3
  <2> QED BY <1>1, <2>1, NextKept DEF LoneIsNext
<1>9. LoneAnswersAreStored'
  <2> SUFFICES ASSUME NEW j \in Call, At(j, "refused")'
               PROVE  call'[j].conv \in torn' \/ ~call'[j].alone \/ call'[j].number > Window
    BY DEF LoneAnswersAreStored
  <2>1. CASE j # k
    <3>1. At(j, "refused") /\ Kept(j)
      BY <1>1, <2>1 DEF At
    <3> QED BY <1>1, <3>1 DEF LoneAnswersAreStored, Kept
  <2>2. CASE j = k
    <3>1. At(k, "saving") /\ Taken(call[k].conv, call[k].number) /\ Kept(k) /\ Asked(k)
      BY <1>1, <2>2 DEF At
    <3>2. PICK i \in turns : call[i].conv = call[k].conv /\ call[i].number = call[k].number
      BY <3>1 DEF Taken
    <3>3. call[k].number \in Nat
      BY <3>1, CallTyped
    <3>4. ~At(k, "asking")
      BY <3>1 DEF At
    <3>5. call[k].conv \in torn \/ ~call[k].alone \/ ~(call[k].number <= Window)
      BY <1>2, <3>2, <3>3, <3>4 DEF LoneIsNext
    <3> QED BY <1>1, <2>2, <3>1, <3>3, <3>5 DEF Kept
  <2> QED BY <2>1, <2>2
<1> QED BY <1>4, <1>5, <1>6, <1>7, <1>8, <1>9

LEMMA LoneStore ==
  ASSUME TypeOK, NumbersInv, LoneInv, NEW k \in Call, Store(k)
  PROVE  LoneInv'
<1> USE DEF LoneInv
<1>1. /\ Passes(k, "stored") /\ At(k, "saving") /\ At(k, "stored")'
      /\ \A j \in Call : Asked(j) <=> Asked(j)'
      /\ \A j \in Call : Asked(j) => Kept(j)
      /\ \A j \in Call \ {k} : \A p : At(j, p) <=> At(j, p)'
      /\ turns' = turns \cup {k}
      /\ UNCHANGED <<window, order, torn, cut>>
  BY StoreKeeps
<1>2. Live(k) /\ ~At(k, "asking")' /\ ~At(k, "saving")' /\ ~Live(k)' /\ ~At(k, "refused")'
  BY <1>1 DEF At, Live
<1>3. \A j \in Call : Live(j)' => Live(j) /\ j # k
  BY <1>1, <1>2 DEF Live
<1>4. RememberedIsOrdered'
  BY <1>1 DEF RememberedIsOrdered
<1>5. CutIsTorn'
  BY <1>1, CutKept
<1>6. StoredIsRemembered'
  <2>1. ASSUME NEW j \in Call, At(j, "saving")' \/ j \in turns', call'[j].conv \notin torn'
        PROVE  LET s == window'[call'[j].worker][call'[j].conv]
               IN  j \in ToSet(s) \/ Len(s) = Window
    <3>1. (At(j, "saving") \/ j \in turns) /\ Kept(j)
      BY <1>1, <1>2, <2>1 DEF At, NumbersInv, TurnsAreUnique
    <3> QED BY <1>1, <2>1, <3>1 DEF StoredIsRemembered, Kept
  <2> QED BY <2>1 DEF StoredIsRemembered
<1>7. AloneIsAlone'
  BY <1>1, <1>3, AloneKept
<1>8. LoneIsNext'
  <2> SUFFICES ASSUME NEW j \in Call, Live(j)', call'[j].alone, call'[j].conv \notin torn',
                      call'[j].number <= Window
               PROVE  \/ At(j, "asking")' /\ Elsewhere(j)'
                      \/ \A i \in turns' : call'[i].conv = call'[j].conv
                                             => call'[i].number < call'[j].number
    BY DEF LoneIsNext
  <2>1. Live(j) /\ j # k /\ Kept(j) /\ Kept(k) /\ (At(j, "asking") => At(j, "asking")')
    BY <1>1, <1>3 DEF Live, At
  <2>2. call[j].conv # call[k].conv
    BY <1>2, <2>1 DEF AloneIsAlone, Kept
  <2>3. \/ At(j, "asking") /\ Elsewhere(j)
        \/ \A i \in turns : call[i].conv = call[j].conv => call[i].number < call[j].number
    BY <1>1, <2>1 DEF LoneIsNext, Kept
  <2>4. Elsewhere(j) => Elsewhere(j)'
    BY <1>1, <2>1 DEF Elsewhere, Kept
  <2>5. \A i \in turns : Kept(i)
    BY <1>1 DEF NumbersInv, TurnsAreUnique, At, TypeOK
  <2> QED BY <1>1, <2>1, <2>2, <2>3, <2>4, <2>5 DEF Kept
<1>9. LoneAnswersAreStored'
  <2>1. ASSUME NEW j \in Call, At(j, "refused")' PROVE At(j, "refused") /\ Kept(j)
    BY <1>1, <1>2, <2>1 DEF At
  <2> QED BY <1>1, <2>1 DEF LoneAnswersAreStored, Kept
<1> QED BY <1>4, <1>5, <1>6, <1>7, <1>8, <1>9

LEMMA LoneAsk ==
  ASSUME TypeOK, NumbersInv, LoneInv, NEW k \in Call, NEW w \in Worker, NEW c \in Key,
         Ask(k, w, c)
  PROVE  LoneInv'
<1> USE DEF LoneInv
<1>1. /\ ~Asked(k) /\ At(k, "asking")'
      /\ call'[k] = [pc |-> "asking", worker |-> w, conv |-> c,
                     number |-> Len(window[w][c]) + 1, history |-> window[w][c],
                     alone |-> \A j \in Call : Live(j) => call[j].conv # c]
      /\ \A j \in Call \ {k} : \A p : At(j, p) <=> At(j, p)'
      /\ \A j \in Call : Asked(j) => Kept(j)
      /\ \A j \in Call : Live(j) /\ call[j].conv = c => ~call'[j].alone
      /\ UNCHANGED <<turns, window, order, torn, cut>>
  BY AskKeeps
<1>2. /\ call'[k].worker = w /\ call'[k].conv = c /\ call'[k].pc = "asking"
      /\ call'[k].number = Len(window[w][c]) + 1
      /\ call'[k].alone = \A j \in Call : Live(j) => call[j].conv # c
  BY <1>1
<1>3. \A j \in Call \ {k} : Live(j) <=> Live(j)'
  BY <1>1 DEF Live
<1>4. RememberedIsOrdered'
  BY <1>1 DEF RememberedIsOrdered
<1>5. CutIsTorn'
  BY <1>1, CutKept
<1>6. StoredIsRemembered'
  <2>1. ASSUME NEW j \in Call, At(j, "saving")' \/ j \in turns', call'[j].conv \notin torn'
        PROVE  LET s == window'[call'[j].worker][call'[j].conv]
               IN  j \in ToSet(s) \/ Len(s) = Window
    <3>1. j # k
      BY <1>1, <1>2, <2>1 DEF At, NumbersInv, TurnsAreUnique
    <3>2. (At(j, "saving") \/ j \in turns) /\ Kept(j)
      BY <1>1, <2>1, <3>1 DEF At, NumbersInv, TurnsAreUnique
    <3> QED BY <1>1, <2>1, <3>2 DEF StoredIsRemembered, Kept
  <2> QED BY <2>1 DEF StoredIsRemembered
<1>7. AloneIsAlone'
  <2> SUFFICES ASSUME NEW i \in Call, NEW j \in Call, Live(i)', Live(j)', call'[j].alone,
                      call'[i].conv = call'[j].conv
               PROVE  i = j
    BY DEF AloneIsAlone
  <2>1. CASE i # k /\ j # k
    <3>1. Live(i) /\ Live(j) /\ Kept(i) /\ Kept(j)
      BY <1>1, <1>3, <2>1 DEF Live, At
    <3> QED BY <3>1 DEF AloneIsAlone, Kept
  <2>2. CASE i # k /\ j = k
    <3>1. Live(i) /\ Kept(i)
      BY <1>1, <1>3, <2>2 DEF Live, At
    <3> QED BY <1>2, <2>2, <3>1 DEF Kept
  <2>3. CASE i = k /\ j # k
    <3>1. Live(j) /\ Kept(j)
      BY <1>1, <1>3, <2>3 DEF Live, At
    <3> QED BY <1>1, <1>2, <2>3, <3>1 DEF Kept
  <2> QED BY <2>1, <2>2, <2>3
<1>8. LoneIsNext'
  <2> SUFFICES ASSUME NEW j \in Call, Live(j)', call'[j].alone, call'[j].conv \notin torn',
                      call'[j].number <= Window
               PROVE  \/ At(j, "asking")' /\ Elsewhere(j)'
                      \/ \A i \in turns' : call'[i].conv = call'[j].conv
                                             => call'[i].number < call'[j].number
    BY DEF LoneIsNext
  <2>1. CASE j # k
    <3>1. Live(j) /\ (At(j, "asking") => At(j, "asking")')
      BY <1>1, <1>3, <2>1
    <3> QED BY <1>1, <3>1, NextKept
  <2>2. CASE j = k
    <3>1. ASSUME ~Elsewhere(k)', NEW i \in turns', call'[i].conv = c
          PROVE  call'[i].number < call'[k].number
      <4>1. i \in Call /\ i \in turns /\ Asked(i) /\ Kept(i) /\ call[i].conv = c
        BY <1>1, <3>1 DEF NumbersInv, TurnsAreUnique, At, TypeOK, Kept
      <4> DEFINE v == call[i].worker
      <4>2. v \in Worker /\ call[i].number \in Nat /\ Len(window[w][c]) \in 0..Window
        BY <4>1, CallTyped, Remembered
      <4>3. Len(window[w][c]) < Window
        BY <1>2, <2>2, <4>2
      <4>4. i \in ToSet(window[v][c]) \/ Len(window[v][c]) = Window
        BY <1>1, <1>2, <2>2, <4>1 DEF StoredIsRemembered
      <4>5. window[v][c] # <<>>
        BY <4>4, WindowHoldsTurns DEF ToSet
      <4>6. v = w
        BY <1>1, <1>2, <3>1, <4>2, <4>5 DEF Elsewhere
      <4>7. i \in ToSet(window[w][c])
        BY <4>3, <4>4, <4>6
      <4>8. i \notin cut
        BY <1>1, <1>2, <2>2, <4>1 DEF CutIsTorn
      <4>9. call[i].number <= Len(window[w][c])
        BY <4>3, <4>7, <4>8 DEF NumbersInv, WindowCounts
      <4> QED BY <1>2, <4>1, <4>2, <4>9 DEF Kept
    <3> QED BY <1>1, <1>2, <2>2, <3>1
  <2> QED BY <2>1, <2>2
<1>9. LoneAnswersAreStored'
  <2>1. ASSUME NEW j \in Call, At(j, "refused")' PROVE At(j, "refused") /\ Kept(j)
    <3>1. j # k
      BY <1>2, <2>1 DEF At
    <3> QED BY <1>1, <2>1, <3>1 DEF At
  <2> QED BY <1>1, <2>1 DEF LoneAnswersAreStored, Kept
<1> QED BY <1>4, <1>5, <1>6, <1>7, <1>8, <1>9

LEMMA LoneStop ==
  ASSUME TypeOK, NumbersInv, LoneInv, NEW w \in Worker, Stop(w)
  PROVE  LoneInv'
<1> USE DEF LoneInv
<1>1. /\ \A j \in Call : Asked(j) => Kept(j)
      /\ \A j \in Call : \A p \in {"asking", "saving", "stored", "refused"} :
           At(j, p)' => At(j, p) /\ (p \in {"asking", "saving"} => call[j].worker # w)
      /\ window' = [window EXCEPT ![w] = [c \in Key |-> <<>>]]
      /\ order' = [order EXCEPT ![w] = <<>>]
      /\ torn' = torn \cup ToSet(order[w]) /\ turns' = turns /\ cut' = cut
  BY StopKeeps
<1>2. /\ \A c \in Key : window'[w][c] = <<>>
      /\ \A v \in Worker \ {w} : window'[v] = window[v] /\ order'[v] = order[v]
  BY <1>1 DEF TypeOK
<1>3. \A c \in Key \ torn' : window[w][c] = <<>>
  BY <1>1 DEF RememberedIsOrdered
<1>4. \A v \in Worker, c \in Key \ torn' : window'[v][c] = window[v][c]
  BY <1>2, <1>3
<1>5. \A j \in Call : Live(j)' => Live(j)
  BY <1>1 DEF Live
<1>6. RememberedIsOrdered'
  BY <1>1, <1>2 DEF RememberedIsOrdered
<1>7. CutIsTorn'
  BY <1>1, CutKept
<1>8. StoredIsRemembered'
  <2>1. ASSUME NEW j \in Call, At(j, "saving")' \/ j \in turns', call'[j].conv \notin torn'
        PROVE  LET s == window'[call'[j].worker][call'[j].conv]
               IN  j \in ToSet(s) \/ Len(s) = Window
    <3>1. (At(j, "saving") \/ j \in turns) /\ Kept(j) /\ Asked(j)
      BY <1>1, <2>1 DEF At, NumbersInv, TurnsAreUnique
    <3>2. call[j].worker \in Worker /\ call[j].conv \in Key \ torn'
      BY <2>1, <3>1, CallTyped DEF Kept
    <3> QED BY <1>1, <1>4, <3>1, <3>2 DEF StoredIsRemembered, Kept
  <2> QED BY <2>1 DEF StoredIsRemembered
<1>9. AloneIsAlone'
  BY <1>1, <1>5, AloneKept
<1>10. LoneIsNext'
  <2> SUFFICES ASSUME NEW j \in Call, Live(j)', call'[j].alone, call'[j].conv \notin torn',
                      call'[j].number <= Window
               PROVE  \/ At(j, "asking")' /\ Elsewhere(j)'
                      \/ \A i \in turns' : call'[i].conv = call'[j].conv
                                             => call'[i].number < call'[j].number
    BY DEF LoneIsNext
  <2>1. Live(j) /\ Asked(j) /\ Kept(j)
    BY <1>1, <1>5 DEF Live, At
  <2>2. call[j].conv \in Key \ torn'
    BY <2>1, CallTyped DEF Kept
  <2>3. \/ At(j, "asking") /\ Elsewhere(j)
        \/ \A i \in turns : call[i].conv = call[j].conv => call[i].number < call[j].number
    BY <1>1, <2>1, <2>2 DEF LoneIsNext, Kept
  <2>4. Elsewhere(j) => Elsewhere(j)'
    BY <1>4, <2>1, <2>2 DEF Elsewhere, Kept
  <2>5. At(j, "asking") => At(j, "asking")'
    <3>1. At(j, "asking")' \/ At(j, "saving")'
      BY DEF Live
    <3>2. At(j, "saving")' => At(j, "saving")
      BY <1>1
    <3> QED BY <3>1, <3>2 DEF At
  <2>6. \A i \in turns : Kept(i)
    BY <1>1 DEF NumbersInv, TurnsAreUnique, At, TypeOK
  <2> QED BY <1>1, <2>1, <2>3, <2>4, <2>5, <2>6 DEF Kept
<1>11. LoneAnswersAreStored'
  <2>1. ASSUME NEW j \in Call, At(j, "refused")' PROVE At(j, "refused") /\ Kept(j)
    BY <1>1, <2>1 DEF At
  <2> QED BY <1>1, <2>1 DEF LoneAnswersAreStored, Kept
<1> QED BY <1>6, <1>7, <1>8, <1>9, <1>10, <1>11

LEMMA LoneAnswer ==
  ASSUME TypeOK, NumbersInv, LoneInv, NEW k \in Call, Answer(k)
  PROVE  LoneInv'
<1> USE DEF LoneInv
<1>0. PICK w \in Worker, c \in Key, evicted \in SUBSET Key : Answered(k, w, c, evicted)
  BY AnswerKeeps
<1>1. /\ At(k, "asking") /\ call[k].worker = w /\ call[k].conv = c
      /\ \A j \in Call : Asked(j) <=> Asked(j)'
      /\ \A j \in Call : Asked(j) => Kept(j)
      /\ \A j \in Call \ {k} : \A p : At(j, p) <=> At(j, p)'
      /\ window'[w][c] = Recent(Append(window[w][c], k))
      /\ \A d \in Key \ {c} : window'[w][d] = IF d \in evicted THEN <<>> ELSE window[w][d]
      /\ \A v \in Worker \ {w} : window'[v] = window[v] /\ order'[v] = order[v]
      /\ \A d \in ToSet(order[w]) : d \in evicted \cup ToSet(order'[w])
      /\ window[w][c] = <<>> => c \in ToSet(order'[w])
      /\ window[w][c] = <<>> \/ evicted = {}
      /\ torn \subseteq torn' /\ evicted \subseteq torn' /\ turns' = turns
      /\ (\E v \in Worker \ {w} : window[v][c] # <<>>) => c \in torn'
      /\ \A j \in cut' : j \in cut \/ (j \in Call /\ At(j, "asking") /\ call[j].conv \in evicted)
  BY <1>0 DEF Answered
<1>2. ~At(k, "asking")' /\ ~At(k, "stored") /\ ~At(k, "refused")' /\ Live(k) /\ k \notin turns
  BY <1>0 DEF Answered, At, Passes, Live, NumbersInv, TurnsAreUnique
<1>3. \A j \in Call : Live(j)' => Live(j)
  BY <1>1, <1>2 DEF Live
<1>4. /\ k \in ToSet(window'[w][c]) /\ window'[w][c] # <<>>
      /\ Len(window'[w][c]) \in 0..Window /\ Len(window'[w][c]) >= Len(window[w][c])
      /\ Len(window[w][c]) < Window => ToSet(window[w][c]) \subseteq ToSet(window'[w][c])
      /\ Len(window[w][c]) \in 0..Window
  <2> DEFINE s == window[w][c]
             t == Recent(Append(s, k))
  <2>1. s \in Seq(Call) /\ Len(s) <= Window /\ Len(s) \in 0..Window
    BY Remembered DEF TypeOK
  <2> HIDE DEF s
  <2>2. /\ t \in Seq(Call) /\ t # <<>> /\ Len(t) <= Window /\ Len(t) >= Len(s)
        /\ k \in ToSet(t)
        /\ Len(s) < Window => ToSet(t) = ToSet(s) \cup {k}
    BY <2>1, RecentKeeps
  <2>3. window'[w][c] = t
    BY <1>1 DEF s
  <2> HIDE DEF t
  <2>4. Len(t) \in 0..Window
    BY <2>2
  <2> QED BY <2>1, <2>2, <2>3, <2>4 DEF s
\* A window that is not torn keeps what it had, or stays full.
<1>5. ASSUME NEW v \in Worker, NEW d \in Key \ torn', v # w \/ d # c
      PROVE  window'[v][d] = window[v][d]
  BY <1>1, <1>5
<1>6. RememberedIsOrdered'
  <2> SUFFICES ASSUME NEW v \in Worker, NEW d \in Key, window'[v][d] # <<>>
               PROVE  d \in ToSet(order'[v])
    BY DEF RememberedIsOrdered
  <2>1. CASE v # w
    BY <1>1, <2>1 DEF RememberedIsOrdered
  <2>2. CASE v = w /\ d # c
    <3>1. d \notin evicted /\ window[w][d] # <<>>
      BY <1>1, <2>2
    <3> QED BY <1>1, <2>2, <3>1 DEF RememberedIsOrdered
  <2>3. CASE v = w /\ d = c
    <3>1. CASE window[w][c] = <<>>
      BY <1>1, <2>3, <3>1
    <3>2. CASE window[w][c] # <<>>
      BY <1>1, <2>3, <3>2 DEF RememberedIsOrdered
    <3> QED BY <3>1, <3>2
  <2> QED BY <2>1, <2>2, <2>3
<1>7. CutIsTorn'
  <2>1. ASSUME NEW j \in cut' PROVE Asked(j)' /\ call'[j].conv \in torn'
    <3>1. j \in Call /\ Asked(j) /\ call[j].conv \in torn \cup evicted
      BY <1>1, <2>1 DEF CutIsTorn, TypeOK, At
    <3> QED BY <1>1, <3>1 DEF Kept
  <2> QED BY <2>1 DEF CutIsTorn
<1>8. StoredIsRemembered'
  <2>1. ASSUME NEW j \in Call, At(j, "saving")' \/ j \in turns', call'[j].conv \notin torn'
        PROVE  LET s == window'[call'[j].worker][call'[j].conv]
               IN  j \in ToSet(s) \/ Len(s) = Window
    <3>1. CASE j = k
      BY <1>1, <1>4, <3>1 DEF Kept, At
    <3>2. CASE j # k
      <4>0. At(j, "saving") \/ j \in turns
        BY <1>1, <2>1, <3>2
      <4>1. (At(j, "saving") \/ j \in turns) /\ Kept(j) /\ Asked(j)
        BY <1>1, <4>0 DEF At, NumbersInv, TurnsAreUnique
      <4> DEFINE v == call[j].worker
                 d == call[j].conv
      <4>2. v \in Worker /\ d \in Key \ torn' /\ d \notin torn
        BY <1>1, <2>1, <4>1, CallTyped DEF Kept
      <4>3. j \in ToSet(window[v][d]) \/ Len(window[v][d]) = Window
        BY <4>1, <4>2 DEF StoredIsRemembered
      <4>4. call'[j].worker = v /\ call'[j].conv = d
        BY <4>1 DEF Kept
      <4> HIDE DEF v, d
      <4>5. CASE v # w \/ d # c
        <5>1. window'[v][d] = window[v][d]
          BY <1>5, <4>2, <4>5
        <5> QED BY <4>3, <4>4, <5>1
      <4>6. CASE v = w /\ d = c
        <5>1. j \in ToSet(window'[w][c]) \/ Len(window'[w][c]) = Window
          BY <1>4, <4>3, <4>6
        <5> QED BY <4>4, <4>6, <5>1
      <4> QED BY <4>5, <4>6
    <3> QED BY <3>1, <3>2
  <2> QED BY <2>1 DEF StoredIsRemembered
<1>9. AloneIsAlone'
  BY <1>1, <1>3, AloneKept
<1>10. LoneIsNext'
  <2> SUFFICES ASSUME NEW j \in Call, Live(j)', call'[j].alone, call'[j].conv \notin torn',
                      call'[j].number <= Window
               PROVE  \/ At(j, "asking")' /\ Elsewhere(j)'
                      \/ \A i \in turns' : call'[i].conv = call'[j].conv
                                             => call'[i].number < call'[j].number
    BY DEF LoneIsNext
  <2>1. Live(j) /\ Asked(j) /\ Kept(j)
    BY <1>1, <1>3 DEF Live, At
  <2>2. call[j].conv \in Key \ torn'
    BY <2>1, CallTyped DEF Kept
  <2>3. \/ At(j, "asking") /\ Elsewhere(j)
        \/ \A i \in turns : call[i].conv = call[j].conv => call[i].number < call[j].number
    BY <1>1, <2>1, <2>2 DEF LoneIsNext, Kept
  <2>4. \A i \in turns : Kept(i)
    BY <1>1 DEF NumbersInv, TurnsAreUnique, At, TypeOK
  <2>5. CASE \A i \in turns : call[i].conv = call[j].conv => call[i].number < call[j].number
    BY <1>1, <2>1, <2>4, <2>5 DEF Kept
  <2>6. CASE At(j, "asking") /\ Elsewhere(j)
    <3>1. PICK v \in Worker : v # call[j].worker /\ window[v][call[j].conv] # <<>>
      BY <2>6 DEF Elsewhere
    <3>2. j # k
      BY <1>1, <2>2, <3>1
    <3>3. At(j, "asking")'
      BY <1>1, <2>6, <3>2
    <3>4. window'[v][call[j].conv] # <<>>
      BY <1>4, <1>5, <2>2, <3>1
    <3>5. Elsewhere(j)'
      BY <2>1, <3>1, <3>4 DEF Elsewhere, Kept
    <3> QED BY <3>3, <3>5
  <2> QED BY <2>3, <2>5, <2>6
<1>11. LoneAnswersAreStored'
  <2>1. ASSUME NEW j \in Call, At(j, "refused")' PROVE At(j, "refused") /\ Kept(j)
    <3>1. j # k
      BY <1>2, <2>1
    <3> QED BY <1>1, <2>1, <3>1 DEF At
  <2> QED BY <1>1, <2>1 DEF LoneAnswersAreStored, Kept
<1> QED BY <1>6, <1>7, <1>8, <1>9, <1>10, <1>11

\* While one worker answers, its window is not full and the requests do not
\* overlap, no answer loses its place in the table, whatever else happens.
THEOREM LoneAnswersStayStored == Spec => []LoneAnswersAreStored
<1>1. Init => LoneInv
  BY DEF Init, LoneInv, RememberedIsOrdered, CutIsTorn, StoredIsRemembered, AloneIsAlone,
         LoneIsNext, LoneAnswersAreStored, Asked, At, Live, Elsewhere
<1>2. ASSUME TypeOK, NumbersInv, LoneInv, [Next]_vars PROVE LoneInv'
  <2>1. CASE RowStep \/ UNCHANGED vars
    <3>1. UNCHANGED <<turns, call, window, order, torn, cut>>
      BY <2>1, RowStepKeeps DEF talk
    <3> QED BY <1>2, <3>1
           DEF LoneInv, RememberedIsOrdered, CutIsTorn, StoredIsRemembered, AloneIsAlone,
               LoneIsNext, LoneAnswersAreStored, Asked, At, Live, Elsewhere, ToSet
  <2> QED BY <1>2, <2>1, Steps, LoneDrop, LoneStore, LoneAsk, LoneStop, LoneAnswer
<1>3. LoneInv => LoneAnswersAreStored
  BY DEF LoneInv
<1> QED BY <1>1, <1>2, <1>3, TypeCorrect, NumbersCorrect, PTL DEF Spec

-----------------------------------------------------------------------------
\* What a batch has updated and not committed, when one batch changes.
LEMMA LockedAfter ==
  ASSUME TypeOK, NEW w \in Scheduled, NEW b, b.marked \subseteq Conversation,
         batch' = [batch EXCEPT ![w] = b]
  PROVE  /\ batch'[w] = b /\ \A v \in Scheduled \ {w} : batch'[v] = batch[v]
         /\ Locked' \cup batch[w].marked = Locked \cup b.marked \cup batch[w].marked
         /\ b.marked \subseteq Locked' /\ Locked \ batch[w].marked \subseteq Locked'
<1>1. batch'[w] = b /\ \A v \in Scheduled \ {w} : batch'[v] = batch[v]
  BY DEF TypeOK
<1>2. \A c : c \in Locked <=> \E v \in Scheduled : c \in batch[v].marked
  BY DEF Locked
<1>3. \A c : c \in Locked' <=> \E v \in Scheduled : c \in batch'[v].marked
  BY DEF Locked
<1>4. \A c : c \in Locked => c \in batch[w].marked \/ c \in Locked'
  BY <1>1, <1>2, <1>3
<1>5. \A c : c \in Locked' => c \in b.marked \/ c \in Locked
  BY <1>1, <1>2, <1>3
<1>6. \A c : c \in b.marked => c \in Locked'
  BY <1>1, <1>3
<1>7. \A c : c \in batch[w].marked => c \in Locked
  BY <1>2
<1> QED BY <1>1, <1>4, <1>5, <1>6, <1>7

LEMMA AuditRow ==
  ASSUME TypeOK, AuditInv, RowStep
  PROVE  AuditInv'
<1>1. ASSUME NEW c \in Conversation,
             Create(c) \/ SoftDelete(c) \/ FallDue(c)
               \/ \E s \in {"active", "archived"} : Update(c, s)
      PROVE AuditInv'
  <2>1. UNCHANGED <<batch, owed, faults>>
    BY <1>1 DEF Create, SoftDelete, FallDue, Update
  <2> QED BY <2>1 DEF AuditInv, Locked
<1>2. ASSUME NEW w \in Scheduled, MarkFails(w) \/ CommitFails(w)
      PROVE  AuditInv'
  <2>1. faults' # 0
    BY <1>2 DEF MarkFails, CommitFails, Fault, TypeOK
  <2> QED BY <2>1 DEF AuditInv
<1>3. ASSUME NEW w \in Scheduled, Batch(w)
      PROVE  AuditInv'
  <2> SUFFICES ASSUME faults = 0
               PROVE  owed' \subseteq Locked' /\ \A v \in Scheduled : ~batch'[v].dead
    <3>1. faults' = faults
      BY <1>3 DEF Batch, List, Mark, Commit
    <3> QED BY <3>1 DEF AuditInv
  <2>0. batch[w] \in Batches /\ batch[w].marked \subseteq Conversation
    BY DEF TypeOK, Batches
  <2>1. owed \subseteq Locked /\ \A v \in Scheduled : ~batch[v].dead
    BY DEF AuditInv
  <2>2. CASE List(w)
    <3>1. PICK first :
            batch' = [batch EXCEPT ![w].step = "marking", ![w].list = first]
      BY <2>2 DEF List
    <3> DEFINE b == [batch[w] EXCEPT !.step = "marking", !.list = first]
    <3>2. b.marked = batch[w].marked /\ b.dead = batch[w].dead
      BY <2>0 DEF Batches
    <3>3. batch' = [batch EXCEPT ![w] = b]
      BY <3>1 DEF TypeOK
    <3> HIDE DEF b
    <3>4. Locked \subseteq Locked' /\ \A v \in Scheduled : ~batch'[v].dead
      BY <2>0, <2>1, <3>2, <3>3, LockedAfter, ZenonT(40)
    <3> QED BY <2>1, <2>2, <3>4 DEF List
  <2>3. CASE Mark(w)
    <3>1. PICK c \in batch[w].list :
            /\ batch' = [batch EXCEPT ![w].list = @ \ {c},
                           ![w].marked = IF Markable(c) THEN @ \cup {c} ELSE @]
            /\ owed' = IF Markable(c) THEN owed \cup {c} ELSE owed
      BY <2>3 DEF Mark
    <3> DEFINE more == IF Markable(c) THEN {c} ELSE {}
               b == [batch[w] EXCEPT !.list = @ \ {c},
                                     !.marked = IF Markable(c) THEN @ \cup {c} ELSE @]
    <3>2. b.marked = batch[w].marked \cup more /\ b.dead = batch[w].dead
      BY <2>0 DEF Batches
    <3>3. batch' = [batch EXCEPT ![w] = b]
      BY <3>1 DEF TypeOK
    <3>4. b.marked \subseteq Conversation
      BY <2>0, <3>2 DEF Batches
    <3>5. owed' = owed \cup more
      BY <3>1
    <3> HIDE DEF b, more
    <3>6. Locked \cup more \subseteq Locked' /\ \A v \in Scheduled : ~batch'[v].dead
      BY <2>1, <3>2, <3>3, <3>4, LockedAfter, ZenonT(40)
    <3> QED BY <2>1, <3>5, <3>6
  <2>4. CASE Commit(w)
    <3>1. batch' = [batch EXCEPT ![w] = Idle] /\ owed' = owed \ batch[w].marked
      BY <2>1, <2>4 DEF Commit
    <3>2. PICK b : b = Idle
      OBVIOUS
    <3>3. b.marked = {} /\ ~b.dead
      BY <3>2 DEF Idle
    <3>4. b.marked \subseteq Conversation /\ batch' = [batch EXCEPT ![w] = b]
      BY <3>1, <3>2, <3>3
    <3>5. /\ batch'[w] = b /\ \A v \in Scheduled \ {w} : batch'[v] = batch[v]
          /\ Locked \ batch[w].marked \subseteq Locked'
      BY <2>1, <3>4, LockedAfter
    <3>6. \A v \in Scheduled : ~batch'[v].dead
      BY <2>1, <3>3, <3>5
    <3> QED BY <2>1, <3>1, <3>5, <3>6
  <2> QED BY <1>3, <2>2, <2>3, <2>4 DEF Batch
<1> QED BY <1>1, <1>2, <1>3 DEF RowStep

\* Unless something failed, what the audit calls expired is in the transaction
\* of a batch, or was expired by its commit: for any number of batches.
THEOREM AuditTellsTheTruth == Spec => []AuditedIsExpired
<1>1. Init => AuditInv
  BY DEF Init, AuditInv, Idle
<1>2. ASSUME TypeOK, AuditInv, [Next]_vars PROVE AuditInv'
  <2>1. CASE UNCHANGED vars
    BY <1>2, <2>1 DEF vars, AuditInv, Locked
  <2>2. ASSUME NEW k \in Call, Drop(k) \/ Store(k) \/ Answer(k)
        PROVE  AuditInv'
    <3>1. UNCHANGED <<batch, owed>> /\ (faults' = 0 => faults = 0)
      <4>1. faults \in Nat
        BY <1>2 DEF TypeOK
      <4>2. CASE SaveFails(k)
        BY <4>1, <4>2 DEF SaveFails, Fault
      <4>3. CASE Save(k)
        BY <4>3 DEF Save
      <4>4. CASE Answer(k)
        BY <4>4 DEF Answer
      <4>5. CASE AnswerFails(k)
        BY <4>5 DEF AnswerFails
      <4> QED BY <2>2, <4>2, <4>3, <4>4, <4>5 DEF Drop, Store
    <3> QED BY <1>2, <3>1 DEF AuditInv, Locked
  <2>3. ASSUME NEW k \in Call, NEW w \in Worker, NEW c \in Key, Ask(k, w, c)
        PROVE  AuditInv'
    <3>1. UNCHANGED <<batch, owed, faults>>
      BY <2>3 DEF Ask
    <3> QED BY <1>2, <3>1 DEF AuditInv, Locked
  <2>4. ASSUME NEW w \in Worker, Stop(w) PROVE AuditInv'
    <3>1. faults' # 0
      BY <1>2, <2>4 DEF Stop, Fault, TypeOK
    <3> QED BY <3>1 DEF AuditInv
  <2> QED BY <1>2, <2>1, <2>2, <2>3, <2>4, Steps, AuditRow
<1>3. AuditInv => AuditedIsExpired
  BY DEF AuditInv, AuditedIsExpired
<1> QED BY <1>1, <1>2, <1>3, TypeCorrect, PTL DEF Spec
=============================================================================
