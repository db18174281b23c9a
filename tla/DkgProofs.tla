----------------------------- MODULE DkgProofs -----------------------------
(***************************************************************************)
(* All members that complete a session id agree, for any number of members,*)
(* rounds and attempts, and whatever is lost.  Suppose n and m finish with *)
(* different views.  Each accepted an echo of the other, made in an        *)
(* earlier attempt than the one the other finished in.  So n's last        *)
(* attempt had begun when m's earlier one read round 1, hence before m's   *)
(* last one; and the same holds the other way round.                       *)
(***************************************************************************)
EXTENDS Dkg, TLAPS

(* Round-1 tags name attempts that have begun. *)
TagsBegun ==
    \A n, m \in Node : buf[n][1][m] <= attempt[m]

(* A view is of an attempt that has begun, counts that attempt as its own,
   and uses messages of attempts that have begun. *)
ViewsBegun ==
    \A n \in Node : \A k \in Attempts : view[n][k] # None =>
       /\ k <= attempt[n]
       /\ view[n][k][n] = k
       /\ \A m \in Node : view[n][k][m] <= attempt[m]

(* A node past round 1 has a view of its current attempt; one in round 1 has
   none yet. *)
InSession ==
    \A n \in Node :
       /\ round[n] >= 1 => attempt[n] \in Attempts
       /\ round[n] >= 2 => Current(n) # None
       /\ pending[n] # {} => round[n] \in 1..LastRound
       /\ round[n] = 1 => Current(n) = None

(* A buffered echo is the view of the attempt it names for its sender. *)
EchoesReal ==
    \A n, m \in Node : echo[n][m] # None =>
       view[m][echo[n][m][m]] = echo[n][m]

(* Two attempts cannot each have used a later attempt of the other. *)
NoCrossing ==
    \A n, m \in Node : \A k, l \in Attempts :
       view[n][k] # None /\ view[m][l] # None /\ view[n][k][m] > l => view[m][l][n] <= k

(* A finished node knew an echo of its view by every member. *)
DoneEchoed ==
    \A n, m \in Node : Done(n) => view[m][Current(n)[m]] = Current(n)

DInv == TypeOK /\ TagsBegun /\ ViewsBegun /\ InSession /\ EchoesReal /\ NoCrossing /\ DoneEchoed

(* The invariant holds before anything has begun. *)
LEMMA DInvInit == Init => DInv
<1> SUFFICES ASSUME Init PROVE DInv
  OBVIOUS
<1> USE RoundAssumption DEF Init, NoTags, NoEchoes, Attempts
<1>1. TypeOK
  BY DEF TypeOK, View, Tags, Echoes, Views
<1>2. TagsBegun /\ ViewsBegun /\ InSession /\ EchoesReal /\ NoCrossing /\ DoneEchoed
  BY DEF TagsBegun, ViewsBegun, InSession, EchoesReal, NoCrossing, DoneEchoed, Done
<1> QED
  BY <1>1, <1>2 DEF DInv

(* What a node that ends round 1 has seen is a view of attempts that have
   begun, its own one included. *)
LEMMA SeenIsView ==
    ASSUME DInv, NEW n \in Node, Advance(n), round[n] = 1
    PROVE  /\ attempt[n] \in Attempts /\ Seen(n) \in View /\ Seen(n) # None
           /\ Seen(n)[n] = attempt[n]
           /\ \A m \in Node : Seen(n)[m] <= attempt[m]
<1> USE RoundAssumption DEF DInv, TypeOK
<1>1. attempt[n] \in Attempts
  BY DEF InSession
<1>2. buf[n][1] \in [Node -> 0..MaxAttempts]
  BY DEF Tags
<1>3. \A m \in Node \ {n} : buf[n][1][m] # 0
  BY DEF Advance, Barrier, Peers
<1>4. Seen(n) \in View
  BY <1>1, <1>2, <1>3 DEF Seen, View, Attempts
<1>5. \A m \in Node : Seen(n)[m] <= attempt[m]
  BY DEF Seen, TagsBegun
<1> QED
  BY <1>1, <1>4, <1>5, NoneAssumption DEF Seen

(* Every step keeps the types. *)
LEMMA DTypeNext == DInv /\ [Next]_vars => TypeOK'
<1> SUFFICES ASSUME DInv, [Next]_vars PROVE TypeOK'
  OBVIOUS
<1> USE RoundAssumption DEF DInv, TypeOK, Peers
<1>0. NoTags \in Tags /\ NoEchoes \in Echoes
  BY DEF NoTags, NoEchoes, Tags, Echoes
<1>1. ASSUME NEW n \in Node, Start(n) PROVE TypeOK'
  BY <1>1 DEF Start
<1>2. ASSUME NEW n \in Node, NEW m \in Node, Send(n, m) PROVE TypeOK'
  <2>1. round[n] \in 1..LastRound /\ attempt[n] \in Attempts
    BY <1>2 DEF Send, InSession
  <2>2. Current(n) \in View \cup {None}
    BY <2>1 DEF Current, Views
  <2>3. CASE round[n] < LastRound
    <3>1. [buf[m] EXCEPT ![round[n]][n] = attempt[n]] \in Tags
      <4>1. round[n] \in 1..(LastRound - 1) /\ attempt[n] \in 0..MaxAttempts /\ buf[m] \in Tags
        BY <2>1, <2>3
      <4>2. [buf[m][round[n]] EXCEPT ![n] = attempt[n]] \in [Node -> 0..MaxAttempts]
        BY <4>1, Zenon DEF Tags
      <4> QED
        BY <4>1, <4>2, Zenon DEF Tags
    <3>2. buf' = [buf EXCEPT ![m] = [buf[m] EXCEPT ![round[n]][n] = attempt[n]]]
      BY <1>2, <2>3 DEF Send
    <3>3. buf' \in [Node -> Tags]
      BY <3>1, <3>2
    <3> QED
      BY <1>2, <2>3, <3>3 DEF Send
  <2>4. CASE ~(round[n] < LastRound)
    <3>1. [echo[m] EXCEPT ![n] = Current(n)] \in Echoes
      BY <2>2 DEF Echoes
    <3>2. echo' \in [Node -> Echoes]
      BY <1>2, <2>4, <3>1, Zenon DEF Send
    <3> QED
      BY <1>2, <2>4, <3>2 DEF Send
  <2> QED
    BY <2>3, <2>4
<1>3. ASSUME NEW n \in Node, NEW m \in Node, SendFails(n, m) PROVE TypeOK'
  BY <1>3 DEF SendFails
<1>4. ASSUME NEW n \in Node, Advance(n) PROVE TypeOK'
  <2>1. round[n] \in 1..(LastRound - 1) /\ attempt[n] \in Attempts
    BY <1>4 DEF Advance, Barrier, Awaiting, InSession
  <2>2. ASSUME round[n] = 1 PROVE Seen(n) \in View
    BY <1>4, <2>2, SeenIsView
  <2>3. view' \in [Node -> Views]
    <3>1. ASSUME round[n] = 1 PROVE [view[n] EXCEPT ![attempt[n]] = Seen(n)] \in Views
      BY <2>1, <2>2, <3>1 DEF Views
    <3> QED
      BY <1>4, <3>1 DEF Advance
  <2> QED
    BY <1>4, <2>1, <2>3 DEF Advance
<1>5. ASSUME NEW n \in Node, Finish(n) PROVE TypeOK'
  BY <1>0, <1>5 DEF Finish
<1>6. ASSUME NEW n \in Node, Reject(n) \/ TimeOut(n) PROVE TypeOK'
  BY <1>6 DEF Reject, TimeOut
<1>7. ASSUME NEW n \in Node, Crash(n) PROVE TypeOK'
  BY <1>0, <1>7 DEF Crash
<1>8. CASE UNCHANGED vars
  BY <1>8 DEF vars
<1> QED
  BY <1>1, <1>2, <1>3, <1>4, <1>5, <1>6, <1>7, <1>8 DEF Next

(* Attempt numbers only grow, and a view once fixed stays.  It is fixed by the
   node's current attempt, from what it has seen, when every attempt seen has
   begun. *)
LEMMA ViewsGrow ==
    ASSUME DInv, [Next]_vars
    PROVE  /\ \A n \in Node : attempt[n] <= attempt'[n]
           /\ \A n \in Node : \A k \in Attempts :
                 \/ view'[n][k] = view[n][k]
                 \/ /\ view[n][k] = None /\ k = attempt[n] /\ attempt' = attempt
                    /\ view'[n][k] \in View /\ view'[n][k][n] = k
                    /\ \A m \in Node : view'[n][k][m] <= attempt[m]
<1> USE RoundAssumption DEF DInv, TypeOK
<1>1. CASE \E n \in Node : Advance(n) /\ round[n] = 1
  <2> PICK n \in Node : Advance(n) /\ round[n] = 1
    BY <1>1
  <2>1. attempt' = attempt /\ attempt[n] \in Attempts /\ view[n][attempt[n]] = None
    BY DEF Advance, InSession, Current
  <2>2. view' = [view EXCEPT ![n][attempt[n]] = Seen(n)]
    BY DEF Advance
  <2>3. view' \in [Node -> Views]
    BY DTypeNext
  <2>4. view'[n] = [view[n] EXCEPT ![attempt[n]] = Seen(n)] /\ \A m \in Node \ {n} : view'[m] = view[m]
    BY <2>2
  <2>5. view'[n][attempt[n]] = Seen(n) /\ \A k \in Attempts \ {attempt[n]} : view'[n][k] = view[n][k]
    BY <2>1, <2>4 DEF Views
  <2>6. Seen(n) \in View /\ Seen(n)[n] = attempt[n] /\ \A m \in Node : Seen(n)[m] <= attempt[m]
    BY SeenIsView
  <2>7. \A m \in Node : attempt[m] <= attempt'[m]
    BY <2>1
  <2>8. ASSUME NEW m \in Node, NEW k \in Attempts, view'[m][k] # view[m][k] PROVE m = n /\ k = attempt[n]
    BY <2>4, <2>5, <2>8, Zenon
  <2> QED
    BY <2>1, <2>5, <2>6, <2>8, <2>7
<1>2. CASE ~\E n \in Node : Advance(n) /\ round[n] = 1
  <2>1. view' = view
    BY <1>2, ZenonT(30) DEF Next, vars, Start, Send, SendFails, Advance, Finish, Reject, TimeOut, Crash
  <2>2. ASSUME NEW n \in Node PROVE attempt[n] <= attempt'[n]
    <3>1. CASE \E m \in Node : Start(m)
      BY <3>1 DEF Start
    <3>2. CASE attempt' = attempt
      BY <3>2
    <3> QED
      BY <3>1, <3>2, ZenonT(30) DEF Next, vars, Send, SendFails, Advance, Finish, Reject, TimeOut, Crash
  <2> QED
    BY <2>1, <2>2
<1> QED
  BY <1>1, <1>2

(* What the views say stays true: of whom they are, and that no two cross. *)
LEMMA ViewsNext == DInv /\ [Next]_vars => ViewsBegun' /\ NoCrossing'
<1> SUFFICES ASSUME DInv, [Next]_vars PROVE ViewsBegun' /\ NoCrossing'
  OBVIOUS
<1> USE RoundAssumption, ViewsGrow
<1>0. TypeOK /\ TypeOK' /\ ViewsBegun /\ NoCrossing
  BY DTypeNext DEF DInv
<1>1. ViewsBegun'
  <2> SUFFICES ASSUME NEW n \in Node, NEW k \in Attempts, view'[n][k] # None, NEW m \in Node
               PROVE  k <= attempt'[n] /\ view'[n][k][n] = k /\ view'[n][k][m] <= attempt'[m]
    BY DEF ViewsBegun
  <2>1. view'[n][k] \in View
    BY <1>0 DEF TypeOK, Views
  <2>2. view'[n][k][m] \in Nat /\ attempt[m] \in Nat /\ attempt'[m] \in Nat /\ attempt[n] \in Nat /\ attempt'[n] \in Nat
    BY <1>0, <2>1 DEF TypeOK, View, Attempts
  <2>3. CASE view'[n][k] = view[n][k]
    BY <1>0, <2>2, <2>3 DEF ViewsBegun, Attempts
  <2>4. CASE view'[n][k] # view[n][k]
    BY <2>2, <2>4 DEF Attempts
  <2> QED
    BY <2>3, <2>4
<1>2. NoCrossing'
  <2> SUFFICES ASSUME NEW n \in Node, NEW m \in Node, NEW k \in Attempts, NEW l \in Attempts,
                      view'[n][k] # None, view'[m][l] # None, view'[n][k][m] > l
               PROVE  view'[m][l][n] <= k
    BY DEF NoCrossing
  <2>1. view'[n][k] \in View /\ view'[m][l] \in View
    BY <1>0 DEF TypeOK, Views
  <2>2. view'[n][k][m] \in Nat /\ view'[m][l][n] \in Nat /\ k \in Nat /\ l \in Nat
    BY <2>1 DEF View, Attempts
  <2>3. view'[n][k][m] <= attempt'[m] /\ view'[m][l][n] <= attempt'[n]
    BY <1>1 DEF ViewsBegun
  <2>4. CASE view'[m][l] # view[m][l]
    BY <2>2, <2>3, <2>4
  <2>5. CASE view'[n][k] # view[n][k]
    BY <2>2, <2>3, <2>5
  <2>6. CASE view'[m][l] = view[m][l] /\ view'[n][k] = view[n][k]
    BY <1>0, <2>6 DEF NoCrossing
  <2> QED
    BY <2>4, <2>5, <2>6
<1> QED
  BY <1>1, <1>2

(* The buffers stay true: of attempts that have begun, and of real views. *)
LEMMA BuffersNext == DInv /\ [Next]_vars => TagsBegun' /\ EchoesReal'
<1> SUFFICES ASSUME DInv, [Next]_vars PROVE TagsBegun' /\ EchoesReal'
  OBVIOUS
<1> USE RoundAssumption, ViewsGrow
<1>0. TypeOK /\ TypeOK' /\ ViewsBegun /\ InSession /\ TagsBegun /\ EchoesReal
  BY DTypeNext DEF DInv
<1>1. ASSUME NEW n \in Node, NEW m \in Node PROVE buf'[n][1][m] <= attempt'[m]
  <2>1. buf[n][1][m] \in Nat /\ attempt[m] \in Nat /\ attempt'[m] \in Nat
    <3>1. buf[n] \in Tags /\ attempt[m] \in 0..MaxAttempts /\ attempt'[m] \in 0..MaxAttempts
      BY <1>0 DEF TypeOK
    <3>2. buf[n][1] \in [Node -> 0..MaxAttempts]
      BY <3>1 DEF Tags
    <3> QED
      BY <3>1, <3>2
  <2>2. CASE buf'[n][1][m] = buf[n][1][m]
    BY <1>0, <2>1, <2>2 DEF TagsBegun
  <2>3. CASE buf' = [buf EXCEPT ![n] = NoTags]
    BY <1>0, <2>1, <2>3 DEF TypeOK, NoTags
  <2>4. ASSUME NEW x \in Node, NEW y \in Node, Send(x, y), round[x] < LastRound
        PROVE  buf'[n][1][m] \in {buf[n][1][m], attempt'[m]}
    <3>1. buf' = [buf EXCEPT ![y][round[x]][x] = attempt[x]] /\ attempt' = attempt
      BY <2>4 DEF Send
    <3>2. round[x] \in 1..(LastRound - 1)
      BY <1>0, <2>4 DEF Send, InSession, TypeOK
    <3>3. buf[y] \in [1..(LastRound - 1) -> [Node -> 0..MaxAttempts]]
      BY <1>0, Zenon DEF TypeOK, Tags
    <3>4. buf'[y] = [buf[y] EXCEPT ![round[x]][x] = attempt[x]] /\ (n # y => buf'[n] = buf[n])
      BY <1>0, <3>1 DEF TypeOK
    <3> QED
      BY <3>1, <3>2, <3>3, <3>4
  <2>5. CASE \E x \in Node, y \in Node : Send(x, y) /\ round[x] < LastRound
    BY <2>1, <2>2, <2>4, <2>5
  <2>6. CASE \E x \in Node : Finish(x) \/ Crash(x)
    BY <1>0, <2>2, <2>3, <2>6 DEF Finish, Crash, TypeOK
  <2>7. CASE buf' = buf
    BY <2>2, <2>7
  <2> QED
    BY <2>5, <2>6, <2>7, ZenonT(60) DEF Next, vars, Start, Send, SendFails, Advance, Reject, TimeOut
<1>2. ASSUME NEW n \in Node, NEW m \in Node, echo'[n][m] # None
      PROVE  view'[m][echo'[n][m][m]] = echo'[n][m]
  <2>1. CASE echo'[n][m] = echo[n][m]
    <3>1. echo[n][m] \in View
      BY <1>0, <1>2, <2>1 DEF TypeOK, Echoes
    <3>2. echo[n][m][m] \in Attempts /\ view[m][echo[n][m][m]] = echo[n][m]
      BY <1>0, <1>2, <2>1, <3>1 DEF EchoesReal, View
    <3> QED
      BY <1>2, <2>1, <3>2
  <2>2. ASSUME NEW y \in Node, Send(m, y), ~(round[m] < LastRound), echo'[n][m] # echo[n][m]
        PROVE  view'[m][echo'[n][m][m]] = echo'[n][m]
    <3>1. round[m] >= 2 /\ attempt[m] \in Attempts
      BY <1>0, <2>2 DEF Send, InSession, TypeOK
    <3>2. echo' = [echo EXCEPT ![y][m] = Current(m)] /\ view' = view
      BY <2>2 DEF Send
    <3>3. echo'[n][m] = view[m][attempt[m]]
      BY <1>0, <2>2, <3>2 DEF TypeOK, Echoes, Current
    <3>4. view[m][attempt[m]][m] = attempt[m]
      BY <1>0, <1>2, <3>1, <3>3 DEF ViewsBegun
    <3> QED
      BY <3>2, <3>3, <3>4
  <2>3. ASSUME echo'[n][m] # echo[n][m], NEW x \in Node, NEW y \in Node, Send(x, y)
        PROVE  x = m /\ ~(round[m] < LastRound)
    <3>1. ~(round[x] < LastRound)
      BY <2>3 DEF Send
    <3>2. echo' = [echo EXCEPT ![y][x] = Current(x)]
      BY <2>3, <3>1 DEF Send
    <3>3. echo \in [Node -> Echoes]
      BY <1>0 DEF TypeOK
    <3>4. x = m
      BY <2>3, <3>2, <3>3 DEF Echoes
    <3> QED
      BY <3>1, <3>4
  <2>4. ASSUME NEW x \in Node, Finish(x) \/ Crash(x) PROVE echo'[n][m] = echo[n][m]
    BY <1>0, <1>2, <2>4 DEF Finish, Crash, TypeOK, NoEchoes
  <2>5. echo' = echo \/ (\E x \in Node : Finish(x) \/ Crash(x)) \/ \E x, y \in Node : Send(x, y)
    BY DEF Next, vars, Start, SendFails, Advance, Reject, TimeOut
  <2> QED
    BY <2>1, <2>2, <2>3, <2>4, <2>5
<1> QED
  BY <1>1, <1>2 DEF TagsBegun, EchoesReal

(* A node past round 1 has the view of its current attempt, and no other. *)
LEMMA SessionNext == DInv /\ [Next]_vars => InSession'
<1> SUFFICES ASSUME DInv, [Next]_vars, NEW x \in Node
             PROVE  /\ round'[x] >= 1 => attempt'[x] \in Attempts
                    /\ round'[x] >= 2 => view'[x][attempt'[x]] # None
                    /\ pending'[x] # {} => round'[x] \in 1..LastRound
                    /\ round'[x] = 1 => view'[x][attempt'[x]] = None
  BY DEF InSession, Current
<1> USE RoundAssumption
<1>0. TypeOK /\ TypeOK' /\ ViewsBegun /\ ViewsBegun' /\ InSession
  BY DTypeNext, ViewsNext DEF DInv
<1>i. /\ round[x] >= 1 => attempt[x] \in Attempts
      /\ round[x] >= 2 => view[x][attempt[x]] # None
      /\ pending[x] # {} => round[x] \in 1..LastRound
      /\ round[x] = 1 => view[x][attempt[x]] = None
      /\ round[x] \in 0..(LastRound + 1) /\ attempt[x] \in 0..MaxAttempts
  BY <1>0 DEF InSession, Current, TypeOK
<1>1. CASE \E n \in Node : Start(n)
  <2> PICK n \in Node : Start(n)
    BY <1>1
  <2>1. CASE n = x
    <3>1. attempt'[x] = attempt[x] + 1 /\ round'[x] = 1 /\ view' = view /\ attempt[x] < MaxAttempts
      BY <1>0, <2>1 DEF Start, TypeOK
    <3>2. attempt'[x] \in Attempts
      BY <1>i, <3>1 DEF Attempts
    <3>3. view[x][attempt[x] + 1] = None
      BY <1>0, <1>i, <3>1, <3>2 DEF ViewsBegun
    <3> QED
      BY <3>1, <3>2, <3>3
  <2>2. CASE n # x
    BY <1>0, <1>i, <2>2 DEF Start, TypeOK
  <2> QED
    BY <2>1, <2>2
<1>2. CASE \E n \in Node : Advance(n)
  <2> PICK n \in Node : Advance(n)
    BY <1>2
  <2>1. round[n] \in 1..(LastRound - 1) /\ attempt' = attempt
    BY <1>0 DEF Advance, Barrier, Awaiting, TypeOK
  <2>2. CASE n = x
    <3>1. round'[x] = round[x] + 1 /\ attempt[x] \in Attempts
      BY <1>0, <1>i, <2>1, <2>2 DEF Advance, TypeOK
    <3>2. CASE round[x] = 1
      <4>1. view' = [view EXCEPT ![x][attempt[x]] = Seen(x)]
        BY <2>2, <3>2 DEF Advance
      <4>2. view'[x][attempt[x]] = Seen(x)
        BY <1>0, <3>1, <4>1 DEF TypeOK, Views
      <4>3. view'[x][attempt[x]] \in View \cup {None}
        BY <1>0, <3>1 DEF TypeOK, Views
      <4>4. Seen(x) # None
        BY <2>2, <3>2, SeenIsView
      <4> QED
        BY <2>1, <2>2, <3>1, <3>2, <4>2, <4>4
    <3>3. CASE round[x] # 1
      BY <1>i, <2>1, <2>2, <3>1, <3>3 DEF Advance
    <3> QED
      BY <3>2, <3>3
  <2>3. CASE n # x
    <3>1. round'[x] = round[x] /\ pending'[x] = pending[x] /\ view'[x] = view[x]
      BY <1>0, <2>3 DEF Advance, TypeOK
    <3> QED
      BY <1>i, <2>1, <3>1
  <2> QED
    BY <2>2, <2>3
<1>3. CASE \E n \in Node : Finish(n) \/ Reject(n) \/ TimeOut(n) \/ Crash(n)
  <2> PICK n \in Node : Finish(n) \/ Reject(n) \/ TimeOut(n) \/ Crash(n)
    BY <1>3
  <2>1. attempt' = attempt /\ view' = view
    BY DEF Finish, Reject, TimeOut, Crash
  <2>2. CASE n # x
    BY <1>0, <1>i, <2>1, <2>2 DEF Finish, Reject, TimeOut, Crash, TypeOK
  <2>3. CASE n = x
    BY <1>0, <1>i, <2>1, <2>3 DEF Finish, Reject, TimeOut, Crash, Barrier, Awaiting, TypeOK
  <2> QED
    BY <2>2, <2>3
<1>4. CASE \E n, m \in Node : Send(n, m) \/ SendFails(n, m)
  BY <1>0, <1>i, <1>4 DEF Send, SendFails, TypeOK
<1>5. CASE UNCHANGED vars
  BY <1>i, <1>5 DEF vars
<1> QED
  BY <1>1, <1>2, <1>3, <1>4, <1>5 DEF Next

(* A node's round and attempt change only in its own actions. *)
LEMMA OwnSteps ==
    ASSUME DInv, [Next]_vars, NEW n \in Node
    PROVE  \/ round'[n] = round[n] /\ attempt'[n] = attempt[n]
           \/ Start(n) \/ Advance(n) \/ Finish(n) \/ Reject(n) \/ TimeOut(n) \/ Crash(n)
<1>0. round \in [Node -> 0..(LastRound + 1)] /\ attempt \in [Node -> 0..MaxAttempts]
  BY DEF DInv, TypeOK
<1>1. CASE \E m \in Node : m # n /\ (Start(m) \/ Advance(m) \/ Finish(m) \/ Reject(m) \/ TimeOut(m) \/ Crash(m))
  BY <1>0, <1>1 DEF Start, Advance, Finish, Reject, TimeOut, Crash
<1>2. CASE \E m, x \in Node : Send(m, x) \/ SendFails(m, x)
  BY <1>2 DEF Send, SendFails
<1>3. CASE UNCHANGED vars
  BY <1>3 DEF vars
<1> QED
  BY <1>1, <1>2, <1>3 DEF Next

(* A finished node stays finished, with its view; a node finishes only by
   Finish. *)
LEMMA DoneStays ==
    ASSUME DInv, [Next]_vars, NEW n \in Node
    PROVE  /\ Done(n) => Done(n)' /\ attempt'[n] = attempt[n] /\ Current(n)' = Current(n)
           /\ Done(n)' /\ ~Done(n) => Finish(n)
<1> USE RoundAssumption
<1>0. TypeOK /\ InSession /\ round[n] \in 0..(LastRound + 1)
  BY DEF DInv, TypeOK
<1>1. Done(n) => round'[n] = round[n] /\ attempt'[n] = attempt[n]
  BY <1>0, OwnSteps DEF Done, Start, Advance, Finish, Reject, TimeOut, Crash, Barrier, Awaiting
<1>2. ASSUME Done(n) PROVE Current(n)' = Current(n)
  <2>1. attempt[n] \in Attempts /\ view[n][attempt[n]] # None
    BY <1>0, <1>2 DEF InSession, Done, Current
  <2>2. view'[n][attempt[n]] = view[n][attempt[n]]
    BY <2>1, ViewsGrow
  <2> QED
    BY <1>1, <1>2, <2>2 DEF Current
<1>3. ASSUME Done(n)', ~Done(n), ~Finish(n) PROVE FALSE
  <2>1. round'[n] # round[n] /\ round'[n] = LastRound + 1
    BY <1>3 DEF Done
  <2> QED
    BY <1>0, <1>3, <2>1, OwnSteps DEF TypeOK, Start, Advance, Reject, TimeOut, Crash
<1> QED
  BY <1>1, <1>2, <1>3 DEF Done

(* The inductive invariant is kept by every step. *)
THEOREM DInvNext == DInv /\ [Next]_vars => DInv'
<1> SUFFICES ASSUME DInv, [Next]_vars PROVE DInv'
  OBVIOUS
<1>1. TypeOK' /\ ViewsBegun' /\ NoCrossing' /\ TagsBegun' /\ EchoesReal' /\ InSession'
  BY DTypeNext, ViewsNext, BuffersNext, SessionNext
<1>2. DoneEchoed'
  <2> SUFFICES ASSUME NEW n \in Node, NEW m \in Node, Done(n)'
               PROVE  (view[m][Current(n)[m]] = Current(n))'
    BY DEF DoneEchoed
  <2>1. (attempt[n] \in Attempts /\ Current(n) # None)'
    BY <1>1, RoundAssumption DEF InSession, Done
  <2>2. CASE Done(n)
    <3>1. Current(n)' = Current(n) /\ view[m][Current(n)[m]] = Current(n)
      BY <2>2, DoneStays DEF DInv, DoneEchoed
    <3>2. Current(n) \in View
      BY <2>1, <2>2, DoneStays DEF DInv, TypeOK, Current, Views
    <3>3. Current(n)[m] \in Attempts
      BY <3>2 DEF View
    <3>4. view'[m][Current(n)[m]] = view[m][Current(n)[m]]
      BY <2>1, <3>1, <3>3, ViewsGrow
    <3> QED
      BY <3>1, <3>4
  <2>3. CASE ~Done(n)
    <3>1. Finish(n)
      BY <2>3, DoneStays
    <3>2. view' = view /\ attempt' = attempt /\ Current(n)' = Current(n) /\ Current(n) # None
      BY <2>1, <3>1 DEF Finish, Current
    <3>3. CASE m = n
      BY <2>1, <3>2, <3>3 DEF DInv, ViewsBegun, Current
    <3>4. CASE m # n
      <4>1. echo[n][m] = Current(n)
        BY <3>1, <3>4 DEF Finish, EchoesAgree, Peers
      <4> QED
        BY <3>2, <4>1 DEF DInv, EchoesReal
    <3> QED
      BY <3>3, <3>4
  <2> QED
    BY <2>2, <2>3
<1> QED
  BY <1>1, <1>2 DEF DInv

(* The inductive invariant holds in every state the driver can reach. *)
THEOREM DInvAlways == Spec => []DInv
  BY DInvInit, DInvNext, PTL DEF Spec

(* Two finished nodes have one view. *)
LEMMA DInvAgrees == DInv => Agreement
<1> SUFFICES ASSUME DInv, NEW n \in Node, NEW m \in Node, Done(n), Done(m)
             PROVE  Current(n) = Current(m)
  BY DEF Agreement
<1>0. TypeOK /\ ViewsBegun /\ InSession /\ NoCrossing /\ DoneEchoed
  BY DEF DInv
<1>1. ASSUME NEW x \in {n, m}
      PROVE  attempt[x] \in Attempts /\ Current(x) # None /\ Current(x) \in View /\ Current(x)[x] = attempt[x]
  <2>1. attempt[x] \in Attempts /\ Current(x) # None
    BY <1>0, <1>1, RoundAssumption DEF InSession, Done
  <2>2. Current(x) \in View
    BY <1>0, <1>1, <2>1 DEF TypeOK, Current, Views
  <2> QED
    BY <1>0, <1>1, <2>1, <2>2 DEF ViewsBegun, Current
<1> DEFINE k == Current(n)[m]
           l == Current(m)[n]
<1>2. k \in Attempts /\ l \in Attempts /\ view[m][k] = Current(n) /\ view[n][l] = Current(m)
  BY <1>0, <1>1 DEF DoneEchoed, View
<1>3. k <= attempt[m] /\ l <= attempt[n]
  BY <1>0, <1>1, <1>2 DEF ViewsBegun
<1>4. CASE k = attempt[m] \/ l = attempt[n]
  BY <1>2, <1>4 DEF Current
<1>5. CASE k # attempt[m] /\ l # attempt[n]
  <2>1. attempt[n] > l /\ attempt[m] > k
    BY <1>1, <1>2, <1>3, <1>5 DEF Attempts
  <2>2. view[m][k][n] = attempt[n] /\ view[n][l][m] = attempt[m]
    BY <1>1, <1>2
  <2>3. attempt[m] <= k
    BY <1>0, <1>1, <1>2, <2>1, <2>2 DEF NoCrossing
  <2> QED
    BY <1>1, <1>2, <2>1, <2>3 DEF Attempts
<1> QED
  BY <1>4, <1>5

(* All members that complete run_session under one session id have shares of
   one polynomial: the attempts of form_cluster's retry loop may overlap, and
   the buffers a failed attempt leaves behind do no harm. *)
THEOREM SessionAgreement == Spec => []Agreement
  BY DInvAlways, DInvAgrees, PTL

(* Every step of the driver is a step of the promise, or changes nothing that
   the promise speaks of. *)
LEMMA StepKeepsPromise ==
    ASSUME DInv, DInv', [Next]_vars
    PROVE  [Outcome!Next]_<<Joined, Result>>
<1> USE RoundAssumption
<1>0. TypeOK /\ InSession /\ ViewsBegun
  BY DEF DInv
<1>1. CASE \E n \in Node : Start(n)
  <2> PICK n \in Node : Start(n)
    BY <1>1
  <2>1. Joined' = Joined \cup {n}
    <3>1. attempt' = [attempt EXCEPT ![n] = attempt[n] + 1] /\ attempt \in [Node -> 0..MaxAttempts]
      BY <1>0 DEF Start, TypeOK
    <3> QED
      BY <3>1 DEF Joined
  <2>2. ASSUME NEW m \in Node PROVE Result'[m] = Result[m]
    <3>1. ~Finish(m)
      BY <1>0 DEF Start, Finish, TypeOK
    <3> QED
      BY <3>1, DoneStays DEF Result
  <2>3. Result' = Result
    BY <2>2 DEF Result
  <2> QED
    BY <2>1, <2>3 DEF Outcome!Next, Outcome!Join
<1>2. CASE \E n \in Node : Finish(n)
  <2> PICK n \in Node : Finish(n)
    BY <1>2
  <2>1. attempt' = attempt /\ view' = view /\ ~Done(n) /\ Done(n)'
    BY <1>0 DEF Finish, Done, TypeOK
  <2>2. Current(n)' = Current(n) /\ attempt[n] \in Attempts /\ Current(n) # None
    BY <1>0, <2>1 DEF Current, InSession, Finish
  <2>3. Current(n) \in View
    BY <1>0, <2>2 DEF TypeOK, Current, Views
  <2>4. Joined = Node
    <3>1. ASSUME NEW m \in Node PROVE attempt[m] > 0
      <4>1. Current(n)[m] \in Attempts /\ Current(n)[m] <= attempt[m] /\ attempt[m] \in 0..MaxAttempts
        BY <1>0, <2>2, <2>3 DEF ViewsBegun, Current, View, TypeOK
      <4> QED
        BY <4>1 DEF Attempts
    <3> QED
      BY <3>1 DEF Joined
  <2>5. \A m \in Node \ {n} : ~(Done(m)' /\ ~Done(m))
    BY <1>0 DEF Finish, Done, TypeOK
  <2>6. \A m \in Node : Result[m] \in {None, Current(n)}
    <3>0. Agreement'
      BY DInvAgrees, PTL
    <3>1. ASSUME NEW m \in Node, Done(m) PROVE Current(m) = Current(n)
      <4>1. Done(m)' /\ Current(m)' = Current(m)
        BY <3>1, DoneStays
      <4> QED
        BY <2>1, <2>2, <3>0, <4>1 DEF Agreement
    <3> QED
      BY <3>1 DEF Result
  <2>7. Result' = [Result EXCEPT ![n] = Current(n)]
    BY <2>1, <2>2, <2>5, DoneStays, Zenon DEF Result
  <2>8. Outcome!Finish(n, Current(n))
    BY <2>1, <2>4, <2>6, <2>7 DEF Outcome!Finish, Result, Joined
  <2> QED
    BY <2>3, <2>8 DEF Outcome!Next
<1>3. CASE ~(\E n \in Node : Start(n) \/ Finish(n))
  <2>1. attempt' = attempt
    BY <1>3, ZenonT(30) DEF Next, vars, Send, SendFails, Advance, Reject, TimeOut, Crash
  <2>2. Joined' = Joined
    BY <2>1 DEF Joined
  <2>3. ASSUME NEW m \in Node PROVE Result'[m] = Result[m]
    BY <1>3, DoneStays DEF Result
  <2>4. Result' = Result
    BY <2>3 DEF Result
  <2> QED
    BY <2>2, <2>4
<1> QED
  BY <1>1, <1>2, <1>3

(* The driver implements the promise SessionOutcome makes to form_cluster, and
   on which Reshare's sessions are built: nobody finishes before all members
   have joined, and those that finish agree. *)
THEOREM DriverKeepsPromise == Spec => KeepsPromise
<1>1. Init => Outcome!Init
  BY RoundAssumption DEF Init, Outcome!Init, Joined, Result, Done
<1>2. Spec => [][Outcome!Next]_<<Joined, Result>>
  BY DInvAlways, StepKeepsPromise, PTL DEF Spec
<1> QED
  BY <1>1, <1>2, PTL DEF Spec, KeepsPromise, Outcome!Spec

(* The driver keeps to its types: views, outboxes and tags stay within the
   sessions, rounds and members that there are. *)
THEOREM DkgTypeCorrect == Spec => []TypeOK
<1>1. DInv => TypeOK
  BY DEF DInv
<1> QED
  BY <1>1, DInvAlways, PTL
=============================================================================
