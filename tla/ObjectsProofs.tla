---------------------------- MODULE ObjectsProofs ----------------------------
(***************************************************************************)
(* Proofs about the objects of the standard library, for any number of     *)
(* them, of threads and of values, and any nesting of calls.               *)
(***************************************************************************)
EXTENDS Objects, TLAPS

-----------------------------------------------------------------------------
(* OnceBox.                                                                *)

RacyTypes ==
  /\ pointer \in Boxes \cup {Racy!NULL}
  /\ memory \in [Boxes -> {"unborn", "live", "taken", "freed"}]
  /\ at \in [Threads -> {"out", "create", "exchange", "drop"}]
  /\ mine \in [Threads -> Boxes \cup {Racy!NULL}]
  /\ reference \in [Threads -> Boxes \cup {Racy!NULL}]
  /\ sees \in [Threads -> SUBSET Boxes]
  /\ view \subseteq Boxes

(* A thread has a box of its own exactly while it is to exchange or drop   *)
(* it, and knows it; no two have the same, nor the one in the pointer.     *)
OwnBox ==
  /\ \A t \in Threads : mine[t] # Racy!NULL <=> at[t] \in {"exchange", "drop"}
  /\ \A t \in Threads : mine[t] # Racy!NULL => mine[t] \in sees[t] /\ mine[t] # pointer
  /\ \A t, u \in Threads : mine[t] = mine[u] /\ mine[t] # Racy!NULL => t = u

(* What lives is in the pointer or somebody's own.                         *)
Alive == \A b \in Boxes : memory[b] = "live" <=> b = pointer \/ \E t \in Threads : mine[t] = b

(* Who acquires the pointer sees the box; who lost the race or has a       *)
(* reference has acquired it; and no thread calls while it borrows.        *)
Acquired ==
  /\ pointer # Racy!NULL => pointer \in view
  /\ \A t \in Threads : at[t] = "drop" => pointer # Racy!NULL /\ pointer \in sees[t]
  /\ \A t \in Threads : reference[t] # Racy!NULL =>
       reference[t] = pointer /\ pointer \in sees[t] /\ at[t] = "out"

RacyInv == RacyTypes /\ OwnBox /\ Alive /\ Acquired

LEMMA RacyStarts == Racy!Init => RacyInv
BY RacyAssumption DEF Racy!Init, Racy!NullAssumption, RacyInv, RacyTypes, OwnBox, Alive, Acquired

LEMMA RacyStep ==
  ASSUME RacyInv, Racy!Next
  PROVE  RacyInv'
<1>0. Racy!NULL \notin Boxes
  BY RacyAssumption DEF Racy!NullAssumption
<1>1. RacyTypes /\ OwnBox /\ Alive /\ Acquired
  BY DEF RacyInv
<1>2. ASSUME NEW t \in Threads, Racy!LoadBox(t) PROVE RacyInv'
  <2>1. at[t] = "out" /\ pointer # Racy!NULL /\ pointer' = pointer /\ memory' = memory
        /\ mine' = mine /\ view' = view /\ at' = [at EXCEPT ![t] = "out"]
        /\ reference' = [reference EXCEPT ![t] = pointer]
        /\ sees' = [sees EXCEPT ![t] = @ \cup view]
    BY <1>2 DEF Racy!LoadBox, Racy!Return, Racy!Acquire
  <2>2. RacyTypes'
    BY <1>1, <2>1 DEF RacyTypes
  <2>3. OwnBox' /\ Alive'
    BY <1>1, <2>1 DEF RacyTypes, OwnBox, Alive
  <2>4. Acquired'
    BY <1>1, <2>1 DEF RacyTypes, Acquired
  <2> QED BY <2>2, <2>3, <2>4 DEF RacyInv
<1>3. ASSUME NEW t \in Threads, Racy!LoadNull(t) PROVE RacyInv'
  <2>1. at[t] = "out" /\ pointer \notin sees[t] /\ pointer' = pointer /\ memory' = memory
        /\ mine' = mine /\ view' = view /\ at' = [at EXCEPT ![t] = "create"]
        /\ reference' = reference /\ sees' = sees
    BY <1>3 DEF Racy!LoadNull
  <2>2. RacyTypes'
    BY <1>1, <2>1 DEF RacyTypes
  <2>3. OwnBox' /\ Alive'
    BY <1>1, <2>1 DEF RacyTypes, OwnBox, Alive
  <2>4. Acquired'
    BY <1>1, <2>1 DEF RacyTypes, Acquired
  <2> QED BY <2>2, <2>3, <2>4 DEF RacyInv
<1>4. ASSUME NEW t \in Threads, Racy!Create(t) PROVE RacyInv'
  <2>1. at[t] = "create" /\ pointer' = pointer /\ view' = view /\ reference' = reference
        /\ at' = [at EXCEPT ![t] = "exchange"]
    BY <1>4 DEF Racy!Create
  <2>2. PICK b \in Boxes : /\ memory[b] = "unborn"
                           /\ memory' = [memory EXCEPT ![b] = "live"]
                           /\ mine' = [mine EXCEPT ![t] = b]
                           /\ sees' = [sees EXCEPT ![t] = @ \cup {b}]
    BY <1>4 DEF Racy!Create
  <2>3. b # pointer /\ \A u \in Threads : mine[u] # b
    BY <1>1, <2>2 DEF Alive
  <2>4. RacyTypes'
    BY <1>1, <2>1, <2>2 DEF RacyTypes
  <2>5. OwnBox'
    BY <1>0, <1>1, <2>1, <2>2, <2>3 DEF RacyTypes, OwnBox
  <2>6. Alive'
    <3> SUFFICES ASSUME NEW c \in Boxes
                 PROVE  memory'[c] = "live" <=> c = pointer' \/ \E u \in Threads : mine'[u] = c
      BY DEF Alive
    <3>1. mine[t] = Racy!NULL /\ mine'[t] = b /\ \A u \in Threads : u # t => mine'[u] = mine[u]
      BY <1>1, <2>1, <2>2 DEF OwnBox, RacyTypes
    <3>2. CASE c = b
      BY <1>1, <2>2, <3>1, <3>2 DEF RacyTypes
    <3>3. CASE c # b
      BY <1>0, <1>1, <2>1, <2>2, <3>1, <3>3 DEF RacyTypes, Alive
    <3> QED BY <3>2, <3>3
  <2>7. Acquired'
    BY <1>1, <2>1, <2>2 DEF RacyTypes, Acquired
  <2> QED BY <2>4, <2>5, <2>6, <2>7 DEF RacyInv
<1>5. ASSUME NEW t \in Threads, Racy!Exchange(t) PROVE RacyInv'
  <2>1. at[t] = "exchange" /\ pointer = Racy!NULL /\ pointer' = mine[t] /\ view' = sees[t]
        /\ mine' = [mine EXCEPT ![t] = Racy!NULL] /\ at' = [at EXCEPT ![t] = "out"]
        /\ reference' = [reference EXCEPT ![t] = mine[t]] /\ memory' = memory /\ sees' = sees
    BY <1>5 DEF Racy!Exchange, Racy!Return
  <2>2. mine[t] \in Boxes /\ mine[t] \in sees[t] /\ mine[t] # Racy!NULL
    BY <1>0, <1>1, <2>1 DEF RacyTypes, OwnBox
  <2>3. RacyTypes'
    BY <1>1, <2>1 DEF RacyTypes
  <2>4. mine'[t] = Racy!NULL /\ \A u \in Threads : u # t => mine'[u] = mine[u] /\ mine[u] # mine[t]
    BY <1>1, <2>1, <2>2 DEF RacyTypes, OwnBox
  <2>5. OwnBox'
    BY <1>1, <2>1, <2>2, <2>4 DEF RacyTypes, OwnBox
  <2>6. Alive'
    <3> SUFFICES ASSUME NEW c \in Boxes
                 PROVE  memory'[c] = "live" <=> c = pointer' \/ \E u \in Threads : mine'[u] = c
      BY DEF Alive
    <3>1. memory[c] = "live" <=> \E u \in Threads : mine[u] = c
      BY <1>0, <1>1, <2>1 DEF Alive
    <3> QED BY <1>0, <2>1, <2>2, <2>4, <3>1
  <2>7. Acquired'
    <3>1. \A u \in Threads : reference[u] = Racy!NULL /\ at[u] # "drop"
      BY <1>0, <1>1, <2>1 DEF Acquired, RacyTypes
    <3> QED BY <1>1, <2>1, <2>2, <3>1 DEF RacyTypes, Acquired
  <2> QED BY <2>3, <2>5, <2>6, <2>7 DEF RacyInv
<1>6. ASSUME NEW t \in Threads, Racy!Lose(t) PROVE RacyInv'
  <2>1. at[t] = "exchange" /\ pointer # Racy!NULL /\ pointer' = pointer /\ memory' = memory
        /\ mine' = mine /\ view' = view /\ at' = [at EXCEPT ![t] = "drop"]
        /\ reference' = reference /\ sees' = [sees EXCEPT ![t] = @ \cup view]
    BY <1>6 DEF Racy!Lose, Racy!Acquire
  <2>2. RacyTypes'
    BY <1>1, <2>1 DEF RacyTypes
  <2>3. OwnBox' /\ Alive'
    BY <1>1, <2>1 DEF RacyTypes, OwnBox, Alive
  <2>4. Acquired'
    BY <1>1, <2>1 DEF RacyTypes, Acquired
  <2> QED BY <2>2, <2>3, <2>4 DEF RacyInv
<1>7. ASSUME NEW t \in Threads, Racy!DropLoser(t) PROVE RacyInv'
  <2>1. at[t] = "drop" /\ memory' = [memory EXCEPT ![mine[t]] = "freed"]
        /\ mine' = [mine EXCEPT ![t] = Racy!NULL] /\ at' = [at EXCEPT ![t] = "out"]
        /\ reference' = [reference EXCEPT ![t] = pointer]
        /\ pointer' = pointer /\ sees' = sees /\ view' = view
    BY <1>7 DEF Racy!DropLoser, Racy!Return
  <2>2. mine[t] \in Boxes /\ mine[t] # Racy!NULL /\ mine[t] # pointer
    BY <1>0, <1>1, <2>1 DEF RacyTypes, OwnBox
  <2>3. RacyTypes'
    BY <1>1, <2>1 DEF RacyTypes
  <2>4. mine'[t] = Racy!NULL /\ \A u \in Threads : u # t => mine'[u] = mine[u] /\ mine[u] # mine[t]
    BY <1>1, <2>1, <2>2 DEF RacyTypes, OwnBox
  <2>5. OwnBox'
    BY <1>1, <2>1, <2>2, <2>4 DEF RacyTypes, OwnBox
  <2>6. Alive'
    <3> SUFFICES ASSUME NEW c \in Boxes
                 PROVE  memory'[c] = "live" <=> c = pointer' \/ \E u \in Threads : mine'[u] = c
      BY DEF Alive
    <3>1. CASE c = mine[t]
      <4>1. memory'[c] = "freed"
        BY <1>1, <2>1, <2>2, <3>1 DEF RacyTypes
      <4> QED BY <1>0, <2>1, <2>2, <2>4, <3>1, <4>1
    <3>2. CASE c # mine[t]
      <4>1. memory'[c] = memory[c]
        BY <1>1, <2>1, <3>2 DEF RacyTypes
      <4>2. memory[c] = "live" <=> c = pointer \/ \E u \in Threads : mine[u] = c
        BY <1>1 DEF Alive
      <4> QED BY <1>0, <2>1, <2>4, <3>2, <4>1, <4>2
    <3> QED BY <3>1, <3>2
  <2>7. Acquired'
    BY <1>1, <2>1 DEF RacyTypes, Acquired
  <2> QED BY <2>3, <2>5, <2>6, <2>7 DEF RacyInv
<1>8. ASSUME NEW t \in Threads, Racy!GetUnchecked(t) PROVE RacyInv'
  <2>1. at[t] = "out" /\ pointer \in sees[t] /\ pointer' = pointer /\ memory' = memory
        /\ mine' = mine /\ view' = view /\ at' = [at EXCEPT ![t] = "out"]
        /\ reference' = [reference EXCEPT ![t] = pointer] /\ sees' = sees
    BY <1>8 DEF Racy!GetUnchecked, Racy!Return
  <2>2. RacyTypes'
    BY <1>1, <2>1 DEF RacyTypes
  <2>3. OwnBox' /\ Alive'
    BY <1>1, <2>1 DEF RacyTypes, OwnBox, Alive
  <2>4. Acquired'
    BY <1>1, <2>1 DEF RacyTypes, Acquired
  <2> QED BY <2>2, <2>3, <2>4 DEF RacyInv
<1>9. ASSUME NEW t \in Threads, Racy!EndBorrow(t) PROVE RacyInv'
  <2>1. reference[t] # Racy!NULL /\ pointer' = pointer /\ memory' = memory
        /\ mine' = mine /\ view' = view /\ at' = [at EXCEPT ![t] = "out"]
        /\ reference' = [reference EXCEPT ![t] = Racy!NULL] /\ sees' = sees
    BY <1>9 DEF Racy!EndBorrow, Racy!Return
  <2>2. at[t] = "out"
    BY <1>1, <2>1 DEF Acquired
  <2>3. RacyTypes'
    BY <1>1, <2>1 DEF RacyTypes
  <2>4. OwnBox' /\ Alive'
    BY <1>1, <2>1, <2>2 DEF RacyTypes, OwnBox, Alive
  <2>5. Acquired'
    BY <1>1, <2>1 DEF RacyTypes, Acquired
  <2> QED BY <2>3, <2>4, <2>5 DEF RacyInv
<1>10. ASSUME NEW fate \in {"taken", "freed"}, Racy!Replace(fate) PROVE RacyInv'
  <2>1. /\ \A t \in Threads : at[t] = "out" /\ reference[t] = Racy!NULL
        /\ pointer # Racy!NULL /\ pointer' = Racy!NULL /\ memory' = [memory EXCEPT ![pointer] = fate]
        /\ view' = {} /\ at' = at /\ mine' = mine /\ reference' = reference /\ sees' = sees
    BY <1>10 DEF Racy!Replace
  <2>2. \A t \in Threads : mine[t] = Racy!NULL
    BY <1>1, <2>1 DEF OwnBox
  <2>3. RacyTypes'
    BY <1>1, <2>1 DEF RacyTypes
  <2>4. OwnBox'
    BY <1>1, <2>1, <2>2 DEF RacyTypes, OwnBox
  <2>5. Alive'
    <3> SUFFICES ASSUME NEW c \in Boxes PROVE memory'[c] # "live"
      BY <1>0, <2>1, <2>2 DEF Alive
    <3>1. CASE c = pointer
      BY <1>1, <2>1, <3>1 DEF RacyTypes
    <3>2. CASE c # pointer
      BY <1>0, <1>1, <2>1, <2>2, <3>2 DEF RacyTypes, Alive
    <3> QED BY <3>1, <3>2
  <2>6. Acquired'
    BY <2>1 DEF Acquired
  <2> QED BY <2>3, <2>4, <2>5, <2>6 DEF RacyInv
<1> QED BY <1>2, <1>3, <1>4, <1>5, <1>6, <1>7, <1>8, <1>9, <1>10 DEF Racy!Next, Racy!Take, Racy!Drop

LEMMA RacyUnchanged ==
  ASSUME RacyInv, UNCHANGED Racy!vars
  PROVE  RacyInv'
BY DEF Racy!vars, RacyInv, RacyTypes, OwnBox, Alive, Acquired

LEMMA RacySuffices ==
  ASSUME RacyInv
  PROVE  Racy!BoxAgreed
<1>0. Racy!NULL \notin Boxes
  BY RacyAssumption DEF Racy!NullAssumption
<1>1. RacyTypes /\ OwnBox /\ Alive /\ Acquired
  BY DEF RacyInv
<1>2. ASSUME NEW t \in Threads, reference[t] # Racy!NULL
      PROVE  reference[t] = pointer /\ memory[pointer] = "live" /\ pointer \in sees[t]
  BY <1>0, <1>1, <1>2 DEF RacyTypes, Alive, Acquired
<1>3. {b \in Boxes : memory[b] = "live"} = ({pointer} \cup {mine[t] : t \in Threads}) \ {Racy!NULL}
  <2>1. ASSUME NEW b \in Boxes, memory[b] = "live"
        PROVE  b \in ({pointer} \cup {mine[t] : t \in Threads}) \ {Racy!NULL}
    BY <1>0, <1>1, <2>1 DEF Alive
  <2>2. ASSUME NEW b \in ({pointer} \cup {mine[t] : t \in Threads}) \ {Racy!NULL}
        PROVE  b \in Boxes /\ memory[b] = "live"
    BY <1>0, <1>1 DEF RacyTypes, Alive
  <2> QED BY <2>1, <2>2
<1> QED BY <1>1, <1>2, <1>3 DEF Racy!BoxAgreed, OwnBox

-----------------------------------------------------------------------------
(* Once.                                                                   *)

(* A Once at rest is poisoned exactly if its last closure poisoned it.     *)
PoisonRemembered ==
  \A o \in OnceObjects : state[o] # "Running" => (spoiled[o] <=> state[o] = "Poisoned")

OnceInv == Onces!OnceSound /\ PoisonRemembered

LEMMA OnceStarts == Onces!Init => OnceInv
<1> SUFFICES ASSUME Onces!Init PROVE OnceInv
  OBVIOUS
<1>1. calls = <<>> /\ DOMAIN calls = {} /\ calls \in Seq(Onces!Call)
  BY DEF Onces!Init
<1>2. Onces!TypeOK
  BY <1>1 DEF Onces!Init, Onces!TypeOK, Onces!States
<1>3. Onces!OneClosureAtATime /\ Onces!ClosureSeesPoison /\ PoisonRemembered
  BY <1>1 DEF Onces!Init, Onces!OneClosureAtATime, Onces!ClosureSeesPoison, PoisonRemembered
<1> QED BY <1>2, <1>3 DEF OnceInv, Onces!OnceSound

(* What the invariant says, without its sequence of records.               *)
LEMMA OnceFacts ==
  ASSUME OnceInv
  PROVE  /\ Len(calls) \in Nat /\ DOMAIN calls = 1 .. Len(calls)
         /\ \A n \in DOMAIN calls : calls[n] \in Onces!Call /\ calls[n].once \in OnceObjects
<1>1. calls \in Seq(Onces!Call)
  BY DEF OnceInv, Onces!OnceSound, Onces!TypeOK
<1>2. Len(calls) \in Nat /\ DOMAIN calls = 1 .. Len(calls) /\ \A n \in 1 .. Len(calls) : calls[n] \in Onces!Call
  BY <1>1
<1>3. \A c \in Onces!Call : c.once \in OnceObjects
  BY DEF Onces!Call
<1> QED BY <1>2, <1>3

LEMMA OnceCallRun ==
  ASSUME OnceInv, NEW o \in OnceObjects, NEW ignore \in BOOLEAN, Onces!CallRun(o, ignore)
  PROVE  OnceInv'
<1>1. /\ Onces!TypeOK /\ Onces!OneClosureAtATime /\ Onces!ClosureSeesPoison /\ PoisonRemembered
  BY DEF OnceInv, Onces!OnceSound
<1>2. /\ panicked = "no" /\ state[o] \in {"Incomplete", "Poisoned"}
      /\ state' = [state EXCEPT ![o] = "Running"] /\ calls' = Append(calls, Onces!Started(o))
      /\ initialised' = initialised /\ spoiled' = spoiled /\ panicked' = panicked
  BY DEF Onces!CallRun, Onces!Running
<1> DEFINE c == Onces!Started(o)
           n == Len(calls) + 1
<1>3. c \in Onces!Call /\ c.once = o /\ c.poisoned = (state[o] = "Poisoned")
  BY DEF Onces!Started, Onces!Call
<1>4. Len(calls) \in Nat /\ DOMAIN calls = 1 .. Len(calls)
      /\ \A k \in DOMAIN calls : calls[k] \in Onces!Call /\ calls[k].once \in OnceObjects
  BY OnceFacts
<1>5. calls \in Seq(Onces!Call)
  BY <1>1 DEF Onces!TypeOK
<1> HIDE DEF c
<1>6. /\ calls' \in Seq(Onces!Call) /\ DOMAIN calls' = DOMAIN calls \cup {n} /\ n \notin DOMAIN calls
      /\ calls'[n] = c /\ \A k \in DOMAIN calls : calls'[k] = calls[k]
  <2>1. calls' = Append(calls, c)
    BY <1>2 DEF c
  <2>2. calls' \in Seq(Onces!Call) /\ Len(calls') = n /\ calls'[n] = c
        /\ \A k \in 1 .. Len(calls) : calls'[k] = calls[k]
    BY <1>3, <1>5, <2>1
  <2>3. DOMAIN calls' = 1 .. n
    BY <2>2
  <2> QED BY <1>4, <2>2, <2>3
<1> HIDE DEF n
<1>7. \A k \in DOMAIN calls : calls[k].once # o
  BY <1>1, <1>2 DEF Onces!OneClosureAtATime
<1>8. state'[o] = "Running" /\ \A p \in OnceObjects : p # o => state'[p] = state[p]
  BY <1>1, <1>2 DEF Onces!TypeOK
<1>9. Onces!TypeOK'
  <2>1. state' \in [OnceObjects -> Onces!States]
    BY <1>1, <1>2 DEF Onces!TypeOK, Onces!States
  <2> QED BY <1>1, <1>2, <1>6, <2>1 DEF Onces!TypeOK
<1>10. Onces!OneClosureAtATime'
  <2>1. \A j, k \in DOMAIN calls' : calls'[j].once = calls'[k].once => j = k
    BY <1>1, <1>3, <1>6, <1>7 DEF Onces!OneClosureAtATime
  <2>2. ASSUME NEW p \in OnceObjects
        PROVE  state'[p] = "Running" <=> \E k \in DOMAIN calls' : calls'[k].once = p
    <3>1. CASE p = o
      BY <1>3, <1>6, <1>8, <3>1
    <3>2. CASE p # o
      <4>1. state[p] = "Running" <=> \E k \in DOMAIN calls : calls[k].once = p
        BY <1>1 DEF Onces!OneClosureAtATime
      <4> QED BY <1>3, <1>6, <1>8, <3>2, <4>1
    <3> QED BY <3>1, <3>2
  <2>3. \A p \in OnceObjects : (state'[p] = "Complete" => initialised'[p])
                                /\ (initialised'[p] => state'[p] = "Complete")
    <3>1. ~initialised[o]
      BY <1>1, <1>2 DEF Onces!OneClosureAtATime
    <3> QED BY <1>1, <1>2, <1>8, <3>1 DEF Onces!OneClosureAtATime
  <2> QED BY <2>1, <2>2, <2>3 DEF Onces!OneClosureAtATime
<1>11. Onces!ClosureSeesPoison'
  <2>1. ~initialised[o] /\ c.poisoned = spoiled[o]
    <3>1. ~initialised[o]
      BY <1>1, <1>2 DEF Onces!OneClosureAtATime
    <3>2. spoiled[o] \in BOOLEAN
      BY <1>1 DEF Onces!TypeOK
    <3>3. spoiled[o] <=> state[o] = "Poisoned"
      BY <1>1, <1>2 DEF PoisonRemembered
    <3> QED BY <1>3, <3>1, <3>2, <3>3, Zenon
  <2>2. ASSUME NEW k \in DOMAIN calls'
        PROVE  ~initialised'[calls'[k].once] /\ calls'[k].poisoned = spoiled'[calls'[k].once]
    <3>1. CASE k = n
      BY <1>2, <1>3, <1>6, <2>1, <3>1
    <3>2. CASE k \in DOMAIN calls
      BY <1>1, <1>2, <1>6, <3>2 DEF Onces!ClosureSeesPoison
    <3> QED BY <1>6, <3>1, <3>2
  <2> QED BY <1>2, <2>2 DEF Onces!ClosureSeesPoison
<1>12. PoisonRemembered'
  BY <1>1, <1>2, <1>8 DEF PoisonRemembered
<1> QED BY <1>9, <1>10, <1>11, <1>12 DEF OnceInv, Onces!OnceSound

LEMMA OncePoison ==
  ASSUME OnceInv, NEW n \in DOMAIN calls, Onces!Poison(n)
  PROVE  OnceInv'
<1>1. /\ Onces!TypeOK /\ Onces!OneClosureAtATime /\ Onces!ClosureSeesPoison /\ PoisonRemembered
  BY DEF OnceInv, Onces!OnceSound
<1>2. /\ calls' = [calls EXCEPT ![n].set_state_to = "Poisoned"]
      /\ state' = state /\ initialised' = initialised /\ spoiled' = spoiled /\ panicked' = panicked
  BY DEF Onces!Poison
<1>3. Len(calls) \in Nat /\ DOMAIN calls = 1 .. Len(calls)
      /\ \A k \in DOMAIN calls : calls[k] \in Onces!Call /\ calls[k].once \in OnceObjects
  BY OnceFacts
<1>4. calls \in Seq(Onces!Call)
  BY <1>1 DEF Onces!TypeOK
<1> DEFINE c == [calls[n] EXCEPT !.set_state_to = "Poisoned"]
<1>5. c \in Onces!Call /\ c.once = calls[n].once /\ c.poisoned = calls[n].poisoned
  BY <1>3 DEF Onces!Call
<1>6. calls' = [calls EXCEPT ![n] = c]
  BY <1>2
<1> HIDE DEF c
<1>7. /\ calls' \in Seq(Onces!Call) /\ DOMAIN calls' = DOMAIN calls
      /\ \A k \in DOMAIN calls : calls'[k].once = calls[k].once /\ calls'[k].poisoned = calls[k].poisoned
  <2>1. calls' \in Seq(Onces!Call)
    BY <1>4, <1>5, <1>6
  <2>2. DOMAIN calls' = DOMAIN calls /\ calls'[n] = c /\ \A k \in DOMAIN calls : k # n => calls'[k] = calls[k]
    BY <1>6
  <2> QED BY <1>5, <2>1, <2>2
<1>8. Onces!TypeOK'
  BY <1>1, <1>2, <1>7 DEF Onces!TypeOK
<1>9. Onces!OneClosureAtATime' /\ Onces!ClosureSeesPoison' /\ PoisonRemembered'
  <2>1. \A j, k \in DOMAIN calls' : calls'[j].once = calls'[k].once => j = k
    BY <1>1, <1>7 DEF Onces!OneClosureAtATime
  <2>2. \A o \in OnceObjects : state'[o] = "Running" <=> \E k \in DOMAIN calls' : calls'[k].once = o
    BY <1>1, <1>2, <1>7 DEF Onces!OneClosureAtATime
  <2>3. Onces!OneClosureAtATime'
    BY <1>1, <1>2, <2>1, <2>2 DEF Onces!OneClosureAtATime
  <2>4. \A k \in DOMAIN calls : ~initialised[calls[k].once] /\ calls[k].poisoned = spoiled[calls[k].once]
    BY <1>1 DEF Onces!ClosureSeesPoison
  <2>5. ASSUME NEW k \in DOMAIN calls'
        PROVE  ~initialised'[calls'[k].once] /\ calls'[k].poisoned = spoiled'[calls'[k].once]
    <3>1. /\ calls'[k].once = calls[k].once /\ calls'[k].poisoned = calls[k].poisoned
          /\ ~initialised[calls[k].once] /\ calls[k].poisoned = spoiled[calls[k].once]
      BY <1>7, <2>4
    <3> QED BY <1>2, <3>1
  <2>6. Onces!ClosureSeesPoison'
    BY <1>1, <1>2, <2>5 DEF Onces!ClosureSeesPoison
  <2> QED BY <1>1, <1>2, <2>3, <2>6 DEF PoisonRemembered
<1> QED BY <1>8, <1>9 DEF OnceInv, Onces!OnceSound

LEMMA OnceCallEnds ==
  ASSUME OnceInv, Onces!CallEnds
  PROVE  OnceInv'
<1>1. /\ Onces!TypeOK /\ Onces!OneClosureAtATime /\ Onces!ClosureSeesPoison /\ PoisonRemembered
  BY DEF OnceInv, Onces!OnceSound
<1>2. PICK n, c, o, new : n = Len(calls) /\ c = calls[n] /\ o = c.once /\ new = c.set_state_to
  OBVIOUS
<1>3. /\ panicked = "no" /\ calls # <<>>
      /\ state' = [state EXCEPT ![o] = new]
      /\ initialised' = [initialised EXCEPT ![o] = (new = "Complete")]
      /\ spoiled' = [spoiled EXCEPT ![o] = (new = "Poisoned")]
      /\ calls' = SubSeq(calls, 1, n - 1) /\ panicked' = panicked
  BY <1>2 DEF Onces!CallEnds, Onces!Running, Onces!Last
<1>4. Len(calls) \in Nat /\ DOMAIN calls = 1 .. Len(calls)
      /\ \A k \in DOMAIN calls : calls[k] \in Onces!Call /\ calls[k].once \in OnceObjects
  BY OnceFacts
<1>5. calls \in Seq(Onces!Call)
  BY <1>1 DEF Onces!TypeOK
<1>6. n \in Nat \ {0} /\ n \in DOMAIN calls
  BY <1>2, <1>3, <1>4, <1>5
<1>7. o \in OnceObjects /\ new \in {"Complete", "Poisoned"}
  BY <1>2, <1>4, <1>6 DEF Onces!Call
<1>8. /\ calls' \in Seq(Onces!Call) /\ DOMAIN calls' = DOMAIN calls \ {n}
      /\ \A k \in DOMAIN calls' : calls'[k] = calls[k]
  <2>1. calls' \in Seq(Onces!Call) /\ Len(calls') = n - 1
        /\ \A k \in 1 .. n - 1 : calls'[k] = calls[k]
    BY <1>2, <1>3, <1>5, <1>6
  <2>2. DOMAIN calls' = 1 .. n - 1
    BY <2>1
  <2> QED BY <1>2, <1>4, <1>6, <2>1, <2>2
<1>9. \A k \in DOMAIN calls' : calls'[k].once # o
  BY <1>1, <1>2, <1>6, <1>8 DEF Onces!OneClosureAtATime
<1>10. /\ state'[o] = new /\ initialised'[o] = (new = "Complete") /\ spoiled'[o] = (new = "Poisoned")
       /\ \A p \in OnceObjects : p # o => /\ state'[p] = state[p] /\ initialised'[p] = initialised[p]
                                            /\ spoiled'[p] = spoiled[p]
  BY <1>1, <1>3, <1>7 DEF Onces!TypeOK
<1>11. Onces!TypeOK'
  <2>1. state' \in [OnceObjects -> Onces!States] /\ initialised' \in [OnceObjects -> BOOLEAN]
        /\ spoiled' \in [OnceObjects -> BOOLEAN]
    BY <1>1, <1>3, <1>7 DEF Onces!TypeOK, Onces!States
  <2> QED BY <1>1, <1>3, <1>8, <2>1 DEF Onces!TypeOK
<1>12. Onces!OneClosureAtATime'
  <2>1. \A j, k \in DOMAIN calls' : calls'[j].once = calls'[k].once => j = k
    BY <1>1, <1>8 DEF Onces!OneClosureAtATime
  <2>2. ASSUME NEW p \in OnceObjects
        PROVE  state'[p] = "Running" <=> \E k \in DOMAIN calls' : calls'[k].once = p
    <3>1. CASE p = o
      BY <1>7, <1>9, <1>10, <3>1
    <3>2. CASE p # o
      <4>1. state[p] = "Running" <=> \E k \in DOMAIN calls : calls[k].once = p
        BY <1>1 DEF Onces!OneClosureAtATime
      <4> QED BY <1>2, <1>8, <1>10, <3>2, <4>1
    <3> QED BY <3>1, <3>2
  <2>3. \A p \in OnceObjects : (state'[p] = "Complete" => initialised'[p])
                                /\ (initialised'[p] => state'[p] = "Complete")
    <3> SUFFICES ASSUME NEW p \in OnceObjects
                 PROVE  (state'[p] = "Complete" => initialised'[p])
                        /\ (initialised'[p] => state'[p] = "Complete")
      OBVIOUS
    <3>1. CASE p = o
      BY <1>10, <3>1
    <3>2. CASE p # o
      BY <1>1, <1>10, <3>2 DEF Onces!OneClosureAtATime
    <3> QED BY <3>1, <3>2
  <2> QED BY <2>1, <2>2, <2>3 DEF Onces!OneClosureAtATime
<1>13. Onces!ClosureSeesPoison'
  <2>1. ASSUME NEW k \in DOMAIN calls'
        PROVE  ~initialised'[calls'[k].once] /\ calls'[k].poisoned = spoiled'[calls'[k].once]
    <3>1. k \in DOMAIN calls /\ calls'[k] = calls[k] /\ calls[k].once # o
      BY <1>8, <1>9
    <3>2. calls[k].once \in OnceObjects
      BY <1>4, <3>1
    <3>3. initialised'[calls[k].once] = initialised[calls[k].once] /\ spoiled'[calls[k].once] = spoiled[calls[k].once]
      BY <1>10, <3>1, <3>2
    <3>4. ~initialised[calls[k].once] /\ calls[k].poisoned = spoiled[calls[k].once]
      BY <1>1, <3>1 DEF Onces!ClosureSeesPoison
    <3> QED BY <3>1, <3>3, <3>4
  <2> QED BY <1>1, <1>3, <2>1 DEF Onces!ClosureSeesPoison
<1>14. PoisonRemembered'
  BY <1>1, <1>7, <1>10 DEF PoisonRemembered
<1> QED BY <1>11, <1>12, <1>13, <1>14 DEF OnceInv, Onces!OnceSound

LEMMA OnceSetState ==
  ASSUME OnceInv, NEW o \in OnceObjects, NEW new \in Onces!Exclusive, Onces!SetState(o, new)
  PROVE  OnceInv'
<1>1. /\ Onces!TypeOK /\ Onces!OneClosureAtATime /\ Onces!ClosureSeesPoison /\ PoisonRemembered
  BY DEF OnceInv, Onces!OnceSound
<1>2. /\ \A k \in DOMAIN calls : calls[k].once # o
      /\ state' = [state EXCEPT ![o] = new]
      /\ initialised' = [initialised EXCEPT ![o] = (new = "Complete")]
      /\ spoiled' = [spoiled EXCEPT ![o] = (new = "Poisoned")]
      /\ calls' = calls /\ panicked' = panicked
  BY DEF Onces!SetState, Onces!Exclusively
<1>3. new \in {"Incomplete", "Poisoned", "Complete"}
  BY DEF Onces!Exclusive, Onces!States
<1>4. \A k \in DOMAIN calls : calls[k].once \in OnceObjects
  BY OnceFacts
<1>5. /\ state'[o] = new /\ initialised'[o] = (new = "Complete") /\ spoiled'[o] = (new = "Poisoned")
      /\ \A p \in OnceObjects : p # o => /\ state'[p] = state[p] /\ initialised'[p] = initialised[p]
                                           /\ spoiled'[p] = spoiled[p]
  BY <1>1, <1>2 DEF Onces!TypeOK
<1>6. Onces!TypeOK'
  <2>1. state' \in [OnceObjects -> Onces!States] /\ initialised' \in [OnceObjects -> BOOLEAN]
        /\ spoiled' \in [OnceObjects -> BOOLEAN]
    BY <1>1, <1>2, <1>3 DEF Onces!TypeOK, Onces!States
  <2> QED BY <1>1, <1>2, <2>1 DEF Onces!TypeOK
<1>7. Onces!OneClosureAtATime'
  <2>1. ASSUME NEW p \in OnceObjects
        PROVE  state'[p] = "Running" <=> \E k \in DOMAIN calls : calls[k].once = p
    BY <1>1, <1>2, <1>3, <1>5 DEF Onces!OneClosureAtATime
  <2>2. \A p \in OnceObjects : (state'[p] = "Complete" => initialised'[p])
                                /\ (initialised'[p] => state'[p] = "Complete")
    <3> SUFFICES ASSUME NEW p \in OnceObjects
                 PROVE  (state'[p] = "Complete" => initialised'[p])
                        /\ (initialised'[p] => state'[p] = "Complete")
      OBVIOUS
    <3>1. CASE p = o
      BY <1>5, <3>1
    <3>2. CASE p # o
      BY <1>1, <1>5, <3>2 DEF Onces!OneClosureAtATime
    <3> QED BY <3>1, <3>2
  <2> QED BY <1>1, <1>2, <2>1, <2>2 DEF Onces!OneClosureAtATime
<1>8. Onces!ClosureSeesPoison'
  <2>1. ASSUME NEW k \in DOMAIN calls
        PROVE  ~initialised'[calls[k].once] /\ calls[k].poisoned = spoiled'[calls[k].once]
    <3>1. calls[k].once \in OnceObjects /\ calls[k].once # o
      BY <1>2, <1>4
    <3>2. initialised'[calls[k].once] = initialised[calls[k].once]
          /\ spoiled'[calls[k].once] = spoiled[calls[k].once]
      BY <1>5, <3>1
    <3> QED BY <1>1, <3>2 DEF Onces!ClosureSeesPoison
  <2> QED BY <1>1, <1>2, <2>1 DEF Onces!ClosureSeesPoison
<1>9. PoisonRemembered'
  BY <1>1, <1>5 DEF PoisonRemembered
<1> QED BY <1>6, <1>7, <1>8, <1>9 DEF OnceInv, Onces!OnceSound

LEMMA OnceOnlyPanic ==
  ASSUME OnceInv, state' = state, calls' = calls, initialised' = initialised, spoiled' = spoiled,
         panicked' \in {panicked, "no", "poisoned", "recursive", "not implementable on this target"}
  PROVE  OnceInv'
<1>1. /\ Onces!TypeOK /\ Onces!OneClosureAtATime /\ Onces!ClosureSeesPoison /\ PoisonRemembered
  BY DEF OnceInv, Onces!OnceSound
<1>2. Onces!TypeOK'
  BY <1>1 DEF Onces!TypeOK
<1>3. Onces!OneClosureAtATime' /\ PoisonRemembered'
  BY <1>1 DEF Onces!OneClosureAtATime, PoisonRemembered
<1>4. Onces!ClosureSeesPoison'
  BY <1>1 DEF Onces!ClosureSeesPoison
<1> QED BY <1>2, <1>3, <1>4 DEF OnceInv, Onces!OnceSound

LEMMA OnceStep ==
  ASSUME OnceInv, Onces!Next
  PROVE  OnceInv'
<1>1. CASE Onces!CallEnds
  BY <1>1, OnceCallEnds
<1>2. ASSUME NEW n \in DOMAIN calls, Onces!Poison(n) PROVE OnceInv'
  BY <1>2, OncePoison
<1>3. ASSUME NEW o \in OnceObjects, Onces!CallComplete(o) PROVE OnceInv'
  BY <1>3, OnceOnlyPanic DEF Onces!CallComplete, Onces!vars
<1>4. ASSUME NEW o \in OnceObjects, Onces!CallPoisoned(o) \/ Onces!CallRecursive(o) \/ Onces!Wait(o)
      PROVE  OnceInv'
  BY <1>4, OnceOnlyPanic DEF Onces!CallPoisoned, Onces!CallRecursive, Onces!Wait, Onces!Panic
<1>5. ASSUME NEW o \in OnceObjects, Onces!GetState(o) PROVE OnceInv'
  <2>1. /\ \A k \in DOMAIN calls : calls[k].once # o
        /\ panicked' = IF state[o] \in Onces!Exclusive THEN "no" ELSE "invalid Once state"
        /\ state' = state /\ calls' = calls /\ initialised' = initialised /\ spoiled' = spoiled
    BY <1>5 DEF Onces!GetState, Onces!Exclusively
  <2>2. state[o] \in Onces!Exclusive
    BY <2>1 DEF OnceInv, Onces!OnceSound, Onces!TypeOK, Onces!OneClosureAtATime, Onces!Exclusive
  <2> QED BY <2>1, <2>2, OnceOnlyPanic
<1>6. ASSUME NEW o \in OnceObjects, NEW ignore \in BOOLEAN, Onces!CallRun(o, ignore) PROVE OnceInv'
  BY <1>6, OnceCallRun
<1>7. ASSUME NEW o \in OnceObjects, NEW new \in Onces!Exclusive, Onces!SetState(o, new) PROVE OnceInv'
  BY <1>7, OnceSetState
<1> QED BY <1>1, <1>2, <1>3, <1>4, <1>5, <1>6, <1>7 DEF Onces!Next

-----------------------------------------------------------------------------
(* LazyStorage.                                                            *)

LazyTypes ==
  /\ state \in Lazy!States
  /\ value \in LazyValues \cup {Lazy!NoValue}
  /\ stack \in Seq(Lazy!Frame)
  /\ unused \subseteq LazyValues
  /\ dropped \subseteq LazyValues
  /\ result \in LazyValues \cup {Lazy!NoValue, Lazy!Panicked}

(* A call that is past its initialiser holds a value of its own: not in    *)
(* the cell, never dropped, no other call's.                               *)
NewIsOwn ==
  /\ \A k \in DOMAIN stack :
       IF stack[k].at = "init" THEN stack[k].new = Lazy!NoValue
       ELSE /\ stack[k].new \in LazyValues /\ stack[k].new # value
            /\ stack[k].new \notin unused /\ stack[k].new \notin dropped
  /\ \A j, k \in DOMAIN stack :
       stack[j].new = stack[k].new /\ stack[j].new # Lazy!NoValue => j = k

(* User code runs in all calls but the innermost, and only there.          *)
OuterInUserCode ==
  /\ \A k \in DOMAIN stack : k # Len(stack) => stack[k].at \in {"init", "drop"}
  /\ \A k \in DOMAIN stack : stack[k].at = "guard" => state # "Alive"

(* One destructor at most is running, and the state tells.                 *)
OneDestructor ==
  /\ \A j, k \in DOMAIN stack : stack[j].at = "drop" /\ stack[k].at = "drop" => j = k
  /\ state = "Destroying" <=> \E k \in DOMAIN stack : stack[k].at = "drop"

(* What was created is accounted for. *)
Accounted ==
  /\ value # Lazy!NoValue => value \notin unused
  /\ dropped \cap unused = {}
  /\ IF state = "Alive" THEN value # Lazy!NoValue /\ value \notin dropped
     ELSE value \in dropped \cup {Lazy!NoValue}
  /\ \A v \in LazyValues : \/ v \in unused \/ v \in dropped \/ v = value
                           \/ \E k \in DOMAIN stack : stack[k].new = v

LazyInv == LazyTypes /\ NewIsOwn /\ OuterInUserCode /\ OneDestructor /\ Accounted

LEMMA LazyStarts == Lazy!Init => LazyInv
<1> SUFFICES ASSUME Lazy!Init PROVE LazyInv
  OBVIOUS
<1>1. stack = <<>> /\ DOMAIN stack = {} /\ stack \in Seq(Lazy!Frame)
  BY DEF Lazy!Init
<1>2. LazyTypes
  BY <1>1 DEF Lazy!Init, LazyTypes, Lazy!States
<1>3. NewIsOwn /\ OuterInUserCode /\ OneDestructor /\ Accounted
  BY <1>1 DEF Lazy!Init, NewIsOwn, OuterInUserCode, OneDestructor, Accounted
<1> QED BY <1>2, <1>3 DEF LazyInv

(* The names that are no value, and the parts of a frame.                  *)
LEMMA LazyNames ==
  /\ Lazy!NoValue \notin LazyValues /\ Lazy!Panicked \notin LazyValues
  /\ Lazy!NoValue # Lazy!Panicked
  /\ \A f \in Lazy!Frame : /\ f.at \in {"init", "check", "drop", "guard"}
                           /\ f.new \in LazyValues \cup {Lazy!NoValue}
BY LazyAssumption DEF Lazy!BoundsAssumption, Lazy!NoValue, Lazy!Panicked, Lazy!Frame

LEMMA LazyStack ==
  ASSUME stack \in Seq(Lazy!Frame)
  PROVE  /\ Len(stack) \in Nat /\ DOMAIN stack = 1 .. Len(stack)
         /\ \A k \in DOMAIN stack : stack[k] \in Lazy!Frame
         /\ stack # <<>> => Len(stack) \in DOMAIN stack
<1>1. Len(stack) \in Nat /\ DOMAIN stack = 1 .. Len(stack) /\ \A k \in 1 .. Len(stack) : stack[k] \in Lazy!Frame
  OBVIOUS
<1>2. ASSUME stack # <<>> PROVE Len(stack) # 0
  BY <1>2
<1> QED BY <1>1, <1>2

(* What a step that changes the innermost call leaves of the stack.        *)
LEMMA LazyTopSet ==
  ASSUME stack \in Seq(Lazy!Frame), stack # <<>>, NEW f \in Lazy!Frame,
         stack' = [stack EXCEPT ![Len(stack)] = f]
  PROVE  /\ stack' \in Seq(Lazy!Frame) /\ DOMAIN stack' = DOMAIN stack /\ Len(stack') = Len(stack)
         /\ stack'[Len(stack)] = f
         /\ \A k \in DOMAIN stack : k # Len(stack) => stack'[k] = stack[k]
<1>1. Len(stack) \in DOMAIN stack
  BY LazyStack
<1>2. stack' \in Seq(Lazy!Frame) /\ Len(stack') = Len(stack)
  BY <1>1
<1> QED BY <1>1, <1>2

LEMMA LazyGoto ==
  ASSUME stack \in Seq(Lazy!Frame), stack # <<>>,
         NEW a \in {"init", "check", "drop", "guard"}, Lazy!Goto(a)
  PROVE  /\ stack' \in Seq(Lazy!Frame) /\ DOMAIN stack' = DOMAIN stack /\ Len(stack') = Len(stack)
         /\ stack'[Len(stack)].at = a
         /\ \A k \in DOMAIN stack : stack'[k].new = stack[k].new
         /\ \A k \in DOMAIN stack : k # Len(stack) => stack'[k].at = stack[k].at
<1> DEFINE f == [stack[Len(stack)] EXCEPT !.at = a]
<1>1. stack[Len(stack)] \in Lazy!Frame
  BY LazyStack
<1>2. f \in Lazy!Frame /\ f.at = a /\ f.new = stack[Len(stack)].new
  BY <1>1 DEF Lazy!Frame
<1>3. stack' = [stack EXCEPT ![Len(stack)] = f]
  BY DEF Lazy!Goto
<1> HIDE DEF f
<1>4. /\ stack' \in Seq(Lazy!Frame) /\ DOMAIN stack' = DOMAIN stack /\ Len(stack') = Len(stack)
      /\ stack'[Len(stack)] = f
      /\ \A k \in DOMAIN stack : k # Len(stack) => stack'[k] = stack[k]
  BY <1>2, <1>3, LazyTopSet
<1> QED BY <1>2, <1>4

LEMMA LazyUnchanged ==
  ASSUME LazyInv, state' = state, value' = value, stack' = stack, unused' = unused,
         dropped' = dropped, result' \in LazyValues \cup {Lazy!NoValue, Lazy!Panicked}
  PROVE  LazyInv'
BY DEF LazyInv, LazyTypes, NewIsOwn, OuterInUserCode, OneDestructor, Accounted

LEMMA LazyGetInitialize ==
  ASSUME LazyInv, Lazy!GetInitialize
  PROVE  LazyInv'
<1>1. LazyTypes /\ NewIsOwn /\ OuterInUserCode /\ OneDestructor /\ Accounted
  BY DEF LazyInv
<1> DEFINE f == [at |-> "init", new |-> Lazy!NoValue]
<1>2. PICK n : n = Len(stack)
  OBVIOUS
<1>3. /\ n \in Nat /\ DOMAIN stack = 1 .. n /\ \A k \in DOMAIN stack : stack[k] \in Lazy!Frame
      /\ stack # <<>> => n \in DOMAIN stack /\ stack[n].at \in {"init", "drop"}
  BY <1>1, <1>2, LazyStack DEF LazyTypes, Lazy!GetInitialize, Lazy!UserCode, Lazy!Top
<1>4. f \in Lazy!Frame /\ f.at = "init" /\ f.new = Lazy!NoValue
  BY DEF Lazy!Frame
<1>5. stack' = Append(stack, f) /\ state' = state /\ value' = value /\ unused' = unused
      /\ dropped' = dropped /\ result' = result
  BY DEF Lazy!GetInitialize
<1> HIDE DEF f
<1>6. /\ stack' \in Seq(Lazy!Frame) /\ Len(stack') = n + 1 /\ stack'[n + 1] = f
      /\ \A k \in 1 .. n : stack'[k] = stack[k]
  BY <1>1, <1>2, <1>4, <1>5 DEF LazyTypes
<1>7. DOMAIN stack' = DOMAIN stack \cup {n + 1} /\ n + 1 \notin DOMAIN stack
  <2>1. DOMAIN stack' = 1 .. n + 1
    BY <1>6
  <2> QED BY <1>3, <2>1
<1>8. LazyTypes'
  BY <1>1, <1>5, <1>6 DEF LazyTypes
<1>9. /\ stack'[n + 1].at = "init" /\ stack'[n + 1].new = Lazy!NoValue
      /\ \A k \in DOMAIN stack : stack'[k] = stack[k]
  BY <1>3, <1>4, <1>6
<1>10. NewIsOwn'
  <2>1. \A k \in DOMAIN stack' :
          IF stack'[k].at = "init" THEN stack'[k].new = Lazy!NoValue
          ELSE /\ stack'[k].new \in LazyValues /\ stack'[k].new # value
               /\ stack'[k].new \notin unused /\ stack'[k].new \notin dropped
    BY <1>1, <1>7, <1>9 DEF NewIsOwn
  <2>2. \A j, k \in DOMAIN stack' :
          stack'[j].new = stack'[k].new /\ stack'[j].new # Lazy!NoValue => j = k
    BY <1>1, <1>7, <1>9 DEF NewIsOwn
  <2> QED BY <1>5, <2>1, <2>2 DEF NewIsOwn
<1>11. OuterInUserCode'
  <2>1. ASSUME NEW k \in DOMAIN stack', k # n + 1 PROVE stack'[k].at \in {"init", "drop"}
    <3>1. k \in DOMAIN stack /\ stack'[k] = stack[k] /\ stack # <<>>
      BY <1>7, <1>9, <2>1
    <3>2. CASE k = n
      BY <1>3, <3>1, <3>2
    <3>3. CASE k # n
      BY <1>1, <1>2, <3>1, <3>3 DEF OuterInUserCode
    <3> QED BY <3>2, <3>3
  <2>2. \A k \in DOMAIN stack' : stack'[k].at = "guard" => state # "Alive"
    BY <1>1, <1>7, <1>9 DEF OuterInUserCode
  <2> QED BY <1>5, <1>6, <2>1, <2>2 DEF OuterInUserCode
<1>12. OneDestructor'
  BY <1>1, <1>5, <1>7, <1>9 DEF OneDestructor
<1>13. Accounted'
  <2>1. ASSUME NEW v \in LazyValues, \E k \in DOMAIN stack : stack[k].new = v
        PROVE  \E k \in DOMAIN stack' : stack'[k].new = v
    BY <1>7, <1>9, <2>1
  <2> QED BY <1>1, <1>5, <2>1 DEF Accounted
<1> QED BY <1>8, <1>10, <1>11, <1>12, <1>13 DEF LazyInv

LEMMA LazyCreated ==
  ASSUME LazyInv, NEW v \in LazyValues, Lazy!Created(v)
  PROVE  LazyInv'
<1>1. LazyTypes /\ NewIsOwn /\ OuterInUserCode /\ OneDestructor /\ Accounted
  BY DEF LazyInv
<1> DEFINE f == [at |-> "check", new |-> v]
<1>2. PICK n : n = Len(stack)
  OBVIOUS
<1>3. /\ stack # <<>> /\ stack[n].at = "init" /\ v \in unused /\ unused' = unused \ {v}
      /\ stack' = [stack EXCEPT ![Len(stack)] = f] /\ state' = state /\ value' = value
      /\ dropped' = dropped /\ result' = result
  BY <1>2 DEF Lazy!Created, Lazy!Top
<1>4. f \in Lazy!Frame /\ f.at = "check" /\ f.new = v
  BY DEF Lazy!Frame
<1> HIDE DEF f
<1>5. /\ stack' \in Seq(Lazy!Frame) /\ DOMAIN stack' = DOMAIN stack /\ Len(stack') = n
      /\ stack'[n].at = "check" /\ stack'[n].new = v /\ n \in DOMAIN stack
      /\ \A k \in DOMAIN stack : k # n => stack'[k] = stack[k]
  BY <1>1, <1>2, <1>3, <1>4, LazyTopSet, LazyStack DEF LazyTypes
<1>6. LazyTypes'
  BY <1>1, <1>3, <1>5 DEF LazyTypes
<1>7. v # value /\ v \notin dropped /\ v # Lazy!NoValue /\ \A k \in DOMAIN stack : stack[k].new # v
  BY <1>1, <1>3, LazyNames DEF Accounted, NewIsOwn
<1>8. NewIsOwn'
  <2>1. \A k \in DOMAIN stack' :
          IF stack'[k].at = "init" THEN stack'[k].new = Lazy!NoValue
          ELSE /\ stack'[k].new \in LazyValues /\ stack'[k].new # value
               /\ stack'[k].new \notin unused' /\ stack'[k].new \notin dropped
    BY <1>1, <1>3, <1>5, <1>7 DEF NewIsOwn
  <2>2. \A j, k \in DOMAIN stack' :
          stack'[j].new = stack'[k].new /\ stack'[j].new # Lazy!NoValue => j = k
    BY <1>1, <1>5, <1>7 DEF NewIsOwn
  <2> QED BY <1>3, <2>1, <2>2 DEF NewIsOwn
<1>9. OuterInUserCode'
  BY <1>1, <1>2, <1>3, <1>5 DEF OuterInUserCode
<1>10. OneDestructor'
  BY <1>1, <1>3, <1>5 DEF OneDestructor
<1>11. Accounted'
  <2>1. stack[n].new = Lazy!NoValue
    BY <1>1, <1>3, <1>5 DEF NewIsOwn
  <2>2. ASSUME NEW w \in LazyValues
        PROVE  w \in unused' \/ w \in dropped \/ w = value \/ \E k \in DOMAIN stack' : stack'[k].new = w
    <3>1. CASE w = v
      BY <1>5, <3>1
    <3>2. CASE \E k \in DOMAIN stack : stack[k].new = w
      BY <1>5, <2>1, <3>2, LazyNames
    <3>3. CASE w # v /\ (w \in unused \/ w \in dropped \/ w = value)
      BY <1>3, <3>3
    <3> QED BY <1>1, <3>1, <3>2, <3>3 DEF Accounted
  <2> QED BY <1>1, <1>3, <2>2 DEF Accounted
<1> QED BY <1>6, <1>8, <1>9, <1>10, <1>11 DEF LazyInv

(* The steps that only move the innermost call on keep the values where    *)
(* they are.                                                               *)
LEMMA LazyMoved ==
  ASSUME LazyInv, stack # <<>>, stack[Len(stack)].at # "init",
         NEW a \in {"drop", "guard"}, Lazy!Goto(a), value' = value, unused' = unused, result' = result,
         state' \in Lazy!States, dropped' \in SUBSET LazyValues,
         dropped' = dropped \/ (dropped' = dropped \cup {value} /\ value # Lazy!NoValue),
         a = "guard" => state' # "Alive"
  PROVE  /\ LazyTypes' /\ NewIsOwn' /\ OuterInUserCode'
         /\ \A v \in LazyValues : \/ v \in unused' \/ v \in dropped' \/ v = value'
                                  \/ \E k \in DOMAIN stack' : stack'[k].new = v
<1>1. LazyTypes /\ NewIsOwn /\ OuterInUserCode /\ OneDestructor /\ Accounted
  BY DEF LazyInv
<1>2. PICK n : n = Len(stack)
  OBVIOUS
<1>3. /\ stack' \in Seq(Lazy!Frame) /\ DOMAIN stack' = DOMAIN stack /\ Len(stack') = n
      /\ stack'[n].at = a /\ n \in DOMAIN stack
      /\ \A k \in DOMAIN stack : stack'[k].new = stack[k].new
      /\ \A k \in DOMAIN stack : k # n => stack'[k].at = stack[k].at
  BY <1>1, <1>2, LazyGoto, LazyStack DEF LazyTypes
<1>4. LazyTypes'
  BY <1>1, <1>3 DEF LazyTypes
<1>5. NewIsOwn'
  <2>1. ASSUME NEW k \in DOMAIN stack
        PROVE  /\ stack'[k].new = stack[k].new
               /\ stack'[k].at = "init" <=> stack[k].at = "init"
    BY <1>2, <1>3
  <2>2. ASSUME NEW k \in DOMAIN stack, stack[k].at # "init"
        PROVE  /\ stack[k].new \in LazyValues /\ stack[k].new # value'
               /\ stack[k].new \notin unused' /\ stack[k].new \notin dropped'
    BY <1>1, <2>2 DEF NewIsOwn
  <2>3. \A k \in DOMAIN stack : stack[k].at = "init" => stack[k].new = Lazy!NoValue
    BY <1>1 DEF NewIsOwn
  <2>4. \A j, k \in DOMAIN stack :
          stack[j].new = stack[k].new /\ stack[j].new # Lazy!NoValue => j = k
    BY <1>1 DEF NewIsOwn
  <2>5. \A k \in DOMAIN stack' :
          IF stack'[k].at = "init" THEN stack'[k].new = Lazy!NoValue
          ELSE /\ stack'[k].new \in LazyValues /\ stack'[k].new # value'
               /\ stack'[k].new \notin unused' /\ stack'[k].new \notin dropped'
    BY <1>3, <2>1, <2>2, <2>3
  <2> QED BY <1>3, <2>1, <2>4, <2>5 DEF NewIsOwn
<1>6. OuterInUserCode'
  <2>1. \A k \in DOMAIN stack' : k # Len(stack') => stack'[k].at \in {"init", "drop"}
    BY <1>1, <1>2, <1>3 DEF OuterInUserCode
  <2>2. ASSUME NEW k \in DOMAIN stack', stack'[k].at = "guard" PROVE state' # "Alive"
    <3>1. k = n
      BY <1>3, <2>1, <2>2
    <3> QED BY <1>3, <2>2, <3>1
  <2> QED BY <2>1, <2>2 DEF OuterInUserCode
<1>7. ASSUME NEW v \in LazyValues
      PROVE  v \in unused' \/ v \in dropped' \/ v = value' \/ \E k \in DOMAIN stack' : stack'[k].new = v
  BY <1>1, <1>3 DEF Accounted
<1> QED BY <1>4, <1>5, <1>6, <1>7

LEMMA LazyDropOld ==
  ASSUME LazyInv, Lazy!DropOld
  PROVE  LazyInv'
<1>1. LazyTypes /\ NewIsOwn /\ OuterInUserCode /\ OneDestructor /\ Accounted
  BY DEF LazyInv
<1>2. /\ stack # <<>> /\ stack[Len(stack)].at = "check" /\ state = "Alive" /\ state' = "Destroying"
      /\ dropped' = dropped \cup {value} /\ Lazy!Goto("drop") /\ value' = value
      /\ unused' = unused /\ result' = result
  BY DEF Lazy!DropOld, Lazy!Top
<1>3. value # Lazy!NoValue /\ value \in LazyValues
  BY <1>1, <1>2 DEF Accounted, LazyTypes
<1>4. /\ LazyTypes' /\ NewIsOwn' /\ OuterInUserCode'
      /\ \A v \in LazyValues : \/ v \in unused' \/ v \in dropped' \/ v = value'
                               \/ \E k \in DOMAIN stack' : stack'[k].new = v
  <2>1. state' \in Lazy!States /\ dropped' \in SUBSET LazyValues
    BY <1>1, <1>2, <1>3 DEF LazyTypes, Lazy!States
  <2> QED BY <1>2, <1>3, <2>1, LazyMoved
<1>5. PICK n : n = Len(stack)
  OBVIOUS
<1>6. /\ DOMAIN stack' = DOMAIN stack /\ stack'[n].at = "drop" /\ n \in DOMAIN stack
      /\ \A k \in DOMAIN stack : k # n => stack'[k].at = stack[k].at
  BY <1>1, <1>2, <1>5, LazyGoto, LazyStack DEF LazyTypes
<1>7. \A k \in DOMAIN stack : stack[k].at # "drop"
  BY <1>1, <1>2 DEF OneDestructor
<1>8. OneDestructor'
  BY <1>2, <1>6, <1>7 DEF OneDestructor
<1>9. Accounted'
  BY <1>1, <1>2, <1>3, <1>4 DEF Accounted
<1> QED BY <1>4, <1>8, <1>9 DEF LazyInv

LEMMA LazyDropped ==
  ASSUME LazyInv, Lazy!Dropped
  PROVE  LazyInv'
<1>1. LazyTypes /\ NewIsOwn /\ OuterInUserCode /\ OneDestructor /\ Accounted
  BY DEF LazyInv
<1>2. /\ stack # <<>> /\ stack[Len(stack)].at = "drop" /\ state' = "Initial"
      /\ dropped' = dropped /\ Lazy!Goto("guard") /\ value' = value
      /\ unused' = unused /\ result' = result
  BY DEF Lazy!Dropped, Lazy!Top
<1>3. /\ LazyTypes' /\ NewIsOwn' /\ OuterInUserCode'
      /\ \A v \in LazyValues : \/ v \in unused' \/ v \in dropped' \/ v = value'
                               \/ \E k \in DOMAIN stack' : stack'[k].new = v
  <2>1. state' \in Lazy!States /\ dropped' \in SUBSET LazyValues
    BY <1>1, <1>2 DEF LazyTypes, Lazy!States
  <2> QED BY <1>2, <2>1, LazyMoved
<1>4. PICK n : n = Len(stack)
  OBVIOUS
<1>5. /\ DOMAIN stack' = DOMAIN stack /\ stack'[n].at = "guard" /\ n \in DOMAIN stack
      /\ \A k \in DOMAIN stack : k # n => stack'[k].at = stack[k].at
  BY <1>1, <1>2, <1>4, LazyGoto, LazyStack DEF LazyTypes
<1>6. state = "Destroying" /\ \A k \in DOMAIN stack : k # n => stack[k].at # "drop"
  BY <1>1, <1>2, <1>4, <1>5 DEF OneDestructor
<1>7. OneDestructor'
  BY <1>2, <1>5, <1>6 DEF OneDestructor
<1>8. Accounted'
  BY <1>1, <1>2, <1>3, <1>6 DEF Accounted
<1> QED BY <1>3, <1>7, <1>8 DEF LazyInv

LEMMA LazyNotAlive ==
  ASSUME LazyInv, Lazy!NotAlive
  PROVE  LazyInv'
<1>1. LazyTypes /\ NewIsOwn /\ OuterInUserCode /\ OneDestructor /\ Accounted
  BY DEF LazyInv
<1>2. /\ stack # <<>> /\ stack[Len(stack)].at = "check" /\ state # "Alive" /\ state' = state
      /\ dropped' = dropped /\ Lazy!Goto("guard") /\ value' = value
      /\ unused' = unused /\ result' = result
  BY DEF Lazy!NotAlive, Lazy!Top
<1>3. /\ LazyTypes' /\ NewIsOwn' /\ OuterInUserCode'
      /\ \A v \in LazyValues : \/ v \in unused' \/ v \in dropped' \/ v = value'
                               \/ \E k \in DOMAIN stack' : stack'[k].new = v
  <2>1. state' \in Lazy!States /\ dropped' \in SUBSET LazyValues
    BY <1>1, <1>2 DEF LazyTypes
  <2> QED BY <1>2, <2>1, LazyMoved
<1>4. PICK n : n = Len(stack)
  OBVIOUS
<1>5. /\ DOMAIN stack' = DOMAIN stack /\ stack'[n].at = "guard" /\ n \in DOMAIN stack
      /\ \A k \in DOMAIN stack : k # n => stack'[k].at = stack[k].at
  BY <1>1, <1>2, <1>4, LazyGoto, LazyStack DEF LazyTypes
<1>6. \A k \in DOMAIN stack : stack'[k].at = "drop" <=> stack[k].at = "drop"
  BY <1>2, <1>4, <1>5
<1>7. OneDestructor'
  BY <1>1, <1>2, <1>5, <1>6 DEF OneDestructor
<1>8. Accounted'
  BY <1>1, <1>2, <1>3 DEF Accounted
<1> QED BY <1>3, <1>7, <1>8 DEF LazyInv

LEMMA LazyStore ==
  ASSUME LazyInv, Lazy!Store
  PROVE  LazyInv'
<1>1. LazyTypes /\ NewIsOwn /\ OuterInUserCode /\ OneDestructor /\ Accounted
  BY DEF LazyInv
<1>2. PICK n, new : n = Len(stack) /\ new = stack[n].new
  OBVIOUS
<1>3. /\ stack # <<>> /\ stack[n].at = "guard" /\ state # "Destroying" /\ state' = "Alive"
      /\ value' = new /\ stack' = SubSeq(stack, 1, n - 1) /\ result' = new
      /\ unused' = unused /\ dropped' = dropped
  BY <1>2 DEF Lazy!Store, Lazy!Top, Lazy!Pop
<1>4. /\ n \in Nat /\ DOMAIN stack = 1 .. n /\ n \in DOMAIN stack
      /\ \A k \in DOMAIN stack : stack[k] \in Lazy!Frame
  BY <1>1, <1>2, <1>3, LazyStack DEF LazyTypes
<1>5. /\ stack' \in Seq(Lazy!Frame) /\ DOMAIN stack' = DOMAIN stack \ {n} /\ Len(stack') = n - 1
      /\ \A k \in DOMAIN stack' : stack'[k] = stack[k]
  <2>1. stack' \in Seq(Lazy!Frame) /\ Len(stack') = n - 1
        /\ \A k \in 1 .. n - 1 : stack'[k] = stack[k]
    BY <1>1, <1>2, <1>3, <1>4 DEF LazyTypes
  <2>2. DOMAIN stack' = 1 .. n - 1
    BY <2>1
  <2> QED BY <1>4, <2>1, <2>2
<1>6. new \in LazyValues /\ new # value /\ new \notin unused /\ new \notin dropped /\ state # "Alive"
  BY <1>1, <1>2, <1>3, <1>4 DEF NewIsOwn, OuterInUserCode
<1>7. \A k \in DOMAIN stack' : stack[k].new # new /\ stack[k].at \in {"init", "drop"}
  BY <1>1, <1>2, <1>5, <1>6, <1>4, LazyNames DEF NewIsOwn, OuterInUserCode
<1>8. LazyTypes'
  BY <1>1, <1>3, <1>5, <1>6 DEF LazyTypes, Lazy!States
<1>9. NewIsOwn'
  <2>1. \A k \in DOMAIN stack' :
          IF stack'[k].at = "init" THEN stack'[k].new = Lazy!NoValue
          ELSE /\ stack'[k].new \in LazyValues /\ stack'[k].new # new
               /\ stack'[k].new \notin unused /\ stack'[k].new \notin dropped
    BY <1>1, <1>5, <1>7 DEF NewIsOwn
  <2>2. \A j, k \in DOMAIN stack' :
          stack'[j].new = stack'[k].new /\ stack'[j].new # Lazy!NoValue => j = k
    BY <1>1, <1>5 DEF NewIsOwn
  <2> QED BY <1>3, <2>1, <2>2 DEF NewIsOwn
<1>10. OuterInUserCode'
  BY <1>5, <1>7 DEF OuterInUserCode
<1>11. OneDestructor'
  <2>1. \A k \in DOMAIN stack' : stack'[k].at # "drop"
    BY <1>1, <1>3, <1>5 DEF OneDestructor
  <2> QED BY <1>3, <2>1 DEF OneDestructor
<1>12. Accounted'
  <2>1. ASSUME NEW v \in LazyValues
        PROVE  v \in unused \/ v \in dropped \/ v = new \/ \E k \in DOMAIN stack' : stack'[k].new = v
    <3>1. value \in dropped \cup {Lazy!NoValue}
      BY <1>1, <1>6 DEF Accounted
    <3>2. CASE \E k \in DOMAIN stack : stack[k].new = v
      BY <1>2, <1>5, <3>2
    <3>3. CASE v \in unused \/ v \in dropped \/ v = value
      BY <3>1, <3>3, LazyNames
    <3> QED BY <1>1, <3>2, <3>3 DEF Accounted
  <2> QED BY <1>1, <1>3, <1>6, <2>1, LazyNames DEF Accounted
<1> QED BY <1>8, <1>9, <1>10, <1>11, <1>12 DEF LazyInv

LEMMA LazyStep ==
  ASSUME LazyInv, Lazy!Next
  PROVE  LazyInv'
<1>1. CASE Lazy!GetAlive
  <2>1. value \in LazyValues \cup {Lazy!NoValue, Lazy!Panicked}
    BY DEF LazyInv, LazyTypes
  <2> QED BY <1>1, <2>1, LazyUnchanged DEF Lazy!GetAlive
<1>2. CASE Lazy!PanicInDrop
  BY <1>2, LazyUnchanged DEF Lazy!PanicInDrop
<1> QED
  BY <1>1, <1>2, LazyGetInitialize, LazyCreated, LazyDropOld, LazyDropped, LazyNotAlive, LazyStore
  DEF Lazy!Next

LEMMA LazySuffices ==
  ASSUME LazyInv
  PROVE  Lazy!ValuesAccountedFor
<1>1. LazyTypes /\ NewIsOwn /\ OuterInUserCode /\ OneDestructor /\ Accounted
  BY DEF LazyInv
<1>2. Lazy!TypeOK
  BY <1>1 DEF LazyTypes, Lazy!TypeOK
<1>3. Lazy!NothingStoredInDrop
  BY <1>1 DEF Lazy!NothingStoredInDrop, Lazy!Dropping, OneDestructor
<1>4. Lazy!AliveIsLive
  BY <1>1, <1>2, <1>3 DEF Lazy!AliveIsLive, Accounted
<1>5. Lazy!NoValueLost
  BY <1>1 DEF Lazy!NoValueLost, Accounted
<1> QED BY <1>4, <1>5 DEF Lazy!ValuesAccountedFor

-----------------------------------------------------------------------------
(* Locks.  GuardsExclude is inductive.                                     *)

(* The arithmetic of mode never wraps where the code allows a reader. *)
LEMMA WrapInside ==
  ASSUME Guards!MaxAssumption, NEW k \in Guards!MIN..MAX
  PROVE  Guards!Wrap(k) = k
<1>1. MAX \in Nat /\ Guards!MIN = -MAX - 1
  BY DEF Guards!MaxAssumption, Guards!MIN
<1>2. k - Guards!MIN \in 0..(2 * MAX + 1)
  BY <1>1
<1>3. (k - Guards!MIN) % (2 * MAX + 2) = k - Guards!MIN
  BY <1>1, <1>2
<1> QED BY <1>1, <1>3 DEF Guards!Wrap

LEMMA GuardsStart ==
  ASSUME Guards!MaxAssumption, Guards!Init
  PROVE  Guards!GuardsExclude
BY DEF Guards!MaxAssumption, Guards!Init, Guards!GuardsExclude, Guards!TypeOK,
       Guards!RwLockExcludes, Guards!MutexExcludes, Guards!MIN

(* What GuardsExclude says of one RwLock. *)
LEMMA RwLockFacts ==
  ASSUME Guards!MaxAssumption, Guards!GuardsExclude, NEW l \in RwLocks
  PROVE  /\ MAX \in Nat /\ MAX > 0 /\ Guards!MIN \in Int /\ Guards!MIN = -MAX - 1
         /\ mode[l] \in Int /\ mode[l] >= Guards!MIN /\ mode[l] <= MAX
         /\ readers[l] \in Nat
         /\ writer[l] \in BOOLEAN
         /\ writer[l] => mode[l] = -1 /\ readers[l] = 0
         /\ ~writer[l] => mode[l] = readers[l]
<1>1. MAX \in Nat /\ MAX > 0 /\ Guards!MIN \in Int /\ Guards!MIN = -MAX - 1
  BY DEF Guards!MaxAssumption, Guards!MIN
<1>2. mode[l] \in Guards!MIN..MAX /\ readers[l] \in Nat /\ writer[l] \in BOOLEAN
  BY DEF Guards!GuardsExclude, Guards!TypeOK
<1>3. mode[l] \in Int /\ mode[l] >= Guards!MIN /\ mode[l] <= MAX
  BY <1>1, <1>2
<1>4. /\ mode[l] = IF writer[l] THEN -1 ELSE readers[l]
      /\ writer[l] => readers[l] = 0
  BY DEF Guards!GuardsExclude, Guards!RwLockExcludes
<1> QED BY <1>1, <1>2, <1>3, <1>4

(* A step that gives one RwLock a mode that tells its new guards. *)
LEMMA OneRwLockExcludes ==
  ASSUME Guards!MaxAssumption, Guards!GuardsExclude, NEW l \in RwLocks,
         NEW m \in Guards!MIN..MAX, NEW r \in Nat, NEW w \in BOOLEAN,
         w => m = -1 /\ r = 0,
         ~w => m = r,
         mode' = [mode EXCEPT ![l] = m],
         readers' = [readers EXCEPT ![l] = r],
         writer' = [writer EXCEPT ![l] = w],
         UNCHANGED Guards!mx,
         ended' \in {ended, "no"}
  PROVE  Guards!GuardsExclude'
<1> USE DEF Guards!GuardsExclude
<1>1. /\ mode' \in [RwLocks -> Guards!MIN..MAX]
      /\ readers' \in [RwLocks -> Nat]
      /\ writer' \in [RwLocks -> BOOLEAN]
  BY DEF Guards!TypeOK
<1>2. Guards!TypeOK'
  BY <1>1 DEF Guards!TypeOK, Guards!mx, Guards!MIN
<1>3. ASSUME NEW k \in RwLocks
      PROVE  /\ mode'[k] = IF writer'[k] THEN -1 ELSE readers'[k]
             /\ writer'[k] => readers'[k] = 0
  <2>1. CASE k = l
    <3>1. mode'[k] = m /\ readers'[k] = r /\ writer'[k] = w
      BY <2>1 DEF Guards!TypeOK
    <3> QED BY <3>1
  <2>2. CASE k # l
    <3>1. mode'[k] = mode[k] /\ readers'[k] = readers[k] /\ writer'[k] = writer[k]
      BY <2>2 DEF Guards!TypeOK
    <3> QED BY <3>1 DEF Guards!RwLockExcludes
  <2> QED BY <2>1, <2>2
<1>4. ended' # "not locked"
  BY DEF Guards!RwLockExcludes
<1>5. Guards!RwLockExcludes'
  BY <1>3, <1>4 DEF Guards!RwLockExcludes
<1>6. Guards!MutexExcludes'
  BY DEF Guards!mx, Guards!MutexExcludes
<1> QED BY <1>2, <1>5, <1>6

(* What a step leaves alone is assigned its old value. *)
LEMMA SameReaders ==
  ASSUME Guards!GuardsExclude, NEW l \in RwLocks
  PROVE  readers = [readers EXCEPT ![l] = readers[l]] /\ writer = [writer EXCEPT ![l] = writer[l]]
BY DEF Guards!GuardsExclude, Guards!TypeOK

LEMMA AddReaderExcludes ==
  ASSUME Guards!MaxAssumption, Guards!GuardsExclude, NEW l \in RwLocks, Guards!AddReader(l),
         mode[l] >= 0, mode[l] < MAX
  PROVE  Guards!GuardsExclude'
<1>1. mode[l] + 1 \in Guards!MIN..MAX /\ readers[l] + 1 \in Nat
  BY RwLockFacts
<1>2. ~writer[l] /\ mode[l] + 1 = readers[l] + 1
  BY RwLockFacts
<1>3. mode' = [mode EXCEPT ![l] = mode[l] + 1]
  BY <1>1, WrapInside DEF Guards!AddReader
<1>4. readers' = [readers EXCEPT ![l] = readers[l] + 1]
  BY DEF Guards!AddReader
<1>5. writer' = [writer EXCEPT ![l] = FALSE]
  BY <1>2, SameReaders, RwLockFacts DEF Guards!AddReader
<1>6. UNCHANGED Guards!mx /\ ended' \in {ended, "no"}
  BY DEF Guards!AddReader
<1> QED BY <1>1, <1>2, <1>3, <1>4, <1>5, <1>6, OneRwLockExcludes

LEMMA AddWriterExcludes ==
  ASSUME Guards!MaxAssumption, Guards!GuardsExclude, NEW l \in RwLocks, Guards!AddWriter(l), mode[l] = 0
  PROVE  Guards!GuardsExclude'
<1>1. readers[l] = 0 /\ -1 \in Guards!MIN..MAX
  BY RwLockFacts
<1>2. mode' = [mode EXCEPT ![l] = -1] /\ writer' = [writer EXCEPT ![l] = TRUE]
  BY DEF Guards!AddWriter
<1>3. readers' = [readers EXCEPT ![l] = 0]
  BY <1>1, SameReaders DEF Guards!AddWriter
<1>4. UNCHANGED Guards!mx /\ ended' \in {ended, "no"}
  BY DEF Guards!AddWriter
<1> QED BY <1>1, <1>2, <1>3, <1>4, OneRwLockExcludes

(* A step that only ends the program, or changes nothing. *)
LEMMA EndExcludes ==
  ASSUME Guards!GuardsExclude, UNCHANGED <<Guards!rw, Guards!mx>>,
         ended' \in {ended, "locked for writing", "locked for reading",
                     "overflowed read locks", "recursively acquired", "cannot wait"}
  PROVE  Guards!GuardsExclude'
BY DEF Guards!GuardsExclude, Guards!TypeOK, Guards!RwLockExcludes, Guards!MutexExcludes,
       Guards!rw, Guards!mx, Guards!MIN

LEMMA UnlockExcludes ==
  ASSUME Guards!MaxAssumption, Guards!GuardsExclude, NEW l \in RwLocks,
         Guards!ReadUnlock(l) \/ Guards!WriteUnlock(l) \/ Guards!Downgrade(l)
  PROVE  Guards!GuardsExclude'
<1>1. CASE Guards!ReadUnlock(l)
  <2>1. readers[l] > 0
    BY <1>1 DEF Guards!ReadUnlock
  <2>2. ~writer[l] /\ mode[l] = readers[l]
    BY <2>1, RwLockFacts
  <2>3. mode[l] > 0 /\ mode[l] - 1 \in Guards!MIN..MAX /\ readers[l] - 1 \in Nat
    BY <2>1, <2>2, RwLockFacts
  <2>4. mode' = [mode EXCEPT ![l] = mode[l] - 1]
    BY <1>1, <2>3, WrapInside DEF Guards!ReadUnlock
  <2>5. readers' = [readers EXCEPT ![l] = readers[l] - 1]
    BY <1>1 DEF Guards!ReadUnlock
  <2>6. writer' = [writer EXCEPT ![l] = FALSE]
    BY <1>1, <2>2, SameReaders, RwLockFacts DEF Guards!ReadUnlock
  <2>7. UNCHANGED Guards!mx /\ ended' \in {ended, "no"}
    BY <1>1, <2>3 DEF Guards!ReadUnlock
  <2> QED BY <2>2, <2>3, <2>4, <2>5, <2>6, <2>7, OneRwLockExcludes
<1>2. CASE Guards!WriteUnlock(l)
  <2>1. mode[l] = -1 /\ readers[l] = 0
    BY <1>2, RwLockFacts DEF Guards!WriteUnlock
  <2>2. 0 \in Guards!MIN..MAX
    BY RwLockFacts
  <2>3. mode' = [mode EXCEPT ![l] = 0] /\ writer' = [writer EXCEPT ![l] = FALSE]
    BY <1>2 DEF Guards!WriteUnlock
  <2>4. readers' = [readers EXCEPT ![l] = 0]
    BY <1>2, <2>1, SameReaders DEF Guards!WriteUnlock
  <2>5. UNCHANGED Guards!mx /\ ended' \in {ended, "no"}
    BY <1>2, <2>1 DEF Guards!WriteUnlock
  <2> QED BY <2>2, <2>3, <2>4, <2>5, OneRwLockExcludes
<1>3. CASE Guards!Downgrade(l)
  <2>1. mode[l] = -1 /\ readers[l] = 0
    BY <1>3, RwLockFacts DEF Guards!Downgrade
  <2>2. 1 \in Guards!MIN..MAX
    BY RwLockFacts
  <2>3. mode' = [mode EXCEPT ![l] = 1] /\ writer' = [writer EXCEPT ![l] = FALSE]
    BY <1>3 DEF Guards!Downgrade
  <2>4. readers' = [readers EXCEPT ![l] = 1]
    BY <1>3, <2>1 DEF Guards!Downgrade
  <2>5. UNCHANGED Guards!mx /\ ended' \in {ended, "no"}
    BY <1>3, <2>1 DEF Guards!Downgrade
  <2> QED BY <2>2, <2>3, <2>4, <2>5, OneRwLockExcludes
<1> QED BY <1>1, <1>2, <1>3

LEMMA RwLockStepExcludes ==
  ASSUME Guards!MaxAssumption, Guards!GuardsExclude, NEW l \in RwLocks,
         Guards!Read(l) \/ Guards!TryRead(l) \/ Guards!Write(l) \/ Guards!TryWrite(l)
  PROVE  Guards!GuardsExclude'
<1>1. mode[l] \in Int /\ MAX \in Int /\ mode[l] <= MAX
  BY RwLockFacts
<1>2. CASE Guards!AddReader(l) /\ mode[l] >= 0 /\ mode[l] < MAX
  BY <1>2, AddReaderExcludes
<1>3. CASE Guards!AddWriter(l) /\ mode[l] = 0
  BY <1>3, AddWriterExcludes
<1>4. CASE UNCHANGED Guards!vars
  BY <1>4, EndExcludes DEF Guards!vars
<1>5. CASE Guards!End("locked for writing") \/ Guards!End("locked for reading") \/ Guards!End("overflowed read locks")
  BY <1>5, EndExcludes DEF Guards!End
<1>6. CASE Guards!Read(l)
  <2>1. CASE mode[l] < 0
    BY <1>5, <1>6, <2>1, Zenon DEF Guards!Read
  <2>2. CASE ~(mode[l] < 0) /\ mode[l] = MAX
    BY <1>5, <1>6, <2>2, Zenon DEF Guards!Read
  <2>3. CASE ~(mode[l] < 0) /\ mode[l] # MAX
    <3>1. Guards!AddReader(l)
      BY <1>6, <2>3, Zenon DEF Guards!Read
    <3>2. mode[l] >= 0 /\ mode[l] < MAX
      BY <1>1, <2>3
    <3> QED BY <1>2, <3>1, <3>2
  <2> QED BY <2>1, <2>2, <2>3
<1>7. CASE Guards!TryRead(l)
  BY <1>1, <1>2, <1>4, <1>7 DEF Guards!TryRead
<1>8. CASE Guards!Write(l)
  BY <1>3, <1>5, <1>8 DEF Guards!Write
<1>9. CASE Guards!TryWrite(l)
  BY <1>3, <1>4, <1>9 DEF Guards!TryWrite
<1> QED BY <1>6, <1>7, <1>8, <1>9

LEMMA MutexStepExcludes ==
  ASSUME Guards!GuardsExclude, NEW m \in Mutexes, Guards!Lock(m) \/ Guards!TryLock(m) \/ Guards!Unlock(m)
  PROVE  Guards!GuardsExclude'
<1> USE DEF Guards!GuardsExclude
<1>1. /\ locked \in [Mutexes -> BOOLEAN] /\ held \in [Mutexes -> Nat]
      /\ \A k \in Mutexes : held[k] = IF locked[k] THEN 1 ELSE 0
  BY DEF Guards!TypeOK, Guards!MutexExcludes
<1>2. UNCHANGED Guards!rw /\ ended' \in {ended, "recursively acquired"}
  BY DEF Guards!Lock, Guards!TryLock, Guards!Unlock, Guards!Hold
<1>3. \/ locked' = [locked EXCEPT ![m] = TRUE] /\ locked[m] /\ held' = held
      \/ locked' = [locked EXCEPT ![m] = TRUE] /\ ~locked[m] /\ held' = [held EXCEPT ![m] = held[m] + 1]
      \/ locked' = [locked EXCEPT ![m] = FALSE] /\ held[m] > 0 /\ held' = [held EXCEPT ![m] = held[m] - 1]
  BY DEF Guards!Lock, Guards!TryLock, Guards!Unlock, Guards!Hold
<1>4. held[m] = 0 \/ held[m] = 1
  BY <1>1
<1>5. locked' \in [Mutexes -> BOOLEAN] /\ held' \in [Mutexes -> Nat]
  <2>1. locked' \in [Mutexes -> BOOLEAN]
    BY <1>1, <1>3
  <2>2. held[m] + 1 \in Nat /\ (held[m] > 0 => held[m] - 1 \in Nat)
    BY <1>4
  <2>3. held' \in [Mutexes -> Nat]
    BY <1>1, <1>3, <2>2
  <2> QED BY <2>1, <2>3
<1>6. Guards!TypeOK'
  BY <1>2, <1>5 DEF Guards!TypeOK, Guards!rw, Guards!MIN
<1>7. Guards!RwLockExcludes'
  BY <1>2 DEF Guards!RwLockExcludes, Guards!rw
<1>8. ASSUME NEW k \in Mutexes PROVE held'[k] = IF locked'[k] THEN 1 ELSE 0
  <2>1. CASE k # m
    BY <1>1, <1>3, <2>1
  <2>2. CASE k = m
    BY <1>1, <1>3, <1>4, <2>2
  <2> QED BY <2>1, <2>2
<1>9. Guards!MutexExcludes'
  BY <1>8 DEF Guards!MutexExcludes
<1> QED BY <1>6, <1>7, <1>9

LEMMA GuardsStep ==
  ASSUME Guards!MaxAssumption, Guards!GuardsExclude, Guards!Next \/ UNCHANGED Guards!vars
  PROVE  Guards!GuardsExclude'
<1>1. CASE UNCHANGED Guards!vars \/ Guards!CondvarNotify
  BY <1>1, EndExcludes DEF Guards!vars, Guards!CondvarNotify
<1>2. CASE \E l \in RwLocks : Guards!Read(l) \/ Guards!TryRead(l) \/ Guards!Write(l) \/ Guards!TryWrite(l)
  BY <1>2, RwLockStepExcludes
<1>3. CASE \E l \in RwLocks : Guards!ReadUnlock(l) \/ Guards!WriteUnlock(l) \/ Guards!Downgrade(l)
  BY <1>3, UnlockExcludes
<1>4. CASE \E m \in Mutexes : Guards!Lock(m) \/ Guards!TryLock(m) \/ Guards!Unlock(m)
  BY <1>4, MutexStepExcludes
<1>5. CASE \E m \in Mutexes : Guards!CondvarWait(m)
  BY <1>5, EndExcludes DEF Guards!CondvarWait, Guards!End
<1> QED BY <1>1, <1>2, <1>3, <1>4, <1>5 DEF Guards!Next

-----------------------------------------------------------------------------
(* CommandEnv.  What a call leaves behind depends on what the entries and  *)
(* the two flags stand for, which EntriesAsAsked says.                     *)

(* The entry of a key, as what was asked for. *)
MeaningOf(entry, cleared) ==
  CASE entry = Env!Removed -> Env!Absent
    [] entry = Env!Absent -> IF cleared THEN Env!Absent ELSE Env!Inherit
    [] OTHER -> entry

(* An environment is only captured after clear, and is then all that was
   asked for. *)
CapturedAsAsked == captured # <<>> => clear /\ captured = <<asked>>

(* Only maybe_saw_path and clear can stop PATH from being inherited. *)
PathSeen == asked[PATH] # Env!Inherit => saw_path \/ clear

EnvInv == Env!TypeOK /\ Env!EntriesAsAsked /\ CapturedAsAsked /\ PathSeen

(* The three marks differ from each other and from the values. *)
LEMMA MarksDiffer ==
  ASSUME Env!ValuesAssumption
  PROVE  /\ Env!Absent # Env!Removed /\ Env!Absent # Env!Inherit /\ Env!Removed # Env!Inherit
         /\ \A v \in EnvValues : v # Env!Absent /\ v # Env!Removed /\ v # Env!Inherit
BY DEF Env!ValuesAssumption, Env!Absent, Env!Removed, Env!Inherit

(* EntriesAsAsked in terms of MeaningOf, for every key. *)
LEMMA EntriesMeaning ==
  Env!EntriesAsAsked <=> \A k \in Keys : asked[k] = MeaningOf(vars[k], clear)
BY DEF Env!EntriesAsAsked, MeaningOf

LEMMA MeaningFacts ==
  ASSUME Env!ValuesAssumption, NEW cleared \in BOOLEAN
  PROVE  /\ MeaningOf(Env!Removed, cleared) = Env!Absent
         /\ MeaningOf(Env!Absent, TRUE) = Env!Absent
         /\ MeaningOf(Env!Absent, FALSE) = Env!Inherit
         /\ \A v \in EnvValues : MeaningOf(v, cleared) = v
BY MarksDiffer DEF MeaningOf

LEMMA EnvStart ==
  ASSUME Env!PathAssumption, Env!ValuesAssumption, Env!Init
  PROVE  EnvInv
<1>1. Env!TypeOK
  BY DEF Env!Init, Env!TypeOK, Env!Nothing
<1>2. \A k \in Keys : asked[k] = MeaningOf(vars[k], clear)
  BY MeaningFacts DEF Env!Init, Env!Nothing
<1>3. Env!EntriesAsAsked
  BY <1>2, EntriesMeaning
<1>4. CapturedAsAsked
  BY DEF Env!Init, CapturedAsAsked
<1>5. PathSeen
  BY DEF Env!Init, PathSeen, Env!PathAssumption
<1> QED BY <1>1, <1>3, <1>4, <1>5 DEF EnvInv

(* set and remove: one entry and what was asked for it change together. *)
LEMMA EnvOneEntry ==
  ASSUME Env!PathAssumption, Env!ValuesAssumption, EnvInv,
         NEW key \in Keys, NEW entry \in EnvValues \cup {Env!Absent, Env!Removed},
         NEW meaning \in EnvValues \cup {Env!Absent},
         meaning = MeaningOf(entry, clear),
         Env!Return, Env!maybe_saw_path(key), UNCHANGED clear,
         vars' = [vars EXCEPT ![key] = entry],
         asked' = [asked EXCEPT ![key] = meaning]
  PROVE  EnvInv'
<1> USE DEF EnvInv
<1>1. Env!TypeOK'
  <2>1. vars' \in [Keys -> EnvValues \cup {Env!Absent, Env!Removed}]
    BY DEF Env!TypeOK
  <2>2. asked' \in [Keys -> EnvValues \cup {Env!Absent, Env!Inherit}]
    BY DEF Env!TypeOK
  <2>3. saw_path' \in BOOLEAN /\ clear' \in BOOLEAN /\ panicked' \in BOOLEAN /\ captured' = <<>>
    BY DEF Env!TypeOK, Env!maybe_saw_path, Env!Return
  <2> QED BY <2>1, <2>2, <2>3 DEF Env!TypeOK, Env!Environments
<1>2. ASSUME NEW k \in Keys PROVE asked'[k] = MeaningOf(vars'[k], clear)
  <2>1. CASE k = key
    BY <2>1 DEF Env!TypeOK
  <2>2. CASE k # key
    <3>1. asked'[k] = asked[k] /\ vars'[k] = vars[k]
      BY <2>2 DEF Env!TypeOK
    <3>2. asked[k] = MeaningOf(vars[k], clear)
      BY EntriesMeaning
    <3> QED BY <3>1, <3>2
  <2> QED BY <2>1, <2>2
<1>3. Env!EntriesAsAsked'
  BY <1>2 DEF Env!EntriesAsAsked, MeaningOf
<1>4. CapturedAsAsked'
  BY DEF CapturedAsAsked, Env!Return
<1>5. PathSeen'
  <2>1. CASE key = PATH
    BY <2>1 DEF PathSeen, Env!maybe_saw_path
  <2>2. CASE key # PATH
    <3>1. asked'[PATH] = asked[PATH]
      BY <2>2 DEF Env!TypeOK, Env!PathAssumption
    <3> QED BY <3>1 DEF PathSeen, Env!maybe_saw_path
  <2> QED BY <2>1, <2>2
<1> QED BY <1>1, <1>3, <1>4, <1>5

LEMMA EnvClear ==
  ASSUME Env!PathAssumption, Env!ValuesAssumption, EnvInv, Env!Clear
  PROVE  EnvInv'
<1>1. Env!TypeOK'
  BY DEF Env!Clear, Env!Return, Env!Nothing, Env!TypeOK, Env!Environments, EnvInv
<1>2. \A k \in Keys : asked'[k] = MeaningOf(vars'[k], clear')
  BY MeaningFacts DEF Env!Clear, Env!Nothing
<1>3. Env!EntriesAsAsked'
  BY <1>2 DEF Env!EntriesAsAsked, MeaningOf
<1>4. CapturedAsAsked' /\ PathSeen'
  BY DEF Env!Clear, Env!Return, CapturedAsAsked, PathSeen
<1> QED BY <1>1, <1>3, <1>4 DEF EnvInv

(* After clear, the entries over nothing are what was asked for. *)
LEMMA OverIsAsked ==
  ASSUME Env!ValuesAssumption, EnvInv, clear
  PROVE  Env!Over(Env!Nothing) = asked
<1>1. \A k \in Keys : asked[k] = MeaningOf(vars[k], TRUE)
  BY EntriesMeaning DEF EnvInv, Env!TypeOK
<1>2. ASSUME NEW k \in Keys PROVE Env!Over(Env!Nothing)[k] = asked[k]
  BY <1>1 DEF Env!Over, Env!Nothing, MeaningOf
<1>3. asked \in [Keys -> EnvValues \cup {Env!Absent, Env!Inherit}]
  BY DEF EnvInv, Env!TypeOK
<1> QED BY <1>2, <1>3 DEF Env!Over

LEMMA EnvCapture ==
  ASSUME Env!PathAssumption, Env!ValuesAssumption, EnvInv, Env!Capture
  PROVE  EnvInv'
<1> USE DEF EnvInv
<1>1. UNCHANGED <<clear, saw_path, vars, asked>>
  BY DEF Env!Capture, Env!changes
<1>2. Env!EntriesAsAsked' /\ PathSeen'
  BY <1>1 DEF Env!EntriesAsAsked, PathSeen
<1>3. CASE clear
  <2>1. captured' = <<asked>> /\ panicked' = FALSE
    BY <1>3, OverIsAsked DEF Env!Capture
  <2>2. asked \in Env!Environments
    <3>1. \A k \in Keys : asked[k] = MeaningOf(vars[k], TRUE)
      BY <1>3, EntriesMeaning DEF Env!TypeOK
    <3>2. \A k \in Keys : asked[k] \in EnvValues \cup {Env!Absent}
      BY <3>1 DEF Env!TypeOK, MeaningOf
    <3> QED BY <3>2 DEF Env!TypeOK, Env!Environments
  <2>3. Env!TypeOK'
    BY <1>1, <2>1, <2>2 DEF Env!TypeOK, Env!Environments
  <2>4. CapturedAsAsked'
    BY <1>1, <1>3, <2>1 DEF CapturedAsAsked
  <2> QED BY <1>2, <2>3, <2>4
<1>4. CASE ~clear
  <2>1. captured' = <<>> /\ panicked' = TRUE
    BY <1>4 DEF Env!Capture, Env!TypeOK
  <2>2. Env!TypeOK'
    BY <1>1, <2>1 DEF Env!TypeOK, Env!Environments
  <2>3. CapturedAsAsked'
    BY <2>1 DEF CapturedAsAsked
  <2> QED BY <1>2, <2>2, <2>3
<1> QED BY <1>3, <1>4

LEMMA EnvStep ==
  ASSUME Env!PathAssumption, Env!ValuesAssumption, EnvInv, Env!Next \/ UNCHANGED Env!all
  PROVE  EnvInv'
<1>1. CASE UNCHANGED Env!all
  BY <1>1
  DEF Env!all, Env!changes, EnvInv, Env!TypeOK, Env!Environments, Env!EntriesAsAsked,
      CapturedAsAsked, PathSeen
<1>2. CASE Env!Clear
  BY <1>2, EnvClear
<1>3. CASE Env!Capture
  BY <1>3, EnvCapture
<1>4. CASE Env!CaptureIfChanged
  <2>1. CASE Env!is_unchanged
    <3>1. captured' = <<>> /\ UNCHANGED <<clear, saw_path, vars, asked, panicked>>
      BY <1>4, <2>1 DEF Env!CaptureIfChanged, Env!Return, Env!changes
    <3> QED BY <3>1
    DEF EnvInv, Env!TypeOK, Env!Environments, Env!EntriesAsAsked, CapturedAsAsked, PathSeen
  <2>2. CASE ~Env!is_unchanged
    BY <1>4, <2>2, EnvCapture DEF Env!CaptureIfChanged
  <2> QED BY <2>1, <2>2
<1>5. ASSUME NEW key \in Keys, Env!Remove(key) PROVE EnvInv'
  <2>1. CASE clear
    <3>1. vars' = [vars EXCEPT ![key] = Env!Absent] /\ asked' = [asked EXCEPT ![key] = Env!Absent]
      BY <1>5, <2>1 DEF Env!Remove
    <3>2. Env!Absent = MeaningOf(Env!Absent, clear)
      BY <2>1, MarksDiffer, Zenon DEF MeaningOf
    <3> QED BY <1>5, <3>1, <3>2, EnvOneEntry DEF Env!Remove
  <2>2. CASE ~clear
    <3>1. vars' = [vars EXCEPT ![key] = Env!Removed] /\ asked' = [asked EXCEPT ![key] = Env!Absent]
      BY <1>5, <2>2 DEF Env!Remove
    <3>2. Env!Absent = MeaningOf(Env!Removed, clear)
      BY MarksDiffer DEF MeaningOf
    <3> QED BY <1>5, <3>1, <3>2, EnvOneEntry DEF Env!Remove
  <2> QED BY <2>1, <2>2
<1>6. ASSUME NEW key \in Keys, NEW v \in EnvValues, Env!Set(key, v) PROVE EnvInv'
  <2>1. v = MeaningOf(v, clear)
    BY MarksDiffer DEF MeaningOf
  <2> QED BY <1>6, <2>1, EnvOneEntry DEF Env!Set
<1> QED BY <1>1, <1>2, <1>3, <1>4, <1>5, <1>6 DEF Env!Next

LEMMA EnvSuffices ==
  ASSUME Env!PathAssumption, Env!ValuesAssumption, EnvInv
  PROVE  Env!EnvironmentAsAsked
<1> USE DEF EnvInv
<1>1. \A k \in Keys : asked[k] = MeaningOf(vars[k], clear)
  BY EntriesMeaning
<1>2. ASSUME NEW env \in Env!Environments, captured # <<>> PROVE captured = <<Env!Wanted(env)>>
  <2>1. clear /\ captured = <<asked>>
    BY <1>2 DEF CapturedAsAsked
  <2>2. \A k \in Keys : asked[k] # Env!Inherit
    BY <1>1, <2>1, MeaningFacts, MarksDiffer DEF Env!TypeOK
  <2>3. Env!Wanted(env) = asked
    BY <2>2 DEF Env!Wanted, Env!TypeOK
  <2> QED BY <2>1, <2>3
<1>3. ASSUME NEW env \in Env!Environments PROVE Env!Shell(env) = Env!Wanted(env)
  <2>1. ASSUME NEW k \in Keys PROVE Env!Shell(env)[k] = Env!Wanted(env)[k]
    <3>1. vars[k] \in EnvValues \cup {Env!Absent, Env!Removed}
      BY DEF Env!TypeOK
    <3>2. CASE vars[k] = Env!Removed
      BY <1>1, <3>2, MarksDiffer
      DEF Env!Shell, Env!Wanted, Env!PrintedSet, Env!PrintedUnset, MeaningOf
    <3>3. CASE vars[k] = Env!Absent
      BY <1>1, <3>3, MarksDiffer
      DEF Env!Shell, Env!Wanted, Env!PrintedSet, Env!PrintedUnset, MeaningOf
    <3>4. CASE vars[k] \in EnvValues
      BY <1>1, <3>4, MarksDiffer
      DEF Env!Shell, Env!Wanted, Env!PrintedSet, Env!PrintedUnset, MeaningOf
    <3> QED BY <3>1, <3>2, <3>3, <3>4
  <2> QED BY <2>1 DEF Env!Shell, Env!Wanted
<1>4. Env!is_unchanged => \A k \in Keys : asked[k] = Env!Inherit
  BY <1>1, MarksDiffer DEF Env!is_unchanged, MeaningOf
<1>5. asked[PATH] # Env!Inherit => Env!have_changed_path
  BY DEF PathSeen, Env!have_changed_path
<1> QED BY <1>2, <1>3, <1>4, <1>5 DEF Env!EnvironmentAsAsked

-----------------------------------------------------------------------------
(* The objects together.                                                   *)

ObjectsInv ==
  /\ part = "LazyStorage" => LazyInv
  /\ part = "Once" => OnceInv
  /\ part = "Locks" => Guards!GuardsExclude
  /\ part = "CommandEnv" => EnvInv
  /\ part = "OnceBox" => RacyInv

(* The invariant of every kind of object holds in all its behaviours.      *)
THEOREM ObjectsInvariance == Spec => []ObjectsInv
<1>1. Init => ObjectsInv
  BY LazyStarts, OnceStarts, GuardsStart, EnvStart, RacyStarts, GuardsAssumption, EnvAssumption
  DEF Init, ObjectsInv
<1>2. ObjectsInv /\ [Next]_all => ObjectsInv'
  <2> SUFFICES ASSUME ObjectsInv, [Next]_all PROVE ObjectsInv'
    OBVIOUS
  <2>1. CASE part = "LazyStorage" /\ Lazy!Next /\ part' = part
    BY <2>1, LazyStep DEF ObjectsInv
  <2>2. CASE part = "Once" /\ Onces!Next /\ part' = part
    BY <2>2, OnceStep DEF ObjectsInv
  <2>3. CASE part = "Locks" /\ Guards!Next /\ part' = part
    BY <2>3, GuardsStep, GuardsAssumption DEF ObjectsInv
  <2>4. CASE part = "CommandEnv" /\ Env!Next /\ part' = part
    BY <2>4, EnvStep, EnvAssumption DEF ObjectsInv
  <2>5. CASE part = "OnceBox" /\ Racy!Next /\ part' = part
    BY <2>5, RacyStep DEF ObjectsInv
  <2>6. CASE UNCHANGED all
    <3>1. part' = part /\ state' = state /\ panicked' = panicked /\ UNCHANGED lazy /\ UNCHANGED once
          /\ UNCHANGED locks /\ UNCHANGED environment /\ UNCHANGED box
      BY <2>6 DEF all
    <3>2. LazyInv => LazyInv'
      <4>1. LazyInv => result \in LazyValues \cup {Lazy!NoValue, Lazy!Panicked}
        BY DEF LazyInv, LazyTypes
      <4> QED BY <3>1, <4>1, LazyUnchanged DEF lazy
    <3>3. OnceInv => OnceInv'
      BY <3>1, OnceOnlyPanic DEF once
    <3>4. RacyInv => RacyInv'
      BY <3>1, RacyUnchanged DEF box, Racy!vars
    <3>5. (Guards!GuardsExclude => Guards!GuardsExclude') /\ (EnvInv => EnvInv')
      BY <3>1, GuardsStep, EnvStep, GuardsAssumption, EnvAssumption
      DEF locks, environment, Guards!vars, Guards!rw, Guards!mx, Env!all, Env!changes
    <3> QED BY <3>1, <3>2, <3>3, <3>4, <3>5 DEF ObjectsInv
  <2> QED BY <2>1, <2>2, <2>3, <2>4, <2>5, <2>6 DEF Next
<1> QED BY <1>1, <1>2, PTL DEF Spec

(* LazyStorage: however deep the initialiser and the destructor of a value *)
(* call get again, get hands out live values only and none is overwritten  *)
(* before its destructor has run.                                          *)
THEOREM LazyValuesAccountedFor == Spec => []ValuesAccountedFor
<1>1. ObjectsInv => ValuesAccountedFor
  BY LazySuffices DEF ObjectsInv, ValuesAccountedFor
<1> QED BY <1>1, ObjectsInvariance, PTL

(* Once: for any number of Onces whose closures call each other, no        *)
(* closure is started again while it runs, and poison is passed on.        *)
THEOREM OncesSound == Spec => []OnceSound
<1>1. ObjectsInv => OnceSound
  BY DEF ObjectsInv, OnceInv, OnceSound
<1> QED BY <1>1, ObjectsInvariance, PTL

(* RwLock and Mutex: whatever guards a program takes and drops, none       *)
(* stands beside a writer's.                                               *)
THEOREM LocksGuarded == Spec => []GuardsExclude
<1>1. ObjectsInv => GuardsExclude
  BY DEF ObjectsInv, GuardsExclude
<1> QED BY <1>1, ObjectsInvariance, PTL

(* CommandEnv: a child gets the environment that the calls asked for,      *)
(* captured or printed.                                                    *)
THEOREM EnvironmentKept == Spec => []EnvironmentAsAsked
<1>1. ObjectsInv => EnvironmentAsAsked
  BY EnvSuffices, EnvAssumption DEF ObjectsInv, EnvironmentAsAsked
<1> QED BY <1>1, ObjectsInvariance, PTL

(* OnceBox: any number of threads that race for the pointer end with the   *)
(* same live box, see it initialised, and free each box that lost, once.   *)
THEOREM BoxesAgree == Spec => []BoxAgreed
<1>1. ObjectsInv => BoxAgreed
  BY RacySuffices DEF ObjectsInv, BoxAgreed
<1> QED BY <1>1, ObjectsInvariance, PTL
=============================================================================
