--------------------------- MODULE BoardToolProofs ---------------------------
(***************************************************************************)
(* TLAPS: what the tools on the board keep of the firmware's settings of   *)
(* the power manager, for every number of windows and of writes; when a    *)
(* viewer reads outside of its mapping, for every address and page size;   *)
(* and that what it shows was true, for every ring and course of the       *)
(* counters.                                                               *)
(***************************************************************************)
EXTENDS BoardTool, TLAPS

Flags == {"own", "arm read", "read write", "malone"}

\* Where a tool is when it deals with no register, and with the malone register.
PlaceOK ==
    /\ \A t \in Tools : pc[t] = "start" => at[t] = 1
    /\ \A t \in Tools : pc[t] \in {"read malone", "write malone"} => at[t] = Malone

\* What a tool is about to write back holds the firmware's flags, unless the
\* firmware has raced with it.
HeldKept ==
    \A t \in Tools :
        pc[t] \in {"write", "write malone"} /\ at[t] \notin raced =>
            /\ fw[at[t]] \subseteq held[t] /\ held[t] \subseteq fw[at[t]] \cup Adds(at[t])
            /\ pc[t] = "write" /\ at[t] # Malone => fw[at[t]] # {}

SettingsInv == TypeOK /\ PlaceOK /\ HeldKept /\ SettingsKept

\* The steps of the viewer after it has the windows open, and of the firmware's
\* counters: the registers are not touched.
Views == GetAddress \/ Map \/ Read \/ Produce \/ Consume

-----------------------------------------------------------------------------
\* Flags and registers.
LEMMA FlagFacts ==
    /\ Malone \in Registers /\ 2 * Windows \in Registers
    /\ \A r \in Registers : r \in Nat /\ (r < 2 * Windows => r + 1 \in Registers)
    /\ \A r \in Registers : Need(r) \subseteq Flags /\ Adds(r) \subseteq Flags
    /\ \A r \in Registers : Need(r) # {} /\ Need(r) \subseteq Adds(r)
    /\ "malone" \in Adds(Malone)
    /\ \A r \in Registers : \A v \in Values(r) : v \subseteq {"own", "arm read", "read write"}
<1>1. Malone \in Registers /\ 2 * Windows \in Registers
  BY BoardToolAssumption DEF Malone, Registers
<1>2. \A r \in Registers : r \in Nat /\ (r < 2 * Windows => r + 1 \in Registers)
  BY BoardToolAssumption DEF Registers
<1>3. \A r \in Registers : Need(r) \in {{"arm read"}, {"read write"}}
  BY DEF Need
<1>4. ASSUME NEW r \in Registers, NEW v \in Values(r)
      PROVE  v \subseteq {"own", "arm read", "read write"}
  <2>1. \/ v = {} \/ v = {"own"} \/ v = {"own"} \cup Need(r) \/ v = Need(r)
    BY Zenon DEF Values
  <2> QED
    BY <2>1, <1>3
<1>5. ASSUME NEW r \in Registers
      PROVE  /\ Need(r) \subseteq Flags /\ Adds(r) \subseteq Flags
             /\ Need(r) # {} /\ Need(r) \subseteq Adds(r)
  BY <1>3 DEF Adds, Flags
<1>6. "malone" \in Adds(Malone)
  BY DEF Adds
<1> QED
  BY <1>1, <1>2, <1>4, <1>5, <1>6

LEMMA RegisterFacts ==
    /\ Windows \in Nat
    /\ \A r \in Registers : r \in Nat /\ 1 \leq r /\ r \leq 2 * Windows
BY BoardToolAssumption DEF Registers

\* What every action of pman_disable has in common.
LEMMA AdvanceFacts ==
    ASSUME TypeOK, NEW t \in Tools, Advance(t)
    PROVE  /\ at' \in [Tools -> Registers]
           /\ \A u \in Tools \ {t} : pc'[u] = pc[u] /\ at'[u] = at[u]
           /\ \/ pc'[t] = "read" /\ at[t] < 2 * Windows /\ at'[t] = at[t] + 1
              \/ /\ pc'[t] \in {"address", "read malone"} /\ at'[t] = Malone
                 /\ ~(at[t] < 2 * Windows)
           /\ pc' \in [Tools -> {"start", "read", "write", "read malone", "write malone",
                                 "address", "map", "show", "exit", "crashed"}]
<1> DEFINE Places == {"start", "read", "write", "read malone", "write malone",
                      "address", "map", "show", "exit", "crashed"}
<1>1. \A place : Goes(t, place) /\ place \in Places =>
          pc' \in [Tools -> Places] /\ pc'[t] = place /\ \A u \in Tools \ {t} : pc'[u] = pc[u]
  BY DEF TypeOK, Goes
<1>2. CASE at[t] < 2 * Windows
  <2>1. at' = [at EXCEPT ![t] = at[t] + 1] /\ Goes(t, "read")
    BY <1>2 DEF Advance
  <2> QED
    BY <1>1, <1>2, <2>1, FlagFacts DEF TypeOK
<1>3. CASE ~(at[t] < 2 * Windows)
  <2>1. /\ at' = [at EXCEPT ![t] = Malone]
        /\ Goes(t, "address") \/ Goes(t, "read malone")
    BY <1>3 DEF Advance
  <2> QED
    BY <1>1, <1>3, <2>1, FlagFacts DEF TypeOK
<1> QED
  BY <1>2, <1>3

LEMMA SettingsInit == Init => SettingsInv
<1> SUFFICES ASSUME Init PROVE SettingsInv
  OBVIOUS
<1>1. TypeOK
  <2>1. \A r \in Registers : reg[r] \subseteq {"own", "arm read", "read write"}
    BY FlagFacts DEF Init
  <2>2. reg = [r \in Registers |-> reg[r]] /\ fw = reg
    BY DEF Init
  <2>3. /\ reg \in [Registers -> SUBSET {"own", "arm read", "read write", "malone"}]
        /\ fw \in [Registers -> SUBSET {"own", "arm read", "read write"}]
    BY <2>1, <2>2
  <2>4. at \in [Tools -> Registers]
    BY FlagFacts DEF Init, Malone
  <2> QED
    BY <2>3, <2>4 DEF Init, TypeOK
<1>2. PlaceOK /\ HeldKept
  BY DEF Init, PlaceOK, HeldKept
<1>3. SettingsKept
  BY DEF Init, SettingsKept
<1> QED
  BY <1>1, <1>2, <1>3 DEF SettingsInv

\* The viewer's part leaves the invariant alone.
LEMMA ViewsKeep ==
    ASSUME SettingsInv, Views \/ UNCHANGED vars
    PROVE  SettingsInv'
<1> USE DEF SettingsInv
<1>1. CASE UNCHANGED vars
  BY <1>1 DEF vars, toolVars, TypeOK, PlaceOK, HeldKept, SettingsKept
<1>2. CASE Views
  <2>1. UNCHANGED <<at, held, reg, fw, dirty, raced, undone, writes>>
    BY <1>2 DEF Views, GetAddress, Map, Read, Produce, Consume, Pman, toolVars
  <2>2. /\ pc'["switch"] = pc["switch"] /\ pc' \in [Tools -> {"start", "read", "write",
                "read malone", "write malone", "address", "map", "show", "exit", "crashed"}]
        /\ pc'["viewer"] \in {"map", "show", "exit", "crashed"}
    BY <1>2 DEF Views, GetAddress, Map, Read, Produce, Consume, Goes, toolVars, TypeOK, Tools
  <2>3. kind' \in Kinds \cup {""} /\ demux' \in BOOLEAN /\ addr' \in Nat
    <3>1. CASE GetAddress
      <4>1. \A k \in Kinds : \A d \in MainOf(k).demux : d \in BOOLEAN
        BY DEF MainOf, esdesc, frameq, format, avsync, Kinds
      <4>2. CASE UNCHANGED <<addr, kind, demux>>
        BY <4>2 DEF TypeOK
      <4>3. CASE /\ addr' \in 0..Top /\ kind' \in Kinds
                 /\ demux' \in MainOf(kind').demux
        <5>1. demux' \in BOOLEAN
          BY <4>1, <4>3, Zenon
        <5>2. kind' \in Kinds \cup {""} /\ addr' \in Nat
          <6>1. addr' \in 0..Top /\ kind' \in Kinds
            BY <4>3, Zenon
          <6>2. kind' \in Kinds \cup {""}
            BY ONLY <6>1
          <6>3. addr' \in Nat
            BY ONLY <6>1, BoardToolAssumption DEF BoardToolAssumption
          <6> QED
            BY <6>2, <6>3, Zenon
        <5> QED
          BY <5>1, <5>2, Zenon
      <4> QED
        BY <3>1, <4>2, <4>3 DEF GetAddress
    <3>2. CASE Map \/ Read \/ Produce \/ Consume
      <4>1. UNCHANGED <<kind, demux, addr>>
        BY <3>2 DEF Map, Read, Produce, Consume, toolVars
      <4> QED
        BY <4>1 DEF TypeOK
    <3> QED
      BY <1>2, <3>1, <3>2 DEF Views
  <2>4. written' \in Nat /\ taken' \in Nat
    <3>1. CASE GetAddress
      <4>1. UNCHANGED <<written, taken>>
        BY <3>1, Zenon DEF GetAddress
      <4> HIDE <1>2, <3>1
      <4> QED
        BY <4>1 DEF TypeOK
    <3>2. CASE Map \/ Read \/ Produce \/ Consume
      <4>1. /\ written' = written \/ written' = written + 1
            /\ taken' = taken \/ taken' = taken + 1
        BY <3>2, Zenon DEF Map, Read, Produce, Consume
      <4>2. written \in Nat /\ taken \in Nat
        BY Zenon DEF TypeOK
      <4> QED
        BY ONLY <4>1, <4>2
    <3> QED
      BY <1>2, <3>1, <3>2, Zenon DEF Views
  <2>5. TypeOK'
    <3>1. undone' \in BOOLEAN
      BY <2>1, Zenon DEF TypeOK
    <3> QED
      BY <2>1, <2>2, <2>3, <2>4, <3>1, Zenon DEF TypeOK
  <2>6. PlaceOK' /\ HeldKept'
    BY <2>1, <2>2 DEF PlaceOK, HeldKept, Tools
  <2>7. SettingsKept'
    BY <2>1 DEF SettingsKept
  <2> QED
    BY <2>5, <2>6, <2>7
<1> QED
  BY <1>1, <1>2

\* A step of the firmware or of word.
LEMMA WordKeeps ==
    ASSUME SettingsInv, NEW r \in Registers, NEW value \in Values(r), WriteWord(r, value)
    PROVE  SettingsInv'
<1> USE DEF SettingsInv, WriteWord, Rest
<1>1. value \subseteq {"own", "arm read", "read write"}
  BY FlagFacts
<1>2. TypeOK'
  <2>1. /\ reg' \in [Registers -> SUBSET {"own", "arm read", "read write", "malone"}]
        /\ fw' \in [Registers -> SUBSET {"own", "arm read", "read write"}]
    BY <1>1 DEF TypeOK
  <2>2. dirty' \in [Tools -> SUBSET Registers] /\ raced' \subseteq Registers
    BY DEF TypeOK
  <2>3. writes' \in Nat
    <3>1. writes \in Nat /\ writes' = writes + 1
      BY Zenon DEF TypeOK
    <3> QED
      BY ONLY <3>1
  <2>4. UNCHANGED <<pc, at, held, undone, kind, demux, addr, written, taken>>
    OBVIOUS
  <2>5. undone' \in BOOLEAN /\ demux' \in BOOLEAN
    BY <2>4, Zenon DEF TypeOK
  <2> QED
    BY <2>1, <2>2, <2>3, <2>4, <2>5, Zenon DEF TypeOK
<1>3. PlaceOK'
  BY DEF PlaceOK
<1>4. HeldKept'
  <2> SUFFICES ASSUME NEW t \in Tools, pc[t] \in {"write", "write malone"}, at[t] \notin raced'
               PROVE  /\ fw'[at[t]] \subseteq held[t] /\ held[t] \subseteq fw'[at[t]] \cup Adds(at[t])
                      /\ pc[t] = "write" /\ at[t] # Malone => fw'[at[t]] # {}
    BY DEF HeldKept
  <2>1. at[t] # r
    BY DEF Holds, TypeOK
  <2>2. at[t] \notin raced /\ fw'[at[t]] = fw[at[t]]
    BY <2>1 DEF TypeOK
  <2> QED
    BY <2>2 DEF HeldKept
<1>5. SettingsKept'
  <2> SUFFICES ASSUME NEW q \in Registers, q \notin raced'
               PROVE  /\ fw'[q] \subseteq reg'[q] /\ reg'[q] \subseteq fw'[q] \cup Adds(q)
                      /\ fw'[q] = {} /\ q # Malone => reg'[q] = {}
    BY DEF SettingsKept
  <2>1. CASE q = r
    BY <2>1 DEF TypeOK
  <2>2. CASE q # r
    BY <2>2 DEF TypeOK, SettingsKept
  <2> QED
    BY <2>1, <2>2
<1> QED
  BY <1>2, <1>3, <1>4, <1>5

\* The steps of pman_disable, in whichever tool.
LEMMA PmanKeeps ==
    ASSUME SettingsInv, NEW t \in Tools,
           Start(t) \/ ReadReg(t) \/ WriteReg(t) \/ ReadMalone(t) \/ WriteMalone(t)
    PROVE  SettingsInv'
<1> USE DEF SettingsInv
<1>1. UNCHANGED <<kind, demux, addr, written, taken, fw, raced, writes>>
  BY DEF Start, ReadReg, WriteReg, ReadMalone, WriteMalone, Rest
<1>2. CASE Start(t)
  <2>1. UNCHANGED <<at, held, reg, dirty, undone>>
    BY <1>2 DEF Start
  <2>2. /\ pc' \in [Tools -> {"start", "read", "write", "read malone", "write malone",
                             "address", "map", "show", "exit", "crashed"}]
        /\ \A u \in Tools : pc'[u] = pc[u] \/ pc'[u] \in {"read", "crashed", "exit"}
    BY <1>2 DEF Start, Goes, TypeOK
  <2>3. TypeOK'
    BY <1>1, <2>1, <2>2, Zenon DEF TypeOK
  <2>4. PlaceOK' /\ HeldKept'
    BY <1>1, <2>1, <2>2 DEF PlaceOK, HeldKept
  <2>5. SettingsKept'
    BY <1>1, <2>1 DEF SettingsKept
  <2> QED
    BY <2>3, <2>4, <2>5
<1>3. CASE ReadReg(t)
  <2>1. /\ UNCHANGED <<reg, undone>> /\ held' = [held EXCEPT ![t] = reg[at[t]]]
        /\ dirty' = [dirty EXCEPT ![t] = dirty[t] \ {at[t]}]
        /\ pc[t] = "read" /\ held'[t] = reg[at[t]]
    BY <1>3 DEF ReadReg, TypeOK
  <2>2. \/ /\ Lacks(at[t], reg[at[t]]) /\ at' = at /\ Goes(t, "write")
        \/ Advance(t)
    BY <1>3, <2>1 DEF ReadReg
  <2>3. /\ \A u \in Tools \ {t} : pc'[u] = pc[u] /\ at'[u] = at[u] /\ held'[u] = held[u]
        /\ \/ pc'[t] = "write" /\ Lacks(at[t], reg[at[t]]) /\ at'[t] = at[t]
           \/ pc'[t] \in {"read", "address"}
           \/ pc'[t] = "read malone" /\ at'[t] = Malone
        /\ pc' \in [Tools -> {"start", "read", "write", "read malone", "write malone",
                             "address", "map", "show", "exit", "crashed"}]
        /\ at' \in [Tools -> Registers]
    <3>1. CASE Advance(t)
      BY <2>1, <3>1, AdvanceFacts, Zenon DEF TypeOK
    <3>2. CASE Lacks(at[t], reg[at[t]]) /\ at' = at /\ Goes(t, "write")
      BY <2>1, <3>2 DEF Goes, TypeOK
    <3> QED
      BY <2>2, <3>1, <3>2
  <2>4. TypeOK'
    <3>1. held' \in [Tools -> SUBSET {"own", "arm read", "read write", "malone"}]
      BY <2>1 DEF TypeOK
    <3>2. dirty' \in [Tools -> SUBSET Registers]
      BY <2>1 DEF TypeOK
    <3> QED
      BY <1>1, <2>1, <2>3, <3>1, <3>2, Zenon DEF TypeOK
  <2>5. PlaceOK'
    BY <2>3 DEF PlaceOK
  <2>6. HeldKept'
    <3> SUFFICES ASSUME NEW u \in Tools, pc'[u] \in {"write", "write malone"},
                        at'[u] \notin raced
                 PROVE  /\ fw[at'[u]] \subseteq held'[u]
                        /\ held'[u] \subseteq fw[at'[u]] \cup Adds(at'[u])
                        /\ pc'[u] = "write" /\ at'[u] # Malone => fw[at'[u]] # {}
      BY <1>1 DEF HeldKept
    <3>1. CASE u # t
      BY <2>3, <3>1 DEF HeldKept
    <3>2. CASE u = t
      <4>1. pc'[t] = "write" /\ Lacks(at[t], reg[at[t]]) /\ at'[t] = at[t]
        BY <2>3, <3>2
      <4>2. at[t] \in Registers \ raced /\ reg[at[t]] # {}
        BY <3>2, <4>1 DEF TypeOK, Lacks
      <4> QED
        BY <2>1, <3>2, <4>1, <4>2 DEF SettingsKept
    <3> QED
      BY <3>1, <3>2
  <2>7. SettingsKept'
    BY <1>1, <2>1 DEF SettingsKept
  <2> QED
    BY <2>4, <2>5, <2>6, <2>7
<1>4. CASE WriteReg(t)
  <2>1. /\ reg' = [reg EXCEPT ![at[t]] = held[t] \cup Need(at[t])] /\ pc[t] = "write"
        /\ UNCHANGED <<held, dirty, undone>> /\ Advance(t) /\ at[t] \in Registers
    BY <1>4 DEF WriteReg, TypeOK
  <2>2. /\ \A u \in Tools \ {t} : pc'[u] = pc[u] /\ at'[u] = at[u]
        /\ pc'[t] \in {"read", "address"} \/ (pc'[t] = "read malone" /\ at'[t] = Malone)
        /\ pc' \in [Tools -> {"start", "read", "write", "read malone", "write malone",
                             "address", "map", "show", "exit", "crashed"}]
        /\ at' \in [Tools -> Registers]
    BY <2>1, AdvanceFacts, Zenon
  <2>3. TypeOK'
    <3>1. held[t] \cup Need(at[t]) \subseteq Flags
      BY <2>1, FlagFacts DEF TypeOK, Flags
    <3>2. reg' \in [Registers -> SUBSET {"own", "arm read", "read write", "malone"}]
      BY <2>1, <3>1 DEF TypeOK, Flags
    <3> QED
      BY <1>1, <2>1, <2>2, <3>2, Zenon DEF TypeOK
  <2>4. PlaceOK' /\ HeldKept'
    BY <1>1, <2>1, <2>2 DEF PlaceOK, HeldKept
  <2>5. SettingsKept'
    <3> SUFFICES ASSUME NEW q \in Registers, q \notin raced
                 PROVE  /\ fw[q] \subseteq reg'[q] /\ reg'[q] \subseteq fw[q] \cup Adds(q)
                        /\ fw[q] = {} /\ q # Malone => reg'[q] = {}
      BY <1>1 DEF SettingsKept
    <3>1. CASE q # at[t]
      BY <2>1, <3>1 DEF SettingsKept, TypeOK
    <3>2. CASE q = at[t]
      <4>1. reg'[q] = held[t] \cup Need(q) /\ Need(q) \subseteq Adds(q)
        BY <2>1, <3>2, FlagFacts DEF TypeOK
      <4>2. /\ fw[q] \subseteq held[t] /\ held[t] \subseteq fw[q] \cup Adds(q)
            /\ q # Malone => fw[q] # {}
        BY <2>1, <3>2 DEF HeldKept
      <4> QED
        BY <4>1, <4>2
    <3> QED
      BY <3>1, <3>2
  <2> QED
    BY <2>3, <2>4, <2>5
<1>5. CASE ReadMalone(t)
  <2>1. /\ held' = [held EXCEPT ![t] = reg[Malone]] /\ pc' = [pc EXCEPT ![t] = "write malone"]
        /\ pc[t] = "read malone" /\ at[t] = Malone /\ UNCHANGED <<at, reg, dirty, undone>>
    BY <1>5 DEF ReadMalone, Goes, PlaceOK
  <2>2. TypeOK'
    <3>1. held' \in [Tools -> SUBSET {"own", "arm read", "read write", "malone"}]
      BY <2>1, FlagFacts DEF TypeOK
    <3>2. pc' \in [Tools -> {"start", "read", "write", "read malone", "write malone",
                            "address", "map", "show", "exit", "crashed"}]
      BY <2>1 DEF TypeOK
    <3> QED
      BY <1>1, <2>1, <3>1, <3>2, Zenon DEF TypeOK
  <2>3. PlaceOK'
    BY <2>1 DEF PlaceOK, TypeOK
  <2>4. HeldKept'
    <3> SUFFICES ASSUME NEW u \in Tools, pc'[u] \in {"write", "write malone"},
                        at[u] \notin raced
                 PROVE  /\ fw[at[u]] \subseteq held'[u]
                        /\ held'[u] \subseteq fw[at[u]] \cup Adds(at[u])
                        /\ pc'[u] = "write" /\ at[u] # Malone => fw[at[u]] # {}
      BY <1>1, <2>1 DEF HeldKept
    <3>1. CASE u # t
      BY <2>1, <3>1 DEF HeldKept, TypeOK
    <3>2. CASE u = t
      <4>1. held'[t] = reg[Malone] /\ pc'[t] = "write malone" /\ Malone \in Registers
        BY <2>1, FlagFacts DEF TypeOK
      <4> QED
        BY <2>1, <3>2, <4>1 DEF SettingsKept
    <3> QED
      BY <3>1, <3>2
  <2>5. SettingsKept'
    BY <1>1, <2>1 DEF SettingsKept
  <2> QED
    BY <2>2, <2>3, <2>4, <2>5
<1>6. CASE WriteMalone(t)
  <2>1. /\ reg' = [reg EXCEPT ![Malone] = held[t] \cup {"malone"}]
        /\ pc' = [pc EXCEPT ![t] = "exit"] /\ pc[t] = "write malone" /\ at[t] = Malone
        /\ UNCHANGED <<at, held, dirty>> /\ undone' = (undone \/ held[t] # reg[Malone])
    BY <1>6 DEF WriteMalone, Goes, PlaceOK
  <2>2. TypeOK'
    <3>1. reg' \in [Registers -> SUBSET {"own", "arm read", "read write", "malone"}]
      BY <2>1 DEF TypeOK
    <3>2. pc' \in [Tools -> {"start", "read", "write", "read malone", "write malone",
                            "address", "map", "show", "exit", "crashed"}]
      BY <2>1 DEF TypeOK
    <3>3. undone' \in BOOLEAN
      BY <2>1, Zenon
    <3> QED
      BY <1>1, <2>1, <3>1, <3>2, <3>3, Zenon DEF TypeOK
  <2>3. PlaceOK' /\ HeldKept'
    <3>1. pc'[t] = "exit" /\ \A u \in Tools \ {t} : pc'[u] = pc[u]
      BY <2>1 DEF TypeOK
    <3>2. PlaceOK'
      BY <2>1, <3>1 DEF PlaceOK
    <3>3. HeldKept'
      BY <1>1, <2>1, <3>1 DEF HeldKept
    <3> QED
      BY <3>2, <3>3
  <2>4. SettingsKept'
    <3> SUFFICES ASSUME NEW q \in Registers, q \notin raced
                 PROVE  /\ fw[q] \subseteq reg'[q] /\ reg'[q] \subseteq fw[q] \cup Adds(q)
                        /\ fw[q] = {} /\ q # Malone => reg'[q] = {}
      BY <1>1 DEF SettingsKept
    <3>1. CASE q # Malone
      BY <2>1, <3>1 DEF SettingsKept, TypeOK
    <3>2. CASE q = Malone
      <4>1. reg'[Malone] = held[t] \cup {"malone"} /\ {"malone"} \subseteq Adds(Malone)
        BY <2>1, <3>2 DEF TypeOK, Adds
      <4>2. fw[Malone] \subseteq held[t] /\ held[t] \subseteq fw[Malone] \cup Adds(Malone)
        BY <2>1, <3>2 DEF HeldKept
      <4> QED
        BY <3>2, <4>1, <4>2
    <3> QED
      BY <3>1, <3>2
  <2> QED
    BY <2>2, <2>3, <2>4
<1> QED
  BY <1>2, <1>3, <1>4, <1>5, <1>6

LEMMA SettingsStep ==
    ASSUME SettingsInv, [Next]_vars
    PROVE  SettingsInv'
<1>1. CASE \E t \in Tools :
               Start(t) \/ ReadReg(t) \/ WriteReg(t) \/ ReadMalone(t) \/ WriteMalone(t)
  BY <1>1, PmanKeeps
<1>2. CASE \E r \in Registers : \E value \in Values(r) : WriteWord(r, value)
  BY <1>2, WordKeeps
<1>3. CASE Views \/ UNCHANGED vars
  BY <1>3, ViewsKeep
<1> QED
  BY <1>1, <1>2, <1>3 DEF Next, Views

-----------------------------------------------------------------------------
\* Types, places, what is held and what is kept, in every reachable state.
THEOREM SettingsInvariant == Spec => []SettingsInv
<1> QED
  BY SettingsInit, SettingsStep, PTL DEF Spec

\* pman_disable: a tool that adds flags without a lock loses a setting of the
\* firmware only if that was made between the tool's read and its write.
THEOREM SettingsAreKept == Spec => []SettingsKept
<1>1. SettingsInv => SettingsKept
  BY DEF SettingsInv
<1> QED
  BY <1>1, SettingsInvariant, PTL

-----------------------------------------------------------------------------
(***************************************************************************)
(* A window that a tool has opened stays open.                             *)
(***************************************************************************)

\* What a register must hold once a tool has passed it.
OpenOrUnused(r) == reg[r] \subseteq {"malone"} \/ Need(r) \subseteq reg[r]

\* What passes with Advance is the register dealt with, if that is as it should be.
LEMMA AdvancePasses ==
    ASSUME TypeOK, NEW t \in Tools, Advance(t), pc[t] \in {"read", "write"},
           NEW r \in Registers, Passed(t, r)'
    PROVE  r = at[t] \/ Passed(t, r)
<1>1. r \in Nat /\ at[t] \in Nat /\ r \leq 2 * Windows
  BY RegisterFacts DEF TypeOK
<1>2. CASE pc'[t] = "read" /\ at'[t] = at[t] + 1
  <2>1. r < at[t] + 1
    BY <1>2 DEF Passed
  <2>2. r < at[t] \/ r = at[t]
    BY <1>1, <2>1
  <2> QED
    BY <2>2 DEF Passed
<1>3. CASE ~(at[t] < 2 * Windows)
  <2>1. r < at[t] \/ r = at[t]
    BY <1>1, <1>3, RegisterFacts
  <2> QED
    BY <2>1 DEF Passed
<1> QED
  BY <1>2, <1>3, AdvanceFacts

LEMMA OpenedStep ==
    ASSUME SettingsInv, OpenedStaysOpen, [Next]_vars
    PROVE  OpenedStaysOpen'
<1> USE DEF SettingsInv
<1> SUFFICES ASSUME NEW u \in Tools, NEW r \in Registers, Passed(u, r)', r \notin dirty'[u],
                    r = Malone => ~undone'
             PROVE  OpenOrUnused(r)'
  BY DEF OpenedStaysOpen, OpenOrUnused
<1>0. Passed(u, r) /\ r \notin dirty[u] /\ (r = Malone => ~undone) => OpenOrUnused(r)
  BY DEF OpenedStaysOpen, OpenOrUnused
<1>1. CASE Views \/ UNCHANGED vars
  <2>1. UNCHANGED <<at, reg, dirty, undone>>
    BY <1>1, Zenon DEF Views, GetAddress, Map, Read, Produce, Consume, Pman, toolVars, vars
  <2>2. \A t \in Tools : pc'[t] = pc[t] \/ (pc[t] \in {"address", "map", "show"}
                                           /\ pc'[t] \in {"map", "show", "exit", "crashed"})
    BY <1>1 DEF Views, GetAddress, Map, Read, Produce, Consume, Goes, toolVars, vars, TypeOK
  <2>3. Passed(u, r)
    BY <2>1, <2>2 DEF Passed
  <2> QED
    BY <1>0, <2>1, <2>3 DEF OpenOrUnused
<1>2. ASSUME NEW q \in Registers, NEW value \in Values(q), WriteWord(q, value)
      PROVE  OpenOrUnused(r)'
  <2>1. Passed(u, r) /\ r \notin dirty[u] /\ r # q /\ UNCHANGED undone
    BY <1>2 DEF WriteWord, Passed
  <2>2. reg'[r] = reg[r]
    BY <1>2, <2>1 DEF WriteWord, TypeOK
  <2> QED
    BY <1>0, <2>1, <2>2 DEF OpenOrUnused
<1>3. ASSUME NEW t \in Tools, Start(t)
      PROVE  OpenOrUnused(r)'
  <2>1. UNCHANGED <<at, reg, dirty, undone>> /\ pc[t] = "start" /\ at[t] = 1
        /\ (\A v \in Tools \ {t} : pc'[v] = pc[v]) /\ pc'[t] \in {"read", "crashed", "exit"}
    BY <1>3 DEF Start, Goes, TypeOK, PlaceOK
  <2>2. Passed(u, r)
    <3>1. ~(r < at[t])
      BY <2>1, RegisterFacts
    <3> QED
      BY <2>1, <3>1 DEF Passed
  <2> QED
    BY <1>0, <2>1, <2>2 DEF OpenOrUnused
<1>4. ASSUME NEW t \in Tools, ReadReg(t)
      PROVE  OpenOrUnused(r)'
  <2>1. /\ UNCHANGED <<reg, undone>> /\ held'[t] = reg[at[t]] /\ pc[t] = "read"
        /\ at[t] \in Registers
        /\ \A v \in Tools : dirty[v] \ {at[t]} \subseteq dirty'[v]
        /\ \A v \in Tools \ {t} : dirty'[v] = dirty[v]
    BY <1>4 DEF ReadReg, TypeOK
  <2>2. CASE Lacks(at[t], reg[at[t]]) /\ at' = at /\ pc' = [pc EXCEPT ![t] = "write"]
    <3>1. Passed(u, r) /\ (u = t => r # at[t])
      <4>1. r < at[t] => r # at[t]
        BY <2>1, RegisterFacts
      <4> QED
        BY <2>1, <2>2, <4>1 DEF Passed, TypeOK
    <3> QED
      BY <1>0, <2>1, <3>1 DEF OpenOrUnused
  <2>3. CASE Advance(t) /\ ~Lacks(at[t], reg[at[t]])
    <3>1. reg[at[t]] = {} \/ Need(at[t]) \subseteq reg[at[t]]
      BY <2>3 DEF Lacks
    <3>2. CASE r = at[t]
      BY <2>1, <3>1, <3>2 DEF OpenOrUnused
    <3>3. CASE r # at[t]
      <4>1. Passed(u, r)
        <5>1. CASE u = t
          BY <2>1, <2>3, <3>3, <5>1, AdvancePasses
        <5>2. CASE u # t
          BY <2>3, <5>2, AdvanceFacts DEF Passed
        <5> QED
          BY <5>1, <5>2
      <4> QED
        BY <1>0, <2>1, <3>3, <4>1 DEF OpenOrUnused
    <3> QED
      BY <3>2, <3>3
  <2> QED
    BY <1>4, <2>1, <2>2, <2>3 DEF ReadReg, Goes
<1>5. ASSUME NEW t \in Tools, WriteReg(t)
      PROVE  OpenOrUnused(r)'
  <2>1. /\ reg' = [reg EXCEPT ![at[t]] = held[t] \cup Need(at[t])] /\ pc[t] = "write"
        /\ UNCHANGED <<dirty, undone>> /\ Advance(t) /\ at[t] \in Registers
    BY <1>5 DEF WriteReg, TypeOK
  <2>2. CASE r = at[t]
    BY <2>1, <2>2 DEF OpenOrUnused, TypeOK
  <2>3. CASE r # at[t]
    <3>1. Passed(u, r)
      <4>1. CASE u = t
        BY <2>1, <2>3, <4>1, AdvancePasses
      <4>2. CASE u # t
        BY <2>1, <4>2, AdvanceFacts DEF Passed
      <4> QED
        BY <4>1, <4>2
    <3>2. reg'[r] = reg[r]
      BY <2>1, <2>3 DEF TypeOK
    <3> QED
      BY <1>0, <2>1, <3>1, <3>2 DEF OpenOrUnused
  <2> QED
    BY <2>2, <2>3
<1>6. ASSUME NEW t \in Tools, ReadMalone(t)
      PROVE  OpenOrUnused(r)'
  <2>1. UNCHANGED <<at, reg, dirty, undone>> /\ pc[t] = "read malone"
        /\ pc' = [pc EXCEPT ![t] = "write malone"]
    BY <1>6 DEF ReadMalone, Goes
  <2>2. Passed(u, r)
    BY <2>1 DEF Passed, TypeOK
  <2> QED
    BY <1>0, <2>1, <2>2 DEF OpenOrUnused
<1>7. ASSUME NEW t \in Tools, WriteMalone(t)
      PROVE  OpenOrUnused(r)'
  <2>1. /\ reg' = [reg EXCEPT ![Malone] = held[t] \cup {"malone"}] /\ UNCHANGED <<at, dirty>>
        /\ undone' = (undone \/ held[t] # reg[Malone])
        /\ pc' = [pc EXCEPT ![t] = "exit"]
    BY <1>7 DEF WriteMalone, Goes
  <2>2. Passed(u, r)
    BY <2>1 DEF Passed, TypeOK
  <2>3. CASE r = Malone
    <3>1. ~undone /\ held[t] = reg[Malone]
      BY <2>1, <2>3, Zenon
    <3>2. reg'[r] = reg[r] \cup {"malone"}
      BY <2>1, <2>3, <3>1 DEF TypeOK
    <3>3. OpenOrUnused(r)
      BY <1>0, <2>1, <2>2, <3>1
    <3> QED
      BY <3>2, <3>3 DEF OpenOrUnused
  <2>4. CASE r # Malone
    <3>1. reg'[r] = reg[r]
      BY <2>1, <2>4 DEF TypeOK
    <3> QED
      BY <1>0, <2>1, <2>2, <2>4, <3>1 DEF OpenOrUnused
  <2> QED
    BY <2>3, <2>4
<1> QED
  BY <1>1, <1>2, <1>3, <1>4, <1>5, <1>6, <1>7 DEF Next, Views

\* pman_disable: a window that a tool has opened stays open until the firmware
\* writes its register, but for the malone flag put into an older value.
THEOREM OpenedStays == Spec => []OpenedStaysOpen
<1>1. Init => OpenedStaysOpen
  BY DEF Init, OpenedStaysOpen, Passed
<1>2. SettingsInv /\ OpenedStaysOpen /\ [Next]_vars => OpenedStaysOpen'
  BY OpenedStep
<1> QED
  BY <1>1, <1>2, SettingsInvariant, PTL DEF Spec

-----------------------------------------------------------------------------
(***************************************************************************)
(* When a viewer reads outside of its mapping.                             *)
(***************************************************************************)

\* How many fields a viewer reads in a round.
Round(k) == CASE k = "esdesc" -> 5 [] k = "frameq" -> 2 [] k = "format" -> 4 [] k = "avsync" -> 3

\* The fields read so far are at most a round.
Prefix ==
    /\ \E S : sample \in Seq(S)
    /\ Len(sample) > 0 => pc["viewer"] \in {"show", "crashed"}
    /\ pc["viewer"] = "show" => Len(sample) \leq Round(kind)

\* The window is the page of the descriptor's address.
WindowOK ==
    /\ pc["viewer"] \in {"map", "show"} => kind \in Kinds
    /\ window # NoWindow =>
          /\ pc["viewer"] \in {"show", "crashed"}
          /\ window = [base |-> addr - (addr % Page), size |-> Page]

ViewInv == SettingsInv /\ WindowOK /\ Prefix /\ CrashesWithReason

LEMMA PageFacts ==
    ASSUME NEW a \in Nat, NEW p \in Nat \ {0}
    PROVE  /\ a % p \in 0..p - 1 /\ a % p \leq a
           /\ (a - (a % p)) % p = 0
<1>1. a = p * (a \div p) + (a % p) /\ (a \div p) \in Nat /\ a % p \in 0..p - 1
  OBVIOUS
<1>2. ASSUME NEW q \in Nat PROVE (p * q) % p = 0
  OBVIOUS
<1>3. a - (a % p) = p * (a \div p)
  BY <1>1
<1>4. a % p \leq a
  OBVIOUS
<1> QED
  BY <1>1, <1>2, <1>3, <1>4

\* The fields that are read lie in the structure, but for that of the PTS
\* descriptor, which only esdesc reads.
LEMMA OrderFacts ==
    ASSUME NEW k \in Kinds, NEW order \in MainOf(k).orders
    PROVE  /\ Len(order) = Round(k)
           /\ \A i \in 1..Round(k) : \A d \in BOOLEAN :
                 \/ order[i] = "pts" /\ k = "esdesc"
                 \/ /\ order[i] # "pts"
                    /\ \E j \in DOMAIN MainOf(k).layout[d] : MainOf(k).layout[d][j] = order[i]
<1>1. CASE k = "esdesc"
  <2>1. /\ Round(k) = 5
        /\ order \in {<<"start", "end", "wp", "rp", "pts">>, <<"start", "end", "rp", "wp", "pts">>}
    BY <1>1 DEF MainOf, esdesc, Round
  <2>2. /\ MainOf(k).layout[TRUE] = <<"wp", "rp", "start", "end">>
        /\ MainOf(k).layout[FALSE] = <<"start", "end", "wp", "rp">>
    BY <1>1 DEF MainOf, esdesc, avmips_desc, demux_desc
  <2>3. \A i \in 1..5 : order[i] = "pts" \/ order[i] \in {"start", "end", "wp", "rp"}
    <3>1. CASE order = <<"start", "end", "wp", "rp", "pts">>
      BY <3>1
    <3>2. CASE order = <<"start", "end", "rp", "wp", "pts">>
      BY <3>2
    <3> QED
      BY <2>1, <3>1, <3>2
  <2>4. ASSUME NEW d \in BOOLEAN, NEW field \in {"start", "end", "wp", "rp"}
        PROVE  \E j \in DOMAIN MainOf(k).layout[d] : MainOf(k).layout[d][j] = field
    <3> DEFINE L == MainOf(k).layout[d]
    <3>1. L = <<"wp", "rp", "start", "end">> \/ L = <<"start", "end", "wp", "rp">>
      BY <2>2, Zenon
    <3> HIDE DEF L
    <3>2. \E j \in DOMAIN L : L[j] = field
      BY <3>1
    <3> QED
      BY <3>2 DEF L
  <2>5. Len(order) = Round(k)
    BY <2>1
  <2> QED
    <3> SUFFICES ASSUME NEW i \in 1..Round(k), NEW d \in BOOLEAN, order[i] # "pts"
                 PROVE  \E j \in DOMAIN MainOf(k).layout[d] : MainOf(k).layout[d][j] = order[i]
      BY <1>1, <2>5
    <3>1. order[i] \in {"start", "end", "wp", "rp"}
      BY <2>1, <2>3, Zenon
    <3> QED
      BY <2>4, <3>1, Zenon
<1>2. CASE k = "frameq"
  <2>1. order \in {<<"wrIdx", "rdIdx">>, <<"rdIdx", "wrIdx">>} /\ Round(k) = 2
    BY <1>2 DEF MainOf, frameq, Round
  <2>2. \A d \in BOOLEAN : MainOf(k).layout[d] = <<"q", "sz", "wrIdx", "rdIdx">>
    BY <1>2 DEF MainOf, frameq, FrameQ_t
  <2> QED
    BY <2>1, <2>2
<1>3. CASE k = "format"
  <2>1. order = <<"wHsize", "wVsize", "wHsize", "wVsize">> /\ Round(k) = 4
    BY <1>3 DEF MainOf, format, Round
  <2>2. \A d \in BOOLEAN : MainOf(k).layout[d] = <<"wHsize", "wVsize">>
    BY <1>3 DEF MainOf, format, MpegFormat_t
  <2> QED
    BY <2>1, <2>2
<1>4. CASE k = "avsync"
  <2>1. order \in {<<"VideoStandard", "PtsLow", "PtsHigh">>,
                   <<"VideoStandard", "PtsHigh", "PtsLow">>} /\ Round(k) = 3
    BY <1>4 DEF MainOf, avsync, Round
  <2>2. \A d \in BOOLEAN : MainOf(k).layout[d] = <<"PtsLow", "PtsHigh", "VideoStandard">>
    BY <1>4 DEF MainOf, avsync, triVideoSharedInfo_t
  <2>3. \A i \in 1..3 : order[i] \in {"VideoStandard", "PtsLow", "PtsHigh"}
    <3>1. CASE order = <<"VideoStandard", "PtsLow", "PtsHigh">>
      BY <3>1
    <3>2. CASE order = <<"VideoStandard", "PtsHigh", "PtsLow">>
      BY <3>2
    <3> QED
      BY <2>1, <3>1, <3>2
  <2>4. ASSUME NEW d \in BOOLEAN, NEW field \in {"VideoStandard", "PtsLow", "PtsHigh"}
        PROVE  \E j \in DOMAIN MainOf(k).layout[d] : MainOf(k).layout[d][j] = field
    <3> DEFINE L == MainOf(k).layout[d]
    <3>1. L = <<"PtsLow", "PtsHigh", "VideoStandard">>
      BY <2>2, Zenon
    <3> HIDE DEF L
    <3>2. \E j \in DOMAIN L : L[j] = field
      BY <3>1
    <3> QED
      BY <3>2 DEF L
  <2>5. Len(order) = Round(k)
    BY <2>1
  <2>6. \A field \in {"VideoStandard", "PtsLow", "PtsHigh"} : field # "pts"
    OBVIOUS
  <2> QED
    <3> SUFFICES ASSUME NEW i \in 1..Round(k), NEW d \in BOOLEAN
                 PROVE  /\ order[i] # "pts"
                        /\ \E j \in DOMAIN MainOf(k).layout[d] : MainOf(k).layout[d][j] = order[i]
      BY <2>5
    <3>1. order[i] \in {"VideoStandard", "PtsLow", "PtsHigh"}
      BY <2>1, <2>3, Zenon
    <3> QED
      BY <2>4, <2>6, <3>1, Zenon
<1> QED
  BY <1>1, <1>2, <1>3, <1>4 DEF Kinds

\* What is read of a field, and what it comes with.
Seen(field) == [name |-> field, value |-> Value(field), written |-> written, taken |-> taken]

\* A field of an incomplete round has a place in the structure, or is the PTS
\* descriptor of esdesc.
LEMMA ReadFacts ==
    ASSUME ViewInv, Read
    PROVE  LET done == IF Complete THEN <<>> ELSE sample
               i    == Len(done) + 1
           IN  /\ kind \in Kinds /\ i \in 1..Round(kind) /\ pc["viewer"] = "show"
               /\ UNCHANGED <<at, held, reg, dirty, kind, addr, window, ptsMapped, demux>>
               /\ \E order \in MainOf(kind).orders :
                     /\ Begins(order, done)
                     /\ \/ /\ Mapped(order[i]) /\ UNCHANGED pc
                           /\ sample' = Append(done, Seen(order[i]))
                        \/ /\ ~Mapped(order[i]) /\ UNCHANGED sample
                           /\ pc' = [pc EXCEPT !["viewer"] = "crashed"]
<1> DEFINE done == IF Complete THEN <<>> ELSE sample
           i    == Len(done) + 1
<1>1. /\ kind \in Kinds /\ pc["viewer"] = "show"
      /\ UNCHANGED <<at, held, reg, dirty, kind, addr, window, ptsMapped, demux>>
  BY Zenon DEF ViewInv, WindowOK, Read, Pman
<1>2. PICK order \in MainOf(kind).orders :
        /\ Begins(order, done)
        /\ \/ /\ Mapped(order[i]) /\ UNCHANGED pc
              /\ sample' = Append(done, Seen(order[i]))
           \/ /\ ~Mapped(order[i]) /\ UNCHANGED sample
              /\ pc' = [pc EXCEPT !["viewer"] = "crashed"]
  BY Zenon DEF Read, Goes, Seen
<1>3. Len(order) = Round(kind) /\ Round(kind) \in Nat \ {0}
  BY <1>1, OrderFacts DEF Round, Kinds
<1>4. i \in 1..Round(kind)
  <2>1. CASE Complete
    BY <1>3, <2>1
  <2>2. CASE ~Complete
    <3>1. Len(sample) \in Nat /\ Len(sample) \leq Round(kind) /\ Begins(order, sample)
      BY <1>1, <1>2, <2>2 DEF ViewInv, Prefix
    <3>2. Len(sample) # Round(kind)
      <4> SUFFICES ASSUME Len(sample) = Round(kind) PROVE FALSE
        OBVIOUS
      <4>1. Len(sample) > 0 /\ Len(sample) = Len(order)
        BY <1>3
      <4> QED
        BY <2>2, <3>1, <4>1, Zenon DEF Complete
    <3> QED
      BY <1>3, <2>2, <3>1, <3>2
  <2> QED
    BY <2>1, <2>2
<1> QED
  BY <1>1, <1>2, <1>4, Zenon

LEMMA ViewInit == Init => ViewInv
<1> SUFFICES ASSUME Init PROVE ViewInv
  OBVIOUS
<1>1. WindowOK /\ CrashesWithReason
  <2>1. pc["viewer"] = "start" /\ window = NoWindow
    BY DEF Init, Tools
  <2> QED
    BY <2>1 DEF WindowOK, CrashesWithReason
<1>2. Prefix
  <2>1. sample = <<>> /\ pc["viewer"] = "start"
    BY DEF Init, Tools
  <2>2. <<>> \in Seq(Int) /\ Len(<<>>) = 0
    OBVIOUS
  <2>3. (\E S : sample \in Seq(S)) /\ Len(sample) = 0
    BY <2>1, <2>2, Zenon
  <2> QED
    BY <2>1, <2>3 DEF Prefix
<1> QED
  BY <1>1, <1>2, SettingsInit DEF ViewInv

\* Nothing of the viewer's own has changed.
LEMMA SameView ==
    ASSUME ViewInv, UNCHANGED <<kind, addr, window, ptsMapped, sample, demux>>,
           pc'["viewer"] = pc["viewer"] \/ pc["viewer"] \notin {"show", "crashed"},
           pc'["viewer"] \in {"map", "show"} => pc["viewer"] = pc'["viewer"]
    PROVE  WindowOK' /\ Prefix' /\ CrashesWithReason'
<1>1. CASE pc'["viewer"] = pc["viewer"]
  BY <1>1 DEF ViewInv, WindowOK, Prefix, CrashesWithReason, Layout
<1>2. CASE pc["viewer"] \notin {"show", "crashed"} /\ pc'["viewer"] # pc["viewer"]
  <2>1. window = NoWindow /\ ~(Len(sample) > 0)
    BY <1>2 DEF ViewInv, WindowOK, Prefix
  <2> QED
    BY <1>2, <2>1 DEF ViewInv, WindowOK, Prefix, CrashesWithReason
<1> QED
  BY <1>1, <1>2

LEMMA LayoutFacts ==
    ASSUME NEW k \in Kinds, NEW d \in BOOLEAN
    PROVE  /\ Len(MainOf(k).layout[d]) \in Nat
           /\ DOMAIN MainOf(k).layout[d] = 1..Len(MainOf(k).layout[d])
<1> DEFINE L == MainOf(k).layout[d]
<1>1. \/ L = <<"wp", "rp", "start", "end">> \/ L = <<"start", "end", "wp", "rp">>
      \/ L = <<"q", "sz", "wrIdx", "rdIdx">> \/ L = <<"wHsize", "wVsize">>
      \/ L = <<"PtsLow", "PtsHigh", "VideoStandard">>
  BY DEF MainOf, esdesc, frameq, format, avsync, Kinds, avmips_desc, demux_desc, FrameQ_t,
         MpegFormat_t, triVideoSharedInfo_t
<1> HIDE DEF L
<1>2. Len(L) \in Nat /\ DOMAIN L = 1..Len(L)
  BY <1>1
<1> QED
  BY <1>2 DEF L

LEMMA ReadKeeps ==
    ASSUME ViewInv, Read
    PROVE  WindowOK' /\ Prefix' /\ CrashesWithReason'
<1> DEFINE done == IF Complete THEN <<>> ELSE sample
           i    == Len(done) + 1
<1>1. /\ kind \in Kinds /\ i \in 1..Round(kind) /\ pc["viewer"] = "show"
      /\ UNCHANGED <<at, held, reg, dirty, kind, addr, window, ptsMapped, demux>>
  BY ReadFacts, Zenon
<1>2. PICK order \in MainOf(kind).orders :
        \/ /\ Mapped(order[i]) /\ UNCHANGED pc
           /\ sample' = Append(done, Seen(order[i]))
        \/ /\ ~Mapped(order[i]) /\ UNCHANGED sample
           /\ pc' = [pc EXCEPT !["viewer"] = "crashed"]
  BY ReadFacts, Zenon
<1>3. addr \in Nat /\ demux \in BOOLEAN /\ Page \in Nat \ {0}
  BY BoardToolAssumption, Zenon DEF ViewInv, SettingsInv, TypeOK
<1>4. CASE /\ UNCHANGED pc
           /\ sample' = Append(done, Seen(order[i]))
  <2>1. \E S : sample' \in Seq(S) /\ Len(sample') = i
    <3>1. PICK S : done \in Seq(S)
      BY DEF ViewInv, Prefix
    <3> DEFINE e == Seen(order[i])
    <3>2. sample' = Append(done, e)
      BY <1>4
    <3> HIDE DEF done, e
    <3>3. done \in Seq(S \cup {e})
      BY <3>1
    <3>4. sample' \in Seq(S \cup {e}) /\ Len(sample') = Len(done) + 1
      BY <3>2, <3>3
    <3> QED
      BY <3>4, Zenon
  <2>2. Prefix'
    BY <1>1, <1>4, <2>1 DEF Prefix
  <2>3. WindowOK' /\ CrashesWithReason'
    BY <1>1, <1>4 DEF ViewInv, WindowOK, CrashesWithReason
  <2> QED
    BY <2>2, <2>3
<1>5. CASE /\ ~Mapped(order[i]) /\ UNCHANGED sample
           /\ pc' = [pc EXCEPT !["viewer"] = "crashed"]
  <2>1. pc'["viewer"] = "crashed"
    BY <1>5 DEF ViewInv, SettingsInv, TypeOK, Tools
  <2>2. Prefix' /\ WindowOK'
    BY <1>1, <1>5, <2>1 DEF ViewInv, Prefix, WindowOK
  <2>3. window = NoWindow \/ (kind = "esdesc" /\ ~ptsMapped) \/ (addr % Page) + Len(Layout) > Page
    <3>1. CASE order[i] = "pts"
      <4>1. kind = "esdesc"
        BY <1>1, <1>2, <1>3, <3>1, OrderFacts
      <4> QED
        BY <1>5, <3>1, <4>1 DEF Mapped
    <3>2. CASE order[i] # "pts" /\ window # NoWindow
      <4> DEFINE O == Offset(order[i])
                 a == addr % Page
                 n == Len(Layout)
      <4>1. \E j \in DOMAIN Layout : Layout[j] = order[i]
        BY <1>1, <1>2, <1>3, <3>2, OrderFacts DEF Layout
      <4>2. O + 1 \in DOMAIN Layout
        <5>1. (CHOOSE j \in DOMAIN Layout : Layout[j] = order[i]) \in DOMAIN Layout
          BY <4>1, Zenon
        <5>2. DOMAIN Layout \subseteq Int
          BY <1>1, <1>3, LayoutFacts DEF Layout
        <5> QED
          BY <5>1, <5>2 DEF Offset
      <4>3. DOMAIN Layout = 1..n /\ n \in Nat
        BY <1>1, <1>3, LayoutFacts DEF Layout
      <4>4. window = [base |-> addr - a, size |-> Page]
        BY <3>2 DEF ViewInv, WindowOK
      <4>5. ~(addr + O \in addr - a..addr - a + Page - 1)
        BY <1>5, <3>2, <4>4 DEF Mapped
      <4>6. a \in 0..Page - 1
        BY <1>3, PageFacts
      <4>7. O \in Int /\ 0 \leq O /\ O < n
        <5>1. O \in Int
          BY <1>1, <1>3, <4>1, LayoutFacts DEF Offset, Layout
        <5> HIDE DEF O
        <5> QED
          BY <4>2, <4>3, <5>1
      <4> HIDE DEF O, a, n
      <4>8. a + n > Page
        BY <1>3, <4>3, <4>5, <4>6, <4>7
      <4> QED
        BY <4>8 DEF a, n
    <3> QED
      BY <3>1, <3>2
  <2>4. CrashesWithReason'
    BY <1>1, <2>3 DEF CrashesWithReason, Layout
  <2> QED
    BY <2>2, <2>4
<1> QED
  BY <1>2, <1>4, <1>5

LEMMA ViewStep ==
    ASSUME ViewInv, [Next]_vars
    PROVE  WindowOK' /\ Prefix' /\ CrashesWithReason'
<1>1. ASSUME NEW t \in Tools,
             Start(t) \/ ReadReg(t) \/ WriteReg(t) \/ ReadMalone(t) \/ WriteMalone(t)
      PROVE  WindowOK' /\ Prefix' /\ CrashesWithReason'
  <2>1. UNCHANGED <<kind, addr, window, ptsMapped, sample, demux>>
    BY <1>1 DEF Start, ReadReg, WriteReg, ReadMalone, WriteMalone, Rest
  <2>2. /\ pc[t] \in {"start", "read", "write", "read malone", "write malone"}
        /\ pc'[t] \notin {"map", "show"}
        /\ \A u \in Tools \ {t} : pc'[u] = pc[u]
    <3>1. CASE Advance(t) /\ pc[t] \in {"read", "write"}
      BY <3>1, AdvanceFacts DEF ViewInv, SettingsInv
    <3>2. CASE /\ pc[t] \in {"start", "read", "read malone", "write malone"}
               /\ \E place \in {"read", "crashed", "exit", "write", "write malone"} :
                     pc' = [pc EXCEPT ![t] = place]
      BY <3>2 DEF ViewInv, SettingsInv, TypeOK
    <3> QED
      BY <1>1, <3>1, <3>2 DEF Start, ReadReg, WriteReg, ReadMalone, WriteMalone, Goes
  <2> QED
    BY <2>1, <2>2, SameView DEF Tools
<1>2. ASSUME NEW q \in Registers, NEW value \in Values(q), WriteWord(q, value)
      PROVE  WindowOK' /\ Prefix' /\ CrashesWithReason'
  <2>1. UNCHANGED <<pc, kind, addr, window, ptsMapped, sample, demux>>
    BY <1>2 DEF WriteWord, Rest
  <2> QED
    BY <2>1, SameView
<1>3. CASE Produce \/ Consume \/ UNCHANGED vars
  <2>1. UNCHANGED <<pc, kind, addr, window, ptsMapped, sample, demux>>
    BY <1>3 DEF Produce, Consume, vars, toolVars
  <2> QED
    BY <2>1, SameView
<1>4. CASE GetAddress
  <2>1. pc["viewer"] = "address" /\ UNCHANGED <<window, sample>>
    BY <1>4, Zenon DEF GetAddress
  <2>2. window = NoWindow /\ ~(Len(sample) > 0)
    BY <2>1 DEF ViewInv, WindowOK, Prefix
  <2>3. \/ pc'["viewer"] = "map" /\ kind' \in Kinds
        \/ pc'["viewer"] = "exit"
    <3>1. \/ pc' = [pc EXCEPT !["viewer"] = "map"] /\ kind' \in Kinds
          \/ pc' = [pc EXCEPT !["viewer"] = "exit"]
      BY <1>4, Zenon DEF GetAddress, Goes
    <3> QED
      BY <3>1 DEF ViewInv, SettingsInv, TypeOK, Tools
  <2> QED
    BY <2>1, <2>2, <2>3 DEF ViewInv, WindowOK, Prefix, CrashesWithReason
<1>5. CASE Map
  <2>1. /\ pc["viewer"] = "map" /\ pc'["viewer"] = "show"
        /\ UNCHANGED <<kind, addr, sample, demux>>
        /\ window' \in {mem_map(addr - (addr % Page), Page), NoWindow}
    BY <1>5 DEF Map, Goes, ViewInv, SettingsInv, TypeOK, Tools
  <2>2. kind \in Kinds /\ addr \in Nat /\ ~(Len(sample) > 0) /\ Page \in Nat \ {0}
    BY <2>1, BoardToolAssumption DEF ViewInv, WindowOK, Prefix, SettingsInv, TypeOK
  <2>3. mem_map(addr - (addr % Page), Page) = [base |-> addr - (addr % Page), size |-> Page]
    <3>1. (addr - (addr % Page)) % Page = 0 /\ addr % Page \in Int
      BY <2>2, PageFacts
    <3> QED
      BY <2>2, <3>1 DEF mem_map
  <2>4. Round(kind) \in Nat
    BY <2>2 DEF Round, Kinds
  <2>5. WindowOK'
    BY <2>1, <2>2, <2>3 DEF WindowOK
  <2>6. Prefix'
    BY <2>1, <2>2, <2>4 DEF Prefix, ViewInv
  <2>7. CrashesWithReason'
    BY <2>1 DEF CrashesWithReason
  <2> QED
    BY <2>5, <2>6, <2>7
<1>6. CASE Read
  BY <1>6, ReadKeeps
<1> QED
  BY <1>1, <1>2, <1>3, <1>4, <1>5, <1>6 DEF Next

\* frameq.c, esdesc.c, format.c, avsync.c: a viewer that reads outside of what it
\* has mapped has a mapping that failed, or its descriptor crosses its page.
THEOREM CrashesOnlyWithReason == Spec => []CrashesWithReason
<1>1. ViewInv /\ [Next]_vars => ViewInv'
  BY ViewStep, SettingsStep DEF ViewInv
<1>2. ViewInv => CrashesWithReason
  BY DEF ViewInv
<1> QED
  BY <1>1, <1>2, ViewInit, PTL DEF Spec

-----------------------------------------------------------------------------
(***************************************************************************)
(* What a viewer shows.                                                    *)
(***************************************************************************)

Names == {"start", "end", "wp", "rp", "pts", "wrIdx", "rdIdx", "wHsize", "wVsize",
          "VideoStandard", "PtsLow", "PtsHigh"}

\* What a read leaves in the sample.
AField == [name : Names, value : Int, written : Nat, taken : Nat]

\* Each field holds what the counters were when it was read.
TrueThen(e) ==
    /\ e.name = "start" => e.value = RingSize
    /\ e.name = "end" => e.value = 2 * RingSize
    /\ e.name = "wp" => e.value = RingSize + (e.written % RingSize)
    /\ e.name = "rp" => e.value = RingSize + (e.taken % RingSize)
    /\ e.name = "wrIdx" => e.value = e.written % QueueSize
    /\ e.name = "rdIdx" => e.value = e.taken % QueueSize
    /\ e.name = "PtsLow" => e.value = e.written % 2
    /\ e.name = "PtsHigh" => e.value = e.written \div 2
    /\ e.name \in {"wHsize", "wVsize"} => e.value = e.written

\* The counters stand still before the viewer looks.
CountersOK ==
    /\ written \in Nat /\ taken \in Nat /\ taken \leq written
    /\ pc["viewer"] \notin {"show", "crashed"} => written = 0 /\ taken = 0 /\ sample = <<>>

\* The counters of the reads of a round follow one another.
ReadsOK(s) ==
    /\ s \in Seq(AField)
    /\ Len(s) > 0 => kind \in Kinds
    /\ \A k \in 1..Len(s) :
          TrueThen(s[k]) /\ s[k].written \leq written /\ s[k].taken \leq taken
    /\ \A j, k \in 1..Len(s) :
          j \leq k => s[j].written \leq s[k].written /\ s[j].taken \leq s[k].taken

ShownInv == ViewInv /\ CountersOK /\ ReadsOK(sample)

\* Division with rest.
LEMMA Divided ==
    ASSUME NEW n \in Nat \ {0}, NEW a \in Int
    PROVE  /\ a \div n \in Int /\ a % n \in 0..n - 1
           /\ a = n * (a \div n) + (a % n)
OBVIOUS

LEMMA Times ==
    ASSUME NEW n \in Nat \ {0}, NEW x \in Int, NEW y \in Int, x > y
    PROVE  n * x \in Int /\ n * y \in Int /\ n * x >= n * y + n
<1> DEFINE d == x - y
<1>1. d \in Int /\ d >= 1 /\ x = y + d
  OBVIOUS
<1> HIDE DEF d
<1>2. n * d >= n /\ n * d \in Int
  BY <1>1
<1>3. n * x = n * y + n * d /\ n * y \in Int
  BY <1>1
<1> QED
  BY <1>2, <1>3

\* What lies between the pointers of a ring, modulo its size.
LEMMA RingUsed ==
    ASSUME NEW n \in Nat \ {0}, NEW w \in Nat, NEW t \in Nat
    PROVE  (w - t) % n = IF w % n >= t % n THEN (w % n) - (t % n)
                         ELSE (n - (t % n)) + (w % n)
<1> DEFINE r == w % n
           s == t % n
           z == (w - t) % n
           d == (w \div n) - (t \div n)
           e == (w - t) \div n
           f == n * d
           g == n * e
<1>1. /\ r \in 0..n - 1 /\ s \in 0..n - 1 /\ z \in 0..n - 1 /\ d \in Int /\ e \in Int
      /\ w - t = g + z
  BY Divided
<1>2. f \in Int /\ g \in Int
  BY <1>1
<1>3. w - t = f + (r - s)
  <2> DEFINE a == w \div n
             b == t \div n
             na == n * a
             nb == n * b
  <2>1. w = na + r /\ t = nb + s /\ a \in Int /\ b \in Int /\ d = a - b
    BY Divided
  <2>2. f = na - nb
    BY <2>1
  <2>3. na \in Int /\ nb \in Int
    BY <2>1
  <2> HIDE DEF a, b, na, nb, r, s, f
  <2> QED
    BY <1>1, <2>1, <2>2, <2>3
<1>4. d > e => f >= g + n
  BY <1>1, Times
<1>5. e > d => g >= f + n
  BY <1>1, Times
<1>6. d > e + 1 => f >= g + n + n
  <2>1. d > e + 1 => f >= n * (e + 1) + n
    BY <1>1, Times
  <2>2. n * (e + 1) = g + n
    BY <1>1
  <2> QED
    BY <2>1, <2>2, <1>2
<1>7. /\ d = e => f = g
      /\ d = e + 1 => f = g + n
  BY <1>1
<1>8. z = IF r >= s THEN r - s ELSE (n - s) + r
  <2> HIDE DEF r, s, z, d, e, f, g
  <2> QED
    BY <1>1, <1>2, <1>3, <1>4, <1>5, <1>6, <1>7
<1> QED
  BY <1>8 DEF r, s, z

\* A field that is read holds what the counters are.
LEMMA SeenFacts ==
    ASSUME NEW field \in Names, CountersOK
    PROVE  /\ Seen(field) \in AField
           /\ Seen(field).name = field
           /\ Seen(field).written = written /\ Seen(field).taken = taken
           /\ TrueThen(Seen(field))
<1>1. RingSize \in Nat \ {0} /\ QueueSize \in Nat \ {0}
  BY BoardToolAssumption
<1>2. /\ written % QueueSize \in Int /\ taken % QueueSize \in Int
      /\ written % RingSize \in Int /\ taken % RingSize \in Int
      /\ written % 2 \in Int /\ written \div 2 \in Int
  BY <1>1, Divided DEF CountersOK
<1>3. Value(field) \in Int /\ TrueThen(Seen(field))
  <2> DEFINE a == written % RingSize
             b == taken % RingSize
             c == written % 2
             d == written \div 2
             w == written % QueueSize
             t == taken % QueueSize
  <2>1. /\ w \in Int /\ t \in Int
        /\ a \in Int /\ b \in Int /\ c \in Int /\ d \in Int /\ written \in Int /\ taken \in Int
    BY <1>2 DEF CountersOK
  <2>2. Value(field) =
          CASE field = "start" -> RingSize
            [] field = "end"   -> IF demux THEN 2 * RingSize ELSE (2 * RingSize - 1) + 1
            [] field = "wp"    -> RingSize + a
            [] field = "rp"    -> RingSize + b
            [] field = "wrIdx" -> w
            [] field = "rdIdx" -> t
            [] field = "pts"   -> 0
            [] field = "PtsLow"  -> c
            [] field = "PtsHigh" -> d
            [] OTHER           -> written
    BY DEF Value
  <2>3. TrueThen(Seen(field)) <=>
          /\ field = "start" => Value(field) = RingSize
          /\ field = "end" => Value(field) = 2 * RingSize
          /\ field = "wp" => Value(field) = RingSize + a
          /\ field = "rp" => Value(field) = RingSize + b
          /\ field = "wrIdx" => Value(field) = w
          /\ field = "rdIdx" => Value(field) = t
          /\ field = "PtsLow" => Value(field) = c
          /\ field = "PtsHigh" => Value(field) = d
          /\ field \in {"wHsize", "wVsize"} => Value(field) = written
    BY DEF TrueThen, Seen
  <2> DEFINE V == Value(field)
  <2> HIDE DEF a, b, c, d, w, t, V
  <2>4. (2 * RingSize - 1) + 1 = 2 * RingSize /\ 2 * RingSize \in Int
    BY <1>1
  <2>5. V = IF field = "start" THEN RingSize ELSE IF field = "end" THEN 2 * RingSize
            ELSE IF field = "wp" THEN RingSize + a ELSE IF field = "rp" THEN RingSize + b
            ELSE IF field = "wrIdx" THEN w ELSE IF field = "rdIdx" THEN t
            ELSE IF field = "pts" THEN 0
            ELSE IF field = "PtsLow" THEN c ELSE IF field = "PtsHigh" THEN d ELSE written
    BY <2>2, <2>4 DEF V
  <2>6. V \in Int
    BY <1>1, <2>1, <2>4, <2>5
  <2> QED
    BY <2>3, <2>5, <2>6 DEF V
<1> QED
  BY <1>3 DEF Seen, CountersOK, AField

LEMMA OrderNames ==
    ASSUME NEW k \in Kinds, NEW order \in MainOf(k).orders
    PROVE  \A i \in 1..Round(k) : order[i] \in Names
<1>1. \/ Round(k) = 5 /\ order = <<"start", "end", "wp", "rp", "pts">>
      \/ Round(k) = 5 /\ order = <<"start", "end", "rp", "wp", "pts">>
      \/ Round(k) = 2 /\ order = <<"wrIdx", "rdIdx">>
      \/ Round(k) = 2 /\ order = <<"rdIdx", "wrIdx">>
      \/ Round(k) = 4 /\ order = <<"wHsize", "wVsize", "wHsize", "wVsize">>
      \/ Round(k) = 3 /\ order = <<"VideoStandard", "PtsLow", "PtsHigh">>
      \/ Round(k) = 3 /\ order = <<"VideoStandard", "PtsHigh", "PtsLow">>
  BY DEF MainOf, esdesc, frameq, format, avsync, Kinds, Round
<1> QED
  BY <1>1 DEF Names

LEMMA ShownInit == Init => ShownInv
<1> SUFFICES ASSUME Init PROVE ShownInv
  OBVIOUS
<1>1. written = 0 /\ taken = 0 /\ sample = <<>> /\ RingSize \in Nat
  BY BoardToolAssumption DEF Init
<1>2. CountersOK
  BY <1>1 DEF CountersOK
<1>3. ReadsOK(sample)
  BY <1>1 DEF ReadsOK
<1> QED
  BY <1>2, <1>3, ViewInit DEF ShownInv

\* One more read.
LEMMA ReadShows ==
    ASSUME ShownInv, Read
    PROVE  CountersOK' /\ ReadsOK(sample)'
<1> DEFINE done == IF Complete THEN <<>> ELSE sample
           i    == Len(done) + 1
<1>1. /\ kind \in Kinds /\ i \in 1..Round(kind) /\ pc["viewer"] = "show" /\ UNCHANGED kind
  BY ReadFacts, Zenon DEF ShownInv
<1>2. PICK order \in MainOf(kind).orders :
        \/ UNCHANGED pc /\ sample' = Append(done, Seen(order[i]))
        \/ UNCHANGED sample /\ pc' = [pc EXCEPT !["viewer"] = "crashed"]
  BY ReadFacts, Zenon DEF ShownInv
<1>3. UNCHANGED <<written, taken>>
  BY Zenon DEF Read
<1>4. pc'["viewer"] \in {"show", "crashed"}
  <2>1. pc \in [Tools -> {"start", "read", "write", "read malone", "write malone", "address",
                         "map", "show", "exit", "crashed"}]
    BY Zenon DEF ShownInv, ViewInv, SettingsInv, TypeOK
  <2> QED
    BY <1>1, <1>2, <2>1 DEF Tools
<1>5. CountersOK'
  BY <1>1, <1>3, <1>4 DEF ShownInv, CountersOK
<1>6. ReadsOK(done)
  <2>1. ReadsOK(<<>>)
    BY DEF ReadsOK
  <2> QED
    BY <2>1 DEF ShownInv
<1>7. CASE sample' = Append(done, Seen(order[i]))
  <2> DEFINE e == Seen(order[i])
  <2>1. /\ e \in AField
        /\ e.written = written /\ e.taken = taken /\ TrueThen(e)
        /\ written \in Nat /\ taken \in Nat
    BY <1>1, OrderNames, SeenFacts DEF ShownInv, CountersOK
  <2> HIDE DEF e, done
  <2>2. /\ Append(done, e) \in Seq(AField)
        /\ Len(Append(done, e)) = Len(done) + 1 /\ Len(done) \in Nat
        /\ Append(done, e)[Len(done) + 1] = e
        /\ \A k \in 1..Len(done) : Append(done, e)[k] = done[k]
    BY <1>6, <2>1 DEF ReadsOK
  <2> DEFINE s == Append(done, e)
             n == Len(done)
  <2> HIDE DEF s
  <2>3. ASSUME NEW k \in 1..Len(s)
        PROVE  (k \in 1..n /\ s[k] = done[k]) \/ (k = n + 1 /\ s[k] = e)
    <3>1. Len(s) = n + 1 /\ n \in Nat
      BY <2>2 DEF s
    <3>2. k \in 1..n \/ k = n + 1
      <4> HIDE DEF n
      <4> QED
        BY <3>1
    <3> QED
      BY <2>2, <3>2 DEF s
  <2>4. ASSUME NEW k \in 1..Len(s)
        PROVE  TrueThen(s[k]) /\ s[k].written \leq written /\ s[k].taken \leq taken
    <3>1. CASE k \in 1..n /\ s[k] = done[k]
      BY <1>6, <3>1 DEF ReadsOK
    <3>2. CASE s[k] = e
      BY <2>1, <3>2 DEF ShownInv, CountersOK
    <3> QED
      BY <2>3, <3>1, <3>2
  <2>5. ASSUME NEW j \in 1..Len(s), NEW k \in 1..Len(s), j \leq k
        PROVE  s[j].written \leq s[k].written /\ s[j].taken \leq s[k].taken
    <3>1. CASE k \in 1..n /\ s[k] = done[k]
      <4>1. j \in 1..Len(done) /\ s[j] = done[j]
        <5>1. j \in 1..n
          <6> HIDE DEF n
          <6>1. j \in Int /\ 1 \leq j /\ n \in Nat
            BY <2>2 DEF n
          <6> QED
            BY <2>5, <3>1, <6>1
        <5> QED
          BY <2>2, <5>1 DEF s
      <4>2. done[j].written \leq done[k].written /\ done[j].taken \leq done[k].taken
        BY <1>6, <2>5, <3>1, <4>1 DEF ReadsOK
      <4> QED
        BY <3>1, <4>1, <4>2
    <3>2. CASE s[k] = e
      BY <2>1, <2>4, <3>2
    <3> QED
      BY <2>3, <3>1, <3>2
  <2>6. s \in Seq(AField)
    BY <2>2 DEF s
  <2>7. sample' = s
    BY <1>7 DEF s, e
  <2> QED
    BY <1>1, <1>3, <1>5, <2>4, <2>5, <2>6, <2>7 DEF ReadsOK
<1>8. CASE UNCHANGED sample
  BY <1>1, <1>3, <1>5, <1>8 DEF ShownInv, ReadsOK
<1> QED
  BY <1>2, <1>5, <1>7, <1>8

LEMMA ShownStep ==
    ASSUME ShownInv, [Next]_vars
    PROVE  CountersOK' /\ ReadsOK(sample)'
<1>1. ASSUME NEW t \in Tools,
             Start(t) \/ ReadReg(t) \/ WriteReg(t) \/ ReadMalone(t) \/ WriteMalone(t)
      PROVE  CountersOK' /\ ReadsOK(sample)'
  <2>1. UNCHANGED <<kind, sample, written, taken>>
    BY <1>1 DEF Start, ReadReg, WriteReg, ReadMalone, WriteMalone, Rest
  <2>2. /\ pc[t] \in {"start", "read", "write", "read malone", "write malone"}
        /\ \A u \in Tools \ {t} : pc'[u] = pc[u]
    <3>1. CASE Advance(t) /\ pc[t] \in {"read", "write"}
      BY <3>1, AdvanceFacts DEF ShownInv, ViewInv, SettingsInv
    <3>2. CASE /\ pc[t] \in {"start", "read", "read malone", "write malone"}
               /\ \E place \in {"read", "crashed", "exit", "write", "write malone"} :
                     pc' = [pc EXCEPT ![t] = place]
      BY <3>2 DEF ShownInv, ViewInv, SettingsInv, TypeOK
    <3> QED
      BY <1>1, <3>1, <3>2 DEF Start, ReadReg, WriteReg, ReadMalone, WriteMalone, Goes
  <2>3. pc["viewer"] \in {"show", "crashed"} => pc'["viewer"] = pc["viewer"]
    BY <2>2 DEF Tools
  <2> QED
    BY <2>1, <2>3 DEF ShownInv, CountersOK, ReadsOK
<1>2. ASSUME NEW q \in Registers, NEW value \in Values(q), WriteWord(q, value)
      PROVE  CountersOK' /\ ReadsOK(sample)'
  <2>1. UNCHANGED <<pc, kind, sample, written, taken>>
    BY <1>2 DEF WriteWord, Rest
  <2> QED
    BY <2>1 DEF ShownInv, CountersOK, ReadsOK
<1>3. CASE UNCHANGED vars
  <2>1. UNCHANGED <<pc, kind, sample, written, taken>>
    BY <1>3 DEF vars, toolVars
  <2> QED
    BY <2>1 DEF ShownInv, CountersOK, ReadsOK
<1>4. CASE GetAddress \/ Map
  <2>1. pc["viewer"] \in {"address", "map"} /\ UNCHANGED <<sample, written, taken>>
    BY <1>4, Zenon DEF GetAddress, Map
  <2>2. written = 0 /\ taken = 0 /\ sample = <<>> /\ RingSize \in Nat
    BY <2>1, BoardToolAssumption DEF ShownInv, CountersOK
  <2> QED
    BY <2>1, <2>2 DEF CountersOK, ReadsOK
<1>5. CASE Produce \/ Consume
  <2>1. UNCHANGED <<pc, kind, sample>> /\ pc["viewer"] = "show"
    BY <1>5 DEF Produce, Consume, toolVars
  <2>2. /\ written' \in Nat /\ taken' \in Nat /\ taken' \leq written'
        /\ written \leq written' /\ taken \leq taken'
    BY <1>5, BoardToolAssumption DEF Produce, Consume, ShownInv, CountersOK
  <2>3. CountersOK'
    BY <2>1, <2>2 DEF CountersOK
  <2>4. ReadsOK(sample)'
    <3>1. ASSUME NEW k \in 1..Len(sample)
          PROVE  sample[k].written \leq written' /\ sample[k].taken \leq taken'
      <4>1. sample[k] \in AField
        BY DEF ShownInv, ReadsOK
      <4>2. sample[k].written \leq written /\ sample[k].taken \leq taken
        BY DEF ShownInv, ReadsOK
      <4>3. sample[k].written \in Nat /\ sample[k].taken \in Nat
        BY <4>1 DEF AField
      <4> QED
        BY <2>2, <4>2, <4>3 DEF ShownInv, CountersOK
    <3> QED
      BY <2>1, <3>1 DEF ShownInv, ReadsOK
  <2> QED
    BY <2>3, <2>4
<1>6. CASE Read
  BY <1>6, ReadShows
<1> QED
  BY <1>1, <1>2, <1>3, <1>4, <1>5, <1>6 DEF Next

\* What is shown under a name was read of that field.
LEMMA FieldRead ==
    ASSUME NEW name, NEW k \in DOMAIN sample, sample[k].name = name
    PROVE  \E j \in DOMAIN sample : sample[j].name = name /\ ReadOf(name) = sample[j]
<1> DEFINE j == CHOOSE i \in DOMAIN sample : sample[i].name = name
<1>1. j \in DOMAIN sample /\ sample[j].name = name
  OBVIOUS
<1>2. ReadOf(name) = sample[j]
  BY DEF ReadOf
<1> QED
  BY <1>1, <1>2, Zenon

\* What the reads of a complete round are.
LEMMA CompleteFacts ==
    ASSUME ShownInv, Complete
    PROVE  /\ kind \in Kinds /\ Len(sample) = Round(kind) /\ DOMAIN sample = 1..Len(sample)
           /\ \E order \in MainOf(kind).orders :
                 \A k \in 1..Round(kind) : sample[k].name = order[k]
           /\ \A k \in 1..Len(sample) :
                 /\ sample[k] \in AField
                 /\ TrueThen(sample[k])
                 /\ sample[1].written \leq sample[k].written /\ sample[k].written \leq written
                 /\ sample[1].taken \leq sample[k].taken /\ sample[k].taken \leq taken
<1>1. kind \in Kinds /\ Len(sample) \in Nat /\ Len(sample) > 0 /\ ReadsOK(sample)
  BY DEF ShownInv, ReadsOK, Complete
<1>2. PICK order \in MainOf(kind).orders : Len(sample) = Len(order) /\ Begins(order, sample)
  BY Zenon DEF Complete
<1>3. Len(order) = Round(kind)
  BY <1>1, OrderFacts
<1>4. \A k \in 1..Round(kind) : sample[k].name = order[k]
  BY <1>2, <1>3, Zenon DEF Begins
<1>5. DOMAIN sample = 1..Len(sample)
  BY <1>1 DEF ReadsOK
<1>6. 1 \in 1..Len(sample) /\ \A k \in 1..Len(sample) : 1 \leq k
  BY <1>1
<1>7. ASSUME NEW k \in 1..Len(sample)
      PROVE  /\ sample[k] \in AField
             /\ TrueThen(sample[k])
             /\ sample[1].written \leq sample[k].written /\ sample[k].written \leq written
             /\ sample[1].taken \leq sample[k].taken /\ sample[k].taken \leq taken
  <2>1. sample \in Seq(AField)
    BY <1>1 DEF ReadsOK
  <2>2. sample[k] \in AField
    BY <2>1
  <2> QED
    BY <1>1, <1>6, <2>2 DEF ReadsOK
<1> QED
  BY <1>1, <1>2, <1>3, <1>4, <1>5, <1>7, Zenon

\* The counters of a field's read, against those of the first read and now.
Between(e) ==
    /\ e.written \in sample[1].written..written /\ e.taken \in sample[1].taken..taken
    /\ TrueThen(e) /\ e \in AField

LEMMA ReadBetween ==
    ASSUME ShownInv, Complete, NEW k \in 1..Len(sample)
    PROVE  /\ Between(sample[k])
           /\ sample[1].written \in Nat /\ sample[1].taken \in Nat
           /\ written \in Nat /\ taken \in Nat
<1>1. sample[k] \in AField /\ sample[1] \in AField
  <2>1. 1 \in 1..Len(sample)
    BY CompleteFacts DEF Round, Kinds
  <2> QED
    BY <2>1, CompleteFacts
<1> QED
  BY <1>1, CompleteFacts DEF Between, AField, ShownInv, CountersOK

\* esdesc: the used bytes of the ring.
LEMMA RingShown ==
    ASSUME ShownInv, Complete, kind = "esdesc"
    PROVE  \E bytes \in sample[1].written - taken..written - sample[1].taken :
              used = bytes % RingSize
<1>1. /\ Len(sample) = 5 /\ DOMAIN sample = 1..5
      /\ sample[1].name = "start" /\ sample[2].name = "end"
      /\ \/ sample[3].name = "wp" /\ sample[4].name = "rp"
         \/ sample[3].name = "rp" /\ sample[4].name = "wp"
  <2>1. PICK order \in MainOf(kind).orders :
          \A k \in 1..Round(kind) : sample[k].name = order[k]
    BY CompleteFacts
  <2>2. /\ Round(kind) = 5
        /\ order \in {<<"start", "end", "wp", "rp", "pts">>, <<"start", "end", "rp", "wp", "pts">>}
    BY DEF MainOf, esdesc, Round
  <2>3. CASE order = <<"start", "end", "wp", "rp", "pts">>
    BY <2>1, <2>2, <2>3, CompleteFacts
  <2>4. CASE order = <<"start", "end", "rp", "wp", "pts">>
    BY <2>1, <2>2, <2>4, CompleteFacts
  <2> QED
    BY <2>2, <2>3, <2>4
<1>2. PICK i \in 1..5 : sample[i].name = "wp" /\ ReadOf("wp") = sample[i]
  BY <1>1, FieldRead
<1>3. PICK j \in 1..5 : sample[j].name = "rp" /\ ReadOf("rp") = sample[j]
  BY <1>1, FieldRead
<1>4. PICK k \in 1..5 : sample[k].name = "start" /\ ReadOf("start") = sample[k]
  BY <1>1, FieldRead
<1>5. PICK l \in 1..5 : sample[l].name = "end" /\ ReadOf("end") = sample[l]
  BY <1>1, FieldRead
<1> DEFINE w == sample[i].written
           t == sample[j].taken
<1>6. \A m \in 1..5 : Between(sample[m])
  BY <1>1, ReadBetween
<1>7. /\ Field("start") = RingSize /\ Field("end") = 2 * RingSize
      /\ Field("wp") = RingSize + (w % RingSize)
      /\ Field("rp") = RingSize + (t % RingSize)
  BY <1>2, <1>3, <1>4, <1>5, <1>6 DEF Between, TrueThen, Field
<1>8. w \in Nat /\ t \in Nat /\ RingSize \in Nat \ {0}
  BY <1>6, BoardToolAssumption DEF Between, AField
<1>9. used = (w - t) % RingSize
  <2> HIDE DEF w, t
  <2> DEFINE a == w % RingSize
             b == t % RingSize
             z == (w - t) % RingSize
  <2>1. z = IF a >= b THEN a - b ELSE (RingSize - b) + a
    BY <1>8, RingUsed
  <2>2. a \in Int /\ b \in Int
    BY <1>8, Divided
  <2>3. used = IF RingSize + a >= RingSize + b THEN (RingSize + a) - (RingSize + b)
               ELSE 2 * RingSize - (RingSize + b) + (RingSize + a) - RingSize
    BY <1>7 DEF used
  <2>4. used = z
    <3> HIDE DEF a, b, z
    <3> QED
      BY <1>8, <2>1, <2>2, <2>3
  <2> QED
    BY <2>4
<1>10. w - t \in sample[1].written - taken..written - sample[1].taken
  BY <1>1, <1>6, ReadBetween DEF Between
<1> QED
  BY <1>9, <1>10

\* frameq: the frames in the queue, the wraps of its indices added.
LEMMA QueueShown ==
    ASSUME ShownInv, Complete, kind = "frameq"
    PROVE  LET ahead == (ReadOf("wrIdx").written \div QueueSize)
                            - (ReadOf("rdIdx").taken \div QueueSize)
           IN  queued + QueueSize * ahead
                   \in sample[1].written - taken..written - sample[1].taken
<1>1. /\ DOMAIN sample = 1..2 /\ Len(sample) = 2
      /\ \/ sample[1].name = "wrIdx" /\ sample[2].name = "rdIdx"
         \/ sample[1].name = "rdIdx" /\ sample[2].name = "wrIdx"
  <2>1. PICK order \in MainOf(kind).orders :
          \A k \in 1..Round(kind) : sample[k].name = order[k]
    BY CompleteFacts
  <2>2. order \in {<<"wrIdx", "rdIdx">>, <<"rdIdx", "wrIdx">>} /\ Round(kind) = 2
    BY DEF MainOf, frameq, Round
  <2> QED
    BY <2>1, <2>2, CompleteFacts
<1>2. PICK i \in 1..2 : sample[i].name = "wrIdx" /\ ReadOf("wrIdx") = sample[i]
  BY <1>1, FieldRead
<1>3. PICK j \in 1..2 : sample[j].name = "rdIdx" /\ ReadOf("rdIdx") = sample[j]
  BY <1>1, FieldRead
<1>4. Between(sample[i]) /\ Between(sample[j])
  BY <1>1, ReadBetween
<1> DEFINE w == sample[i].written
           t == sample[j].taken
           a == w \div QueueSize
           b == t \div QueueSize
           q == QueueSize * a
           p == QueueSize * b
           d == QueueSize * (a - b)
           r == w % QueueSize
           s == t % QueueSize
<1>5. queued = r - s
  BY <1>2, <1>3, <1>4 DEF queued, Field, Between, TrueThen
<1>6. w \in Nat /\ t \in Nat /\ QueueSize \in Nat \ {0}
  BY <1>4, BoardToolAssumption DEF Between, AField
<1>7. /\ w = q + r /\ t = p + s /\ a \in Int /\ b \in Int /\ r \in Int /\ s \in Int
  <2>1. w \in Int /\ t \in Int
    BY <1>6
  <2> HIDE DEF w, t
  <2>2. w = q + r /\ a \in Int /\ r \in Int
    BY <1>6, <2>1, Divided
  <2>3. t = p + s /\ b \in Int /\ s \in Int
    BY <1>6, <2>1, Divided
  <2> QED
    BY <2>2, <2>3
<1>8. q \in Int /\ p \in Int /\ d = q - p
  BY <1>6, <1>7
<1>9. (r - s) + d = w - t
  <2> HIDE DEF q, p, d, r, s, a, b, w, t
  <2> QED
    BY <1>6, <1>7, <1>8
<1>10. w - t \in sample[1].written - taken..written - sample[1].taken
  BY <1>1, <1>4, ReadBetween DEF Between
<1> QED
  BY <1>2, <1>3, <1>5, <1>9, <1>10

\* format: every field.
LEMMA FormatShown ==
    ASSUME ShownInv, Complete, kind = "format"
    PROVE  \A k \in DOMAIN sample : sample[k].value \in sample[1].written..written
<1>1. PICK order \in MainOf(kind).orders :
        \A k \in 1..Round(kind) : sample[k].name = order[k]
  BY CompleteFacts
<1>2. order = <<"wHsize", "wVsize", "wHsize", "wVsize">> /\ Round(kind) = 4
  BY DEF MainOf, format, Round
<1>3. ASSUME NEW k \in DOMAIN sample PROVE sample[k].value \in sample[1].written..written
  <2>1. k \in 1..4 /\ k \in 1..Len(sample) /\ 1 \in 1..Len(sample)
    BY <1>2, CompleteFacts
  <2>2. sample[k].name \in {"wHsize", "wVsize"}
    BY <1>1, <1>2, <2>1
  <2>3. sample[k].value = sample[k].written
    BY <2>1, <2>2, CompleteFacts DEF TrueThen
  <2>4. sample[1].written \leq sample[k].written /\ sample[k].written \leq written
    BY <2>1, CompleteFacts
  <2>5. sample[1].written \in Nat /\ sample[k].written \in Nat /\ written \in Nat
    BY <2>1, CompleteFacts DEF AField, ShownInv, CountersOK
  <2> QED
    BY <2>3, <2>4, <2>5
<1> QED
  BY <1>3

\* avsync: a time stamp, the carries between the reads of its words added.
LEMMA StampShown ==
    ASSUME ShownInv, Complete, kind = "avsync"
    PROVE  LET carries == (ReadOf("PtsLow").written \div 2) - (ReadOf("PtsHigh").written \div 2)
           IN  VideoPTS + 2 * carries \in sample[1].written..written
<1>1. /\ DOMAIN sample = 1..3 /\ Len(sample) = 3 /\ sample[1].name = "VideoStandard"
      /\ \/ sample[2].name = "PtsLow" /\ sample[3].name = "PtsHigh"
         \/ sample[2].name = "PtsHigh" /\ sample[3].name = "PtsLow"
  <2>1. PICK order \in MainOf(kind).orders :
          \A k \in 1..Round(kind) : sample[k].name = order[k]
    BY CompleteFacts
  <2>2. /\ order \in {<<"VideoStandard", "PtsLow", "PtsHigh">>,
                      <<"VideoStandard", "PtsHigh", "PtsLow">>}
        /\ Round(kind) = 3
    BY DEF MainOf, avsync, Round
  <2> QED
    BY <2>1, <2>2, CompleteFacts
<1>2. PICK i \in 1..3 : sample[i].name = "PtsLow" /\ ReadOf("PtsLow") = sample[i]
  BY <1>1, FieldRead
<1>3. PICK j \in 1..3 : sample[j].name = "PtsHigh" /\ ReadOf("PtsHigh") = sample[j]
  BY <1>1, FieldRead
<1>4. Between(sample[i]) /\ Between(sample[j])
  BY <1>1, ReadBetween
<1> DEFINE l == sample[i].written
           h == sample[j].written
<1>5. VideoPTS = 2 * (h \div 2) + (l % 2)
  BY <1>2, <1>3, <1>4 DEF VideoPTS, Field, Between, TrueThen
<1>6. l \in Nat /\ h \in Nat
  BY <1>4 DEF Between, AField
<1>7. VideoPTS + 2 * ((l \div 2) - (h \div 2)) = l
  <2> DEFINE c == l \div 2
             d == h \div 2
             m == l % 2
  <2>1. l = 2 * c + m /\ c \in Int /\ d \in Int /\ m \in Int
    <3> HIDE DEF l, h
    <3> QED
      BY <1>6, Divided
  <2>2. VideoPTS = 2 * d + m
    BY <1>5
  <2> HIDE DEF c, d, m, l
  <2>3. VideoPTS + 2 * (c - d) = l
    BY <2>1, <2>2
  <2> QED
    BY <2>3 DEF c, d
<1>8. l \in sample[1].written..written
  BY <1>4 DEF Between
<1> QED
  BY <1>2, <1>3, <1>7, <1>8

\* esdesc.c, frameq.c, format.c, avsync.c: what a viewer shows is what there was
\* while it read, up to the wraps of the ring, of the queue's indices and of a
\* time stamp's low word, which the code does not undo.
THEOREM ShownIsTrueButForWraps == Spec => []ShownButForWraps
<1>1. ShownInv /\ [Next]_vars => ShownInv'
  BY ShownStep, ViewStep, SettingsStep DEF ShownInv, ViewInv
<1>2. ShownInv => ShownButForWraps
  <2> SUFFICES ASSUME ShownInv, Complete PROVE ShownButForWraps
    BY DEF ShownButForWraps
  <2>1. kind \in Kinds
    BY CompleteFacts
  <2>2. CASE kind = "esdesc"
    BY <2>2, RingShown DEF ShownButForWraps
  <2>3. CASE kind = "frameq"
    BY <2>3, QueueShown DEF ShownButForWraps
  <2>4. CASE kind = "format"
    BY <2>4, FormatShown DEF ShownButForWraps
  <2>5. CASE kind = "avsync"
    BY <2>5, StampShown DEF ShownButForWraps
  <2> QED
    BY <2>1, <2>2, <2>3, <2>4, <2>5 DEF Kinds
<1> QED
  BY <1>1, <1>2, ShownInit, PTL DEF Spec

\* Every variable of the tools on the board holds a value of its kind.
THEOREM TypesKept == Spec => []TypeOK
<1>1. SettingsInv => TypeOK
  BY DEF SettingsInv
<1> QED
  BY <1>1, SettingsInvariant, PTL
=============================================================================
