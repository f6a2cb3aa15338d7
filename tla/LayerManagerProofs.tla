--------------------------- MODULE LayerManagerProofs ---------------------------
(***************************************************************************)
(* Proofs about LayerManager for every set of files, every alignment,      *)
(* block size, gap and device, every order of calls and any number of      *)
(* restarts.                                                               *)
(***************************************************************************)
EXTENDS LayerManager, TLAPS

\* Where the layer's first region starts; the others follow from it.
Base(mgr) == mgr.lbaMgr["param16"]

\* A layer's five regions lie where getTempLBAMgr puts them, below what is
\* allocated.
LaidOut(mgr, limit) ==
  /\ Base(mgr) \in Nat
  /\ \A s \in SlotNames : mgr.lbaMgr[s] = LbaOf(s, mgr.paramNum, Base(mgr))
  /\ Base(mgr) + LayerBlocks(mgr.paramNum) <= limit

Apart(a, b) ==
  \/ Base(a) + LayerBlocks(a.paramNum) <= Base(b)
  \/ Base(b) + LayerBlocks(b.paramNum) <= Base(a)

\* The inductive invariant about the map mgr and the offset limit: every layer
\* is laid out as a whole, below the next free block, and apart from every other.
Allocation(mgr, limit) ==
  /\ limit \in Nat
  /\ DOMAIN mgr \subseteq Nat
  /\ \A l \in DOMAIN mgr : mgr[l] \in LayerInfo /\ LaidOut(mgr[l], limit)
  /\ \A l, m \in DOMAIN mgr : l # m => Apart(mgr[l], mgr[m])

LInv == TypeOK /\ Allocation(layerMgr, allocLBAoffset)

-----------------------------------------------------------------------------
(* The sizes and places of regions                                         *)

LEMMA SlotCases ==
  SlotNames = {"param16", "param32", "gradient32", "momentum32", "variance32"}
<1>1. DOMAIN Slots = {1, 2, 3, 4, 5}
  BY DEF Slots
<1> QED
  BY <1>1 DEF Slots, SlotNames

LEMMA DivNat ==
  ASSUME NEW x \in Nat, NEW d \in Nat \ {0}
  PROVE  x \div d \in Nat
  OBVIOUS

LEMMA TimesNat ==
  ASSUME NEW x \in Nat, NEW y \in Nat
  PROVE  x * y \in Nat
  OBVIOUS

\* A region has a natural number of blocks.
LEMMA RegionNat ==
  ASSUME NEW n \in Nat, NEW s \in SlotNames
  PROVE  RegionBlocks(s, n) \in Nat
<1> USE LayerAssumption
<1>1. n + AlignParam - 1 \in Nat
  OBVIOUS
<1>2. (n + AlignParam - 1) \div AlignParam \in Nat
  BY <1>1, DivNat
<1>3. AlignedParam(n) \in Nat
  BY <1>2, TimesNat DEF AlignedParam
<1>4. ElementBytes(s) \in Nat
  BY DEF ElementBytes
<1>5. AlignedParam(n) * ElementBytes(s) \in Nat
  BY <1>3, <1>4, TimesNat
<1> QED
  BY <1>5, DivNat DEF RegionBlocks

\* The regions of a layer follow one another and the last ends with the layer.
LEMMA LbaChain ==
  ASSUME NEW n \in Nat, NEW base \in Nat
  PROVE  /\ LbaOf("param16", n, base) = base
         /\ LbaOf("param16", n, base) + RegionBlocks("param16", n) <= LbaOf("param32", n, base)
         /\ LbaOf("param32", n, base) + RegionBlocks("param32", n) <= LbaOf("gradient32", n, base)
         /\ LbaOf("gradient32", n, base) + RegionBlocks("gradient32", n)
              <= LbaOf("momentum32", n, base)
         /\ LbaOf("momentum32", n, base) + RegionBlocks("momentum32", n)
              <= LbaOf("variance32", n, base)
         /\ LbaOf("variance32", n, base) + RegionBlocks("variance32", n)
              <= base + LayerBlocks(n)
<1>1. \A s \in SlotNames : RegionBlocks(s, n) \in Nat
  BY RegionNat
<1>2. Gap \in Nat
  BY LayerAssumption
<1> QED
  BY <1>1, <1>2, SlotCases DEF LbaOf, LayerBlocks

\* Every region starts at a block of its layer.
LEMMA LbaOrder ==
  ASSUME NEW n \in Nat, NEW base \in Nat
  PROVE  /\ \A s \in SlotNames : LbaOf(s, n, base) \in Nat /\ LbaOf(s, n, base) >= base
         /\ LbaOf("param16", n, base) = base
         /\ LayerBlocks(n) \in Nat
<1>1. \A s \in SlotNames : RegionBlocks(s, n) \in Nat
  BY RegionNat
<1>2. Gap \in Nat
  BY LayerAssumption
<1> QED
  BY <1>1, <1>2, SlotCases DEF LbaOf, LayerBlocks

\* Every region lies within its layer.
LEMMA RegionInLayer ==
  ASSUME NEW n \in Nat, NEW base \in Nat, NEW s \in SlotNames
  PROVE  /\ LbaOf(s, n, base) \in Nat /\ RegionBlocks(s, n) \in Nat
         /\ base <= LbaOf(s, n, base)
         /\ LbaOf(s, n, base) + RegionBlocks(s, n) <= base + LayerBlocks(n)
<1>1. \A t \in SlotNames : RegionBlocks(t, n) \in Nat /\ LbaOf(t, n, base) \in Nat
  BY RegionNat, LbaOrder
<1>2. \A t \in SlotNames : base <= LbaOf(t, n, base)
  BY LbaOrder
<1>3. LayerBlocks(n) \in Nat
  BY LbaOrder
<1>4. \A t \in SlotNames : LbaOf(t, n, base) + RegionBlocks(t, n) <= base + LayerBlocks(n)
  BY <1>1, <1>3, LbaChain, SlotCases
<1> QED
  BY <1>1, <1>2, <1>4

\* Two regions of one layer do not overlap.
LEMMA SlotsApart ==
  ASSUME NEW n \in Nat, NEW base \in Nat,
         NEW s \in SlotNames, NEW t \in SlotNames, s # t
  PROVE  \/ LbaOf(s, n, base) + RegionBlocks(s, n) <= LbaOf(t, n, base)
         \/ LbaOf(t, n, base) + RegionBlocks(t, n) <= LbaOf(s, n, base)
<1>1. \A u \in SlotNames : RegionBlocks(u, n) \in Nat /\ LbaOf(u, n, base) \in Nat
  BY RegionNat, LbaOrder
<1> QED
  BY <1>1, LbaChain, SlotCases

-----------------------------------------------------------------------------
(* The allocation                                                          *)

\* Two regions of a map that keeps the invariant do not overlap.
LEMMA RegionsApart ==
  ASSUME NEW mgr, NEW limit, Allocation(mgr, limit),
         NEW l \in DOMAIN mgr, NEW m \in DOMAIN mgr,
         NEW s \in SlotNames, NEW t \in SlotNames, l # m \/ s # t
  PROVE  (mgr[l].lbaMgr[s] .. mgr[l].lbaMgr[s] + RegionBlocks(s, mgr[l].paramNum) - 1)
           \intersect (mgr[m].lbaMgr[t] .. mgr[m].lbaMgr[t] + RegionBlocks(t, mgr[m].paramNum) - 1)
         = {}
<1> DEFINE n == mgr[l].paramNum
           k == mgr[m].paramNum
           b == Base(mgr[l])
           c == Base(mgr[m])
<1>1. n \in Nat /\ k \in Nat /\ b \in Nat /\ c \in Nat
  BY DEF Allocation, LayerInfo, LaidOut
<1>2. /\ mgr[l].lbaMgr[s] = LbaOf(s, n, b)
      /\ mgr[m].lbaMgr[t] = LbaOf(t, k, c)
  BY DEF Allocation, LaidOut
<1>3. l # m => b + LayerBlocks(n) <= c \/ c + LayerBlocks(k) <= b
  BY DEF Allocation, Apart
<1>4. l = m => n = k /\ b = c
  OBVIOUS
<1> HIDE DEF n, k, b, c
<1>5. /\ LbaOf(s, n, b) \in Nat /\ RegionBlocks(s, n) \in Nat
      /\ LbaOf(t, k, c) \in Nat /\ RegionBlocks(t, k) \in Nat
      /\ LayerBlocks(n) \in Nat /\ LayerBlocks(k) \in Nat
  BY <1>1, RegionInLayer, LbaOrder
<1>6. \/ LbaOf(s, n, b) + RegionBlocks(s, n) <= LbaOf(t, k, c)
      \/ LbaOf(t, k, c) + RegionBlocks(t, k) <= LbaOf(s, n, b)
  <2>1. CASE l = m
    BY <1>1, <1>4, <2>1, SlotsApart
  <2>2. CASE l # m
    <3>1. b <= LbaOf(s, n, b) /\ LbaOf(s, n, b) + RegionBlocks(s, n) <= b + LayerBlocks(n)
      BY <1>1, RegionInLayer
    <3>2. c <= LbaOf(t, k, c) /\ LbaOf(t, k, c) + RegionBlocks(t, k) <= c + LayerBlocks(k)
      BY <1>1, RegionInLayer
    <3> QED
      BY <1>1, <1>3, <1>5, <2>2, <3>1, <3>2
  <2> QED
    BY <2>1, <2>2
<1>7. (LbaOf(s, n, b) .. LbaOf(s, n, b) + RegionBlocks(s, n) - 1)
        \intersect (LbaOf(t, k, c) .. LbaOf(t, k, c) + RegionBlocks(t, k) - 1) = {}
  BY <1>5, <1>6
<1> QED
  BY <1>2, <1>7 DEF n, k

\* What the invariant says of the map gives the property.
LEMMA AllocationDisjoint == Allocation(layerMgr, allocLBAoffset) => RegionsDisjoint
<1> SUFFICES ASSUME Allocation(layerMgr, allocLBAoffset),
                    NEW l \in DOMAIN layerMgr, NEW m \in DOMAIN layerMgr,
                    NEW s \in SlotNames, NEW t \in SlotNames, l # m \/ s # t
             PROVE  Region(l, s) \intersect Region(m, t) = {}
  BY DEF RegionsDisjoint
<1> QED
  BY RegionsApart DEF Region

\* A new layer is laid out from the next free block to the one after it.
LEMMA NewLayerLaidOut ==
  ASSUME NEW f \in Files, allocLBAoffset \in Nat
  PROVE  /\ NewLayer(f) \in LayerInfo
         /\ Base(NewLayer(f)) = allocLBAoffset
         /\ LaidOut(NewLayer(f), allocLBAoffset + LayerBlocks(f.numel))
         /\ LayerBlocks(f.numel) \in Nat
<1>1. f.numel \in Nat \ {0}
  BY LayerAssumption
<1>2. /\ \A s \in SlotNames : LbaOf(s, f.numel, allocLBAoffset) \in Nat
      /\ LbaOf("param16", f.numel, allocLBAoffset) = allocLBAoffset
      /\ LayerBlocks(f.numel) \in Nat
  BY <1>1, LbaOrder
<1>3. "param16" \in SlotNames
  BY SlotCases
<1>4. Base(NewLayer(f)) = allocLBAoffset
  BY <1>2, <1>3 DEF Base, NewLayer
<1>5. NewLayer(f) \in LayerInfo
  <2>1. [s \in SlotNames |-> LbaOf(s, f.numel, allocLBAoffset)] \in [SlotNames -> Nat]
    BY <1>2
  <2>2. [s \in SlotNames |-> NoCRC]
          \in [SlotNames -> {NoCRC} \union {Content(g, v) : g \in Files, v \in Versions}]
    OBVIOUS
  <2> QED
    BY <1>1, <2>1, <2>2 DEF NewLayer, LayerInfo
<1> QED
  BY <1>2, <1>4, <1>5 DEF LaidOut, NewLayer

\* parsefromFileName keeps the allocation, whichever layer it enters or links.
LEMMA MapWithKeeps ==
  ASSUME Allocation(layerMgr, allocLBAoffset), NEW f \in Files
  PROVE  Allocation(MapWith(f), AllocatedWith(f))
<1> USE DEF Allocation
<1>1. f.id \in Nat
  BY LayerAssumption
<1>2. CASE f.dir = "bfloat16params" /\ f.id \notin DOMAIN layerMgr
  <2> DEFINE next == allocLBAoffset + LayerBlocks(f.numel)
  <2>1. /\ MapWith(f) = [l \in DOMAIN layerMgr \union {f.id} |->
                            IF l = f.id THEN NewLayer(f) ELSE layerMgr[l]]
        /\ AllocatedWith(f) = next
    BY <1>2 DEF MapWith, AllocatedWith
  <2>2. /\ NewLayer(f) \in LayerInfo /\ LaidOut(NewLayer(f), next)
        /\ Base(NewLayer(f)) = allocLBAoffset
        /\ LayerBlocks(f.numel) \in Nat
    BY NewLayerLaidOut
  <2>3. next \in Nat /\ allocLBAoffset <= next
    BY <2>2
  <2>4. ASSUME NEW l \in DOMAIN layerMgr
        PROVE  /\ LaidOut(layerMgr[l], next)
               /\ Base(layerMgr[l]) + LayerBlocks(layerMgr[l].paramNum) <= allocLBAoffset
    <3>1. layerMgr[l].paramNum \in Nat /\ Base(layerMgr[l]) \in Nat
      BY DEF LayerInfo, LaidOut
    <3>2. LayerBlocks(layerMgr[l].paramNum) \in Nat
      BY <3>1, LbaOrder
    <3> QED
      BY <2>3, <3>1, <3>2 DEF LaidOut
  <2> HIDE DEF next
  <2>5. \A l \in DOMAIN MapWith(f) :
          MapWith(f)[l] \in LayerInfo /\ LaidOut(MapWith(f)[l], next)
    BY <2>1, <2>2, <2>4
  <2>6. ASSUME NEW l \in DOMAIN MapWith(f), NEW m \in DOMAIN MapWith(f), l # m
        PROVE  Apart(MapWith(f)[l], MapWith(f)[m])
    <3>1. CASE l = f.id
      BY <2>1, <2>2, <2>4, <2>6, <3>1 DEF Apart
    <3>2. CASE m = f.id
      BY <2>1, <2>2, <2>4, <2>6, <3>2 DEF Apart
    <3>3. CASE l # f.id /\ m # f.id
      BY <2>1, <2>6, <3>3
    <3> QED
      BY <3>1, <3>2, <3>3
  <2> QED
    BY <1>1, <2>1, <2>3, <2>5, <2>6
<1>3. CASE f.dir # "bfloat16params" /\ Links(f)
  <2>1. /\ MapWith(f) = [layerMgr EXCEPT ![prevOp.id].hashID = f.id]
        /\ AllocatedWith(f) = allocLBAoffset
    BY <1>3 DEF MapWith, AllocatedWith
  <2>2. ASSUME NEW l \in DOMAIN layerMgr
        PROVE  /\ MapWith(f)[l] \in LayerInfo
               /\ MapWith(f)[l].lbaMgr = layerMgr[l].lbaMgr
               /\ MapWith(f)[l].paramNum = layerMgr[l].paramNum
    BY <1>1, <2>1 DEF LayerInfo
  <2>3. DOMAIN MapWith(f) = DOMAIN layerMgr
    BY <2>1
  <2> QED
    BY <2>1, <2>2, <2>3 DEF LaidOut, Apart, Base
<1>4. CASE ~(f.dir = "bfloat16params" /\ f.id \notin DOMAIN layerMgr)
           /\ ~(f.dir # "bfloat16params" /\ Links(f))
  BY <1>4 DEF MapWith, AllocatedWith
<1> QED
  BY <1>2, <1>3, <1>4

\* Storing a CRC moves no region.
LEMMA StoreCRCKeeps ==
  ASSUME NEW mgr, NEW limit, Allocation(mgr, limit), NEW f \in Files, NEW v \in Versions, NEW k
  PROVE  Allocation([mgr EXCEPT ![k].crcMgr[f.slot] = Content(f, v)], limit)
<1> DEFINE new == [mgr EXCEPT ![k].crcMgr[f.slot] = Content(f, v)]
<1>1. DOMAIN new = DOMAIN mgr
  OBVIOUS
<1>2. ASSUME NEW l \in DOMAIN mgr
      PROVE  /\ new[l] \in LayerInfo
             /\ new[l].lbaMgr = mgr[l].lbaMgr
             /\ new[l].paramNum = mgr[l].paramNum
  <2>1. mgr[l] \in LayerInfo
    BY DEF Allocation
  <2>2. CASE l # k
    BY <2>1, <2>2
  <2>3. CASE l = k
    <3>1. new[l] = [mgr[l] EXCEPT !.crcMgr = [mgr[l].crcMgr EXCEPT ![f.slot] = Content(f, v)]]
      BY <2>3
    <3>2. [mgr[l].crcMgr EXCEPT ![f.slot] = Content(f, v)]
            \in [SlotNames -> {NoCRC} \union {Content(g, w) : g \in Files, w \in Versions}]
      <4>1. f.slot \in SlotNames
        BY LayerAssumption
      <4>2. Content(f, v) \in {Content(g, w) : g \in Files, w \in Versions}
        OBVIOUS
      <4>3. mgr[l].crcMgr
              \in [SlotNames -> {NoCRC} \union {Content(g, w) : g \in Files, w \in Versions}]
        BY <2>1 DEF LayerInfo
      <4> HIDE DEF new
      <4> QED
        BY <4>1, <4>2, <4>3
    <3> HIDE DEF new
    <3> QED
      BY <2>1, <3>1, <3>2 DEF LayerInfo
  <2> QED
    BY <2>2, <2>3
<1> HIDE DEF new
<1>3. Allocation(new, limit)
  BY <1>1, <1>2 DEF Allocation, LaidOut, Apart, Base
<1> QED
  BY <1>3 DEF new

-----------------------------------------------------------------------------
(* The invariant                                                           *)

LEMMA InitLInv == Init => LInv
<1> SUFFICES ASSUME Init PROVE LInv
  OBVIOUS
<1>1. DOMAIN layerMgr = {}
  BY DEF Init, EmptyMap
<1> QED
  BY <1>1, LayerAssumption DEF Init, NoOp, LInv, TypeOK, Allocation

\* The rest of the type invariant, for the steps that use a file.
LEMMA UseKeeps ==
  ASSUME LInv, NEW f \in Files,
         Allocation(layerMgr', allocLBAoffset'),
         prevOp'.id = f.id, prevOp'.numel = f.numel,
         aborted' \in {"no", "0136", "undefined", "CRC", "device"},
         DOMAIN disk' = DOMAIN disk,
         UNCHANGED <<contract, restarts>>
  PROVE  LInv'
  BY DEF LInv, TypeOK, Allocation

LEMMA StepKeepsLInv == LInv /\ [Next]_vars => LInv'
<1> SUFFICES ASSUME LInv, [Next]_vars PROVE LInv'
  OBVIOUS
<1>1. ASSUME NEW f \in Files, NEW op \in {"READ", "WRITE"}, Unresolved(f, op) PROVE LInv'
  BY <1>1 DEF Unresolved, LInv, TypeOK, Allocation
<1>2. ASSUME NEW f \in Files, ReadFile(f) PROVE LInv'
  <2>1. Allocation(layerMgr', allocLBAoffset')
    BY <1>2, MapWithKeeps DEF LInv, ReadFile, Remember
  <2>2. aborted' \in {"no", "0136", "undefined", "CRC", "device"}
    BY <1>2 DEF LInv, TypeOK, ReadFile
  <2> QED
    BY <1>2, <2>1, <2>2, UseKeeps DEF ReadFile, Remember, KeepFileName
<1>3. ASSUME NEW f \in Files, NEW v \in Versions, WriteFile(f, v) PROVE LInv'
  <2>1. Allocation(layerMgr', allocLBAoffset')
    BY <1>3, MapWithKeeps, StoreCRCKeeps DEF LInv, WriteFile
  <2>2. aborted' \in {"no", "0136", "undefined", "CRC", "device"}
    BY <1>3 DEF LInv, TypeOK, WriteFile
  <2>3. DOMAIN disk' = DOMAIN disk
    BY <1>3 DEF WriteFile
  <2> QED
    BY <1>3, <2>1, <2>2, <2>3, UseKeeps DEF WriteFile, KeepFileName
<1>4. ASSUME NEW f \in Files, NEW op \in {"READ", "WRITE"}, NEW v \in Versions,
             TransferFails(f, op, v)
      PROVE  LInv'
  <2>1. Allocation(layerMgr', allocLBAoffset')
    BY <1>4, MapWithKeeps DEF LInv, TransferFails, Remember
  <2>2. DOMAIN disk' = DOMAIN disk
    BY <1>4 DEF TransferFails
  <2> QED
    BY <1>4, <2>1, <2>2, UseKeeps DEF TransferFails, Remember, KeepFileName
<1>5. CASE Restart
  <2>1. DOMAIN layerMgr' = {} /\ allocLBAoffset' = 0
    BY <1>5 DEF Restart, EmptyMap
  <2> QED
    BY <1>5, <2>1, LayerAssumption DEF Restart, NoOp, LInv, TypeOK, Allocation
<1>6. CASE UNCHANGED vars
  BY <1>6 DEF vars, LInv, TypeOK, Allocation
<1> QED
  BY <1>1, <1>2, <1>3, <1>4, <1>5, <1>6 DEF Next, Done

\* The map is well formed after every call, restart or failure.
THEOREM ManagerTypeCorrect == Spec => []TypeOK
<1>1. LInv => TypeOK
  BY DEF LInv
<1> QED
  BY <1>1, InitLInv, StepKeepsLInv, PTL DEF Spec

\* No two regions of the device ever overlap (getTempLBAMgr), whatever the
\* number and the sizes of the layers and the order in which they appear.
THEOREM RegionsNeverOverlap == Spec => []RegionsDisjoint
<1>1. LInv => RegionsDisjoint
  BY AllocationDisjoint DEF LInv
<1> QED
  BY <1>1, InitLInv, StepKeepsLInv, PTL DEF Spec
=============================================================================
