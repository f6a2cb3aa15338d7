-------------------------- MODULE LayerManagerReadProofs --------------------------
(***************************************************************************)
(* What LayerManager promises the client, proved for every set of files    *)
(* and every order of calls: a tensor is written into its region only, a   *)
(* read returns what was last written, and no assertion stops a client     *)
(* that keeps the contract.                                                *)
(***************************************************************************)
EXTENDS LayerManagerProofs, WellFoundedInduction

\* The file belongs to the layer: by its number, or because its hash is linked.
Belongs(mgr, f, l) == IF f.dir = "bfloat16params" THEN f.id = l ELSE mgr[l].hashID = f.id

\* Every layer was entered for a file.
Entered(mgr) ==
  \A l \in DOMAIN mgr : \E f \in Files : f.dir = "bfloat16params" /\ f.id = l

\* The file states the layer's number of elements.
Counted(mgr, f, l) == mgr[l].paramNum = f.numel

\* The previous operation, if it was the read of a layer, was that of a known one, and
\* under its number of elements unless that is known to be a wrong one.
PrevInv ==
  AfterParamRead => /\ prevOp.id \in DOMAIN layerMgr
                    /\ prevOp.id \in recounted \/ prevOp.numel = layerMgr[prevOp.id].paramNum
                    /\ \E f \in Files : f.dir = "bfloat16params" /\ f.id = prevOp.id

\* The layer the loop over the map stops at.
IsFirst(mgr, f, l) == \A m \in DOMAIN mgr : Belongs(mgr, f, m) => Position(l) <= Position(m)

FileAt(mgr, f, l) == mgr[l].lbaMgr[f.slot] .. mgr[l].lbaMgr[f.slot] + FileBlocks(f) - 1

\* A CRC that is kept in c for a region is that of the file in this region, all of which
\* is on the device d; if the file's name still leads here, it is w[f], the last one written.
Stored(mgr, d, w, f, l) ==
  LET crc == mgr[l].crcMgr[f.slot]
  IN  /\ Belongs(mgr, f, l) /\ Counted(mgr, f, l) /\ FileBlocks(f) > 0
      /\ \A b \in FileAt(mgr, f, l) : b \in DOMAIN d /\ d[b] = crc
      /\ IsFirst(mgr, f, l) => w[f] = crc

Storage(mgr, d, w) ==
  \A l \in DOMAIN mgr : \A s \in SlotNames :
    mgr[l].crcMgr[s] # NoCRC => \E f \in Files : f.slot = s /\ Stored(mgr, d, w, f, l)

\* No content is mistaken for a missing CRC.
ContentInv ==
  /\ \A b \in DOMAIN disk : disk[b] # NoCRC
  /\ DOMAIN lastWrite = Files
  /\ \A f \in Files : lastWrite[f] # NoCRC

\* A client that keeps the contract links every hash to its own layer, and finds there
\* what it wrote.
Contracted(mgr, w) ==
  /\ \A f \in Files : \A l \in DOMAIN mgr :
       f.dir = "optimizer" /\ mgr[l].hashID = f.id => l = LayerOf[f.id]
  /\ \A f \in Files : w[f] # Nothing =>
       \E l \in DOMAIN mgr :
         Belongs(mgr, f, l) /\ Counted(mgr, f, l) /\ mgr[l].crcMgr[f.slot] = w[f]

RInv ==
  /\ LInv /\ Entered(layerMgr) /\ PrevInv /\ ContentInv
  /\ aborted = "no" /\ recounted = {} => Storage(layerMgr, disk, lastWrite)
  /\ aborted = "no" /\ contract => Contracted(layerMgr, lastWrite)
  /\ contract => recounted = {}
  /\ ContractSuffices /\ ReadReturnsLastWrite

-----------------------------------------------------------------------------
(* Sizes                                                                   *)

LEMMA DivMonotone ==
  ASSUME NEW x \in Nat, NEW y \in Nat, x <= y, NEW d \in Nat \ {0}
  PROVE  x \div d <= y \div d
  OBVIOUS

LEMMA RoundsUp ==
  ASSUME NEW x \in Nat, NEW a \in Nat \ {0}
  PROVE  /\ ((x + a - 1) \div a) * a \in Nat
         /\ x <= ((x + a - 1) \div a) * a
<1> DEFINE y == x + a - 1
           q == y \div a
<1>1. y \in Nat
  OBVIOUS
<1> HIDE DEF y
<1>2. q \in Nat /\ y < a * q + a
  BY <1>1
<1> HIDE DEF q
<1>3. a * q \in Nat /\ q * a = a * q
  BY <1>2
<1>4. x <= q * a /\ q * a \in Nat
  BY <1>2, <1>3 DEF y
<1> QED
  BY <1>4 DEF q, y

\* A file fits into the region of a layer of its size.
LEMMA FileFits ==
  ASSUME NEW f \in Files
  PROVE  /\ FileBlocks(f) \in Nat /\ RegionBlocks(f.slot, f.numel) \in Nat
         /\ FileBlocks(f) <= RegionBlocks(f.slot, f.numel)
<1>1. f.numel \in Nat /\ f.slot \in SlotNames /\ ElementBytes(f.slot) \in {2, 4}
  BY LayerAssumption DEF ElementBytes
<1>2. BlockBytes \in Nat \ {0} /\ AlignParam \in Nat \ {0}
  BY LayerAssumption
<1>3. AlignedParam(f.numel) \in Nat /\ f.numel <= AlignedParam(f.numel)
  BY <1>1, <1>2, RoundsUp DEF AlignedParam
<1>4. /\ f.numel * ElementBytes(f.slot) \in Nat
      /\ AlignedParam(f.numel) * ElementBytes(f.slot) \in Nat
      /\ f.numel * ElementBytes(f.slot) <= AlignedParam(f.numel) * ElementBytes(f.slot)
  BY <1>1, <1>3
<1>5. (f.numel * ElementBytes(f.slot)) \div BlockBytes
        <= (AlignedParam(f.numel) * ElementBytes(f.slot)) \div BlockBytes
  BY <1>2, <1>4, DivMonotone
<1>6. (f.numel * ElementBytes(f.slot)) \div BlockBytes \in Nat
  BY <1>2, <1>4, DivNat
<1> QED
  BY <1>1, <1>5, <1>6, RegionNat DEF FileBlocks, RegionBlocks

-----------------------------------------------------------------------------
(* Which layer a file belongs to                                           *)

LEMMA NatMin ==
  ASSUME NEW T \in SUBSET Nat, T # {}
  PROVE  \E x \in T : \A y \in T : x <= y
<1>1. PICK x \in T : \A y \in T : <<y, x>> \notin OpToRel(<, Nat)
  BY NatLessThanWellFounded, WFMin
<1>2. \A y \in T : ~(y < x)
  BY <1>1 DEF OpToRel
<1> QED
  BY <1>2

LEMMA PositionOfLayer ==
  ASSUME NEW f \in Files, f.dir = "bfloat16params"
  PROVE  Position(f.id) \in Nat /\ MapOrder[Position(f.id)] = f.id
<1>1. \E i \in DOMAIN MapOrder : MapOrder[i] = f.id
  BY OrderAssumption
<1>2. DOMAIN MapOrder \subseteq Nat
  BY LayerAssumption
<1> QED
  BY <1>1, <1>2 DEF Position

\* A hash is no layer number, and no layer number is a hash.
LEMMA FileKinds ==
  ASSUME NEW f \in Files
  PROVE  /\ f.id \in Nat /\ f.numel \in Nat \ {0} /\ f.slot \in SlotNames
         /\ f.dir = "bfloat16params" \/ f.dir = "optimizer"
         /\ f.id # NoHash
         /\ f.dir = "bfloat16params" <=> f.slot = "param16"
         /\ f.dir = "bfloat16params" <=> f.id < MAX_LAYER_SIZE
  BY LayerAssumption, NameAssumption DEF NoHash, Dirs

\* Two files of one region are one file.
LEMMA OneFilePerRegion ==
  ASSUME NEW mgr, NEW l, NEW f \in Files, NEW g \in Files,
         Belongs(mgr, f, l), Belongs(mgr, g, l), f.slot = g.slot, f.numel = g.numel
  PROVE  f = g
<1>1. f.dir = g.dir
  BY FileKinds
<1>2. f.id = g.id
  BY <1>1 DEF Belongs
<1>3. f \in [dir : Dirs, id : Nat, numel : Nat \ {0}, slot : SlotNames]
      /\ g \in [dir : Dirs, id : Nat, numel : Nat \ {0}, slot : SlotNames]
  BY LayerAssumption
<1> QED
  BY <1>1, <1>2, <1>3

\* The layer a file is found in is one it belongs to, and the first one.
LEMMA TheLayerIsFirst ==
  ASSUME NEW f \in Files, Entered(MapWith(f)), Found(f) # {}
  PROVE  /\ TheLayer(f) \in Found(f) /\ TheLayer(f) \in DOMAIN MapWith(f)
         /\ Belongs(MapWith(f), f, TheLayer(f))
         /\ IsFirst(MapWith(f), f, TheLayer(f))
<1> DEFINE M == MapWith(f)
           Places == {Position(l) : l \in Found(f)}
<1>1. f.dir = "bfloat16params" => f.id \in DOMAIN M
  BY DEF MapWith
<1>2. \A l : l \in Found(f) <=> l \in DOMAIN M /\ Belongs(M, f, l)
  BY <1>1, FileKinds DEF Found, Belongs
<1>3. \A l \in Found(f) : Position(l) \in Nat
  BY <1>2, PositionOfLayer DEF Entered
<1>4. PICK l \in Found(f) : \A m \in Found(f) : Position(l) <= Position(m)
  <2>1. Places \in SUBSET Nat /\ Places # {}
    BY <1>3
  <2> HIDE DEF Places
  <2>2. PICK x \in Places : \A y \in Places : x <= y
    BY <2>1, NatMin
  <2> QED
    BY <2>2 DEF Places
<1>5. TheLayer(f) \in Found(f) /\ \A m \in Found(f) : Position(TheLayer(f)) <= Position(m)
  BY <1>4 DEF TheLayer
<1> QED
  BY <1>2, <1>5 DEF IsFirst

-----------------------------------------------------------------------------
(* What a call makes of the map                                            *)

\* A call adds at most the file's layer, and changes no more of another than to
\* link a hash where there was none.
LEMMA MapGrows ==
  ASSUME NEW f \in Files, LInv, PrevInv
  PROVE  /\ DOMAIN layerMgr \subseteq DOMAIN MapWith(f)
         /\ \A l \in DOMAIN layerMgr :
              /\ MapWith(f)[l].lbaMgr = layerMgr[l].lbaMgr
              /\ MapWith(f)[l].crcMgr = layerMgr[l].crcMgr
              /\ MapWith(f)[l].paramNum = layerMgr[l].paramNum
              /\ \/ MapWith(f)[l].hashID = layerMgr[l].hashID
                 \/ /\ l = prevOp.id /\ Links(f)
                    /\ MapWith(f)[l].hashID = f.id
         /\ \A l \in DOMAIN MapWith(f) \ DOMAIN layerMgr :
              /\ f.dir = "bfloat16params" /\ l = f.id
              /\ MapWith(f)[l] = NewLayer(f)
         /\ Links(f) => /\ prevOp.id \in DOMAIN layerMgr
                        /\ MapWith(f)[prevOp.id].hashID = f.id
<1>1. CASE f.dir = "bfloat16params"
  BY <1>1 DEF MapWith, Links
<1>2. CASE f.dir # "bfloat16params" /\ Links(f)
  <2>1. prevOp.id \in DOMAIN layerMgr
    BY <1>2 DEF Links, PrevInv
  <2>2. layerMgr[prevOp.id] \in LayerInfo
    BY <2>1 DEF LInv, TypeOK
  <2>3. MapWith(f) = [layerMgr EXCEPT ![prevOp.id].hashID = f.id]
    BY <1>2 DEF MapWith
  <2> QED
    BY <1>2, <2>1, <2>2, <2>3 DEF LayerInfo
<1>3. CASE f.dir # "bfloat16params" /\ ~Links(f)
  BY <1>3 DEF MapWith
<1> QED
  BY <1>1, <1>2, <1>3

\* A file stays with the layer it belongs to.
LEMMA BelongsStays ==
  ASSUME NEW f \in Files, LInv, PrevInv, NEW g \in Files,
         NEW l \in DOMAIN layerMgr, Belongs(layerMgr, g, l)
  PROVE  Belongs(MapWith(f), g, l)
  BY MapGrows, FileKinds DEF Belongs, Links

\* Only the first file of a layer enters one.
LEMMA EnteredStays ==
  ASSUME NEW f \in Files, LInv, PrevInv, Entered(layerMgr)
  PROVE  Entered(MapWith(f))
<1> SUFFICES ASSUME NEW l \in DOMAIN MapWith(f)
             PROVE  \E g \in Files : g.dir = "bfloat16params" /\ g.id = l
  BY DEF Entered
<1>1. CASE l \notin DOMAIN layerMgr
  BY <1>1, MapGrows
<1>2. CASE l \in DOMAIN layerMgr
  BY <1>2 DEF Entered
<1> QED
  BY <1>1, <1>2

\* A file used now states the number of elements of its layer, unless the layer is one of
\* those used under another: the assertion on the sizes compares it with that of the read
\* before, which in turn was the layer's.
LEMMA CountedUnlessRecounted ==
  ASSUME NEW f \in Files, LInv, PrevInv, ~SizeMismatch(f),
         TheLayer(f) \notin recounted, TheLayer(f) \notin Recounts(f)
  PROVE  Counted(MapWith(f), f, TheLayer(f))
<1>1. CASE Links(f) /\ TheLayer(f) = prevOp.id
  <2>1. prevOp.numel = f.numel
    BY <1>1 DEF SizeMismatch
  <2>2. /\ prevOp.id \in DOMAIN layerMgr
        /\ prevOp.numel = layerMgr[prevOp.id].paramNum
    BY <1>1 DEF Links, PrevInv
  <2>3. MapWith(f)[prevOp.id].paramNum = layerMgr[prevOp.id].paramNum
    BY <2>2, MapGrows
  <2> QED
    BY <1>1, <2>1, <2>2, <2>3 DEF Counted
<1>2. CASE ~(Links(f) /\ TheLayer(f) = prevOp.id)
  BY <1>2 DEF Recounts, Counted
<1> QED
  BY <1>1, <1>2

\* Entering a layer or linking a hash keeps what is known of the contents.
LEMMA StorageStays ==
  ASSUME NEW f \in Files, LInv, PrevInv, Storage(layerMgr, disk, lastWrite)
  PROVE  Storage(MapWith(f), disk, lastWrite)
<1> SUFFICES ASSUME NEW l \in DOMAIN MapWith(f), NEW s \in SlotNames,
                    MapWith(f)[l].crcMgr[s] # NoCRC
             PROVE  \E g \in Files : g.slot = s /\ Stored(MapWith(f), disk, lastWrite, g, l)
  BY DEF Storage
<1>1. l \in DOMAIN layerMgr
  BY MapGrows DEF NewLayer
<1>2. /\ MapWith(f)[l].crcMgr = layerMgr[l].crcMgr
      /\ MapWith(f)[l].lbaMgr = layerMgr[l].lbaMgr
  BY <1>1, MapGrows
<1>3. PICK g \in Files : g.slot = s /\ Stored(layerMgr, disk, lastWrite, g, l)
  BY <1>1, <1>2 DEF Storage
<1>4. Belongs(MapWith(f), g, l) /\ Counted(MapWith(f), g, l)
  BY <1>1, <1>3, BelongsStays, MapGrows DEF Stored, Counted
<1>5. FileAt(MapWith(f), g, l) = FileAt(layerMgr, g, l)
  BY <1>2 DEF FileAt
<1>6. IsFirst(MapWith(f), g, l) => IsFirst(layerMgr, g, l)
  BY BelongsStays, MapGrows DEF IsFirst
<1> QED
  BY <1>2, <1>3, <1>4, <1>5, <1>6 DEF Stored

\* A client under the contract links a hash to its own layer.
LEMMA ContractStays ==
  ASSUME NEW f \in Files, LInv, PrevInv, Contracted(layerMgr, lastWrite),
         Links(f) => prevOp.id = LayerOf[f.id]
  PROVE  Contracted(MapWith(f), lastWrite)
<1>1. ASSUME NEW g \in Files, NEW l \in DOMAIN MapWith(f),
             g.dir = "optimizer", MapWith(f)[l].hashID = g.id
      PROVE  l = LayerOf[g.id]
  <2>1. l \in DOMAIN layerMgr
    BY <1>1, MapGrows, FileKinds DEF NewLayer
  <2> QED
    BY <1>1, <2>1, MapGrows DEF Contracted
<1>2. ASSUME NEW g \in Files, lastWrite[g] # Nothing
      PROVE  \E l \in DOMAIN MapWith(f) :
               /\ Belongs(MapWith(f), g, l) /\ Counted(MapWith(f), g, l)
               /\ MapWith(f)[l].crcMgr[g.slot] = lastWrite[g]
  <2>1. PICK l \in DOMAIN layerMgr :
          /\ Belongs(layerMgr, g, l) /\ Counted(layerMgr, g, l)
          /\ layerMgr[l].crcMgr[g.slot] = lastWrite[g]
    BY <1>2 DEF Contracted
  <2> QED
    BY <2>1, MapGrows, BelongsStays DEF Counted
<1> QED
  BY <1>1, <1>2 DEF Contracted

-----------------------------------------------------------------------------
(* What a transfer makes of the device                                     *)

\* The blocks a file's transfer covers are the file's, in the region of its slot.
LEMMA ExtentInRegion ==
  ASSUME NEW f \in Files, Allocation(MapWith(f), AllocatedWith(f)),
         Entered(MapWith(f)), Found(f) # {}
  PROVE  /\ FileLba(f) \in Nat
         /\ Extent(f) = FileAt(MapWith(f), f, TheLayer(f))
<1>1. TheLayer(f) \in DOMAIN MapWith(f)
  BY TheLayerIsFirst
<1>2. MapWith(f)[TheLayer(f)] \in LayerInfo
  BY <1>1 DEF Allocation
<1>3. MapWith(f)[TheLayer(f)].lbaMgr[f.slot] \in Nat
  BY <1>2, FileKinds DEF LayerInfo
<1> QED
  BY <1>3 DEF FileLba, Extent, FileAt

\* A file with its layer's number of elements keeps to the region of its slot.
LEMMA FileInRegion ==
  ASSUME NEW mgr, NEW limit, Allocation(mgr, limit),
         NEW l \in DOMAIN mgr, NEW f \in Files, Counted(mgr, f, l)
  PROVE  FileAt(mgr, f, l) \subseteq
           mgr[l].lbaMgr[f.slot] .. mgr[l].lbaMgr[f.slot] + RegionBlocks(f.slot, mgr[l].paramNum) - 1
<1>1. mgr[l].paramNum = f.numel
  BY DEF Counted
<1>2. mgr[l].lbaMgr[f.slot] \in Nat
  BY FileKinds DEF Allocation, LayerInfo
<1>3. /\ FileBlocks(f) \in Nat /\ RegionBlocks(f.slot, f.numel) \in Nat
      /\ FileBlocks(f) <= RegionBlocks(f.slot, f.numel)
  BY FileFits
<1> QED
  BY <1>1, <1>2, <1>3 DEF FileAt

\* Two files in two regions share no block.
LEMMA FilesApart ==
  ASSUME NEW mgr, NEW limit, Allocation(mgr, limit),
         NEW l \in DOMAIN mgr, NEW f \in Files, Counted(mgr, f, l),
         NEW m \in DOMAIN mgr, NEW g \in Files, Counted(mgr, g, m),
         l # m \/ f.slot # g.slot
  PROVE  FileAt(mgr, f, l) \intersect FileAt(mgr, g, m) = {}
<1>1. f.slot \in SlotNames /\ g.slot \in SlotNames
  BY FileKinds
<1> QED
  BY <1>1, RegionsApart, FileInRegion

\* Only one layer is the first.
LEMMA FirstIsUnique ==
  ASSUME NEW mgr, Entered(mgr), NEW f \in Files,
         NEW l \in DOMAIN mgr, Belongs(mgr, f, l), IsFirst(mgr, f, l),
         NEW m \in DOMAIN mgr, Belongs(mgr, f, m), IsFirst(mgr, f, m)
  PROVE  l = m
<1>1. Position(l) <= Position(m) /\ Position(m) <= Position(l)
  BY DEF IsFirst
<1>2. /\ Position(l) \in Nat /\ MapOrder[Position(l)] = l
      /\ Position(m) \in Nat /\ MapOrder[Position(m)] = m
  BY PositionOfLayer DEF Entered
<1>3. Position(l) = Position(m)
  BY <1>1, <1>2
<1> QED
  BY <1>2, <1>3

\* The contents, and that nothing was stored yet, are not the missing CRC.
LEMMA ContentIsNoGap ==
  ASSUME NEW f, NEW v
  PROVE  Content(f, v) # NoCRC /\ Content(f, v) # Nothing /\ Nothing # NoCRC
<1>1. Len(Content(f, v)) = 2 /\ Len(NoCRC) = 1 /\ Len(Nothing) = 0
  BY DEF Content, NoCRC, Nothing
<1> QED
  BY <1>1

\* A write puts the CRC and all blocks of one region in step, and disturbs no other.
LEMMA WriteKeepsStorage ==
  ASSUME NEW f \in Files, NEW v \in Versions, LInv, ContentInv, OnDevice(f), Found(f) # {},
         Allocation(MapWith(f), AllocatedWith(f)), Entered(MapWith(f)),
         Counted(MapWith(f), f, TheLayer(f)), Storage(MapWith(f), disk, lastWrite)
  PROVE  Storage([MapWith(f) EXCEPT ![TheLayer(f)].crcMgr[f.slot] = Content(f, v)],
                 [b \in DOMAIN disk |-> IF b \in Extent(f) THEN Content(f, v) ELSE disk[b]],
                 [lastWrite EXCEPT ![f] = Content(f, v)])
<1> DEFINE M == MapWith(f)
           c == Content(f, v)
           L == TheLayer(f)
           N == [M EXCEPT ![L].crcMgr[f.slot] = c]
           d == [b \in DOMAIN disk |-> IF b \in Extent(f) THEN c ELSE disk[b]]
           w == [lastWrite EXCEPT ![f] = c]
<1> SUFFICES ASSUME NEW l \in DOMAIN N, NEW s \in SlotNames, N[l].crcMgr[s] # NoCRC
             PROVE  \E g \in Files : g.slot = s /\ Stored(N, d, w, g, l)
  BY DEF Storage
<1>1. L \in DOMAIN M /\ Belongs(M, f, L) /\ IsFirst(M, f, L)
  BY TheLayerIsFirst
<1>2. FileLba(f) \in Nat /\ Extent(f) = FileAt(M, f, L)
  BY ExtentInRegion
<1>3. l \in DOMAIN M /\ DOMAIN N = DOMAIN M
  OBVIOUS
<1>4. \A m \in DOMAIN M : /\ M[m] \in LayerInfo
                          /\ N[m].hashID = M[m].hashID /\ N[m].lbaMgr = M[m].lbaMgr
                          /\ N[m].paramNum = M[m].paramNum
  BY DEF Allocation, LayerInfo
<1>5. \A m \in DOMAIN M : \A g \in Files :
        /\ Belongs(N, g, m) <=> Belongs(M, g, m)
        /\ FileAt(N, g, m) = FileAt(M, g, m)
        /\ Counted(N, g, m) <=> Counted(M, g, m)
  BY <1>4 DEF Belongs, FileAt, Counted
<1>6. \A g \in Files : IsFirst(N, g, l) <=> IsFirst(M, g, l)
  BY <1>3, <1>5 DEF IsFirst
<1>7. f.slot \in SlotNames
  BY FileKinds
<1>8. M[L].crcMgr \in [SlotNames -> {NoCRC} \union {Content(g, x) : g \in Files, x \in Versions}]
  BY <1>1, <1>4 DEF LayerInfo
<1>9. CASE l = L /\ s = f.slot
  <2>1. N[L].crcMgr[s] = c
    BY <1>1, <1>4, <1>7, <1>8, <1>9 DEF LayerInfo
  <2>2. FileBlocks(f) > 0
    BY SizeAssumption
  <2>3. ASSUME NEW b \in FileAt(M, f, L) PROVE b \in DOMAIN d /\ d[b] = c
    <3>1. FileBlocks(f) \in Nat /\ DeviceBlocks \in Nat
      BY FileFits, LayerAssumption
    <3>2. b \in 0 .. DeviceBlocks - 1
      BY <1>2, <2>3, <3>1 DEF OnDevice, Extent
    <3>3. b \in DOMAIN disk
      BY <3>2 DEF LInv, TypeOK
    <3> QED
      BY <1>2, <2>3, <3>3
  <2>4. w[f] = c
    BY DEF ContentInv
  <2>5. Belongs(N, f, L) /\ Counted(N, f, L) /\ FileAt(N, f, L) = FileAt(M, f, L)
    BY <1>1, <1>5
  <2> HIDE DEF N, M, L, d, w, c
  <2>6. Stored(N, d, w, f, l)
    BY <1>9, <2>1, <2>2, <2>3, <2>4, <2>5 DEF Stored
  <2> QED
    BY <1>9, <2>6
<1>10. CASE l # L \/ s # f.slot
  <2>1. N[l].crcMgr[s] = M[l].crcMgr[s]
    BY <1>3, <1>4, <1>7, <1>8, <1>10 DEF LayerInfo
  <2>2. PICK g \in Files : g.slot = s /\ Stored(M, disk, lastWrite, g, l)
    BY <1>3, <2>1 DEF Storage
  <2>3. Belongs(M, g, l) /\ Counted(M, g, l)
    BY <2>2 DEF Stored
  <2>4. FileAt(M, f, L) \intersect FileAt(M, g, l) = {}
    BY <1>1, <1>3, <1>10, <2>2, <2>3, FilesApart
  <2>5. ASSUME NEW b \in FileAt(M, g, l) PROVE b \in DOMAIN d /\ d[b] = M[l].crcMgr[s]
    <3>1. b \in DOMAIN disk /\ disk[b] = M[l].crcMgr[s]
      BY <2>2, <2>5 DEF Stored
    <3>2. b \notin Extent(f)
      BY <1>2, <2>4, <2>5
    <3> QED
      BY <3>1, <3>2
  <2>6. IsFirst(M, g, l) => w[g] = M[l].crcMgr[s]
    <3>1. IsFirst(M, g, l) => g # f
      BY <1>1, <1>3, <1>10, <2>2, <2>3, FirstIsUnique
    <3>2. g # f => w[g] = lastWrite[g]
      BY DEF ContentInv
    <3> QED
      BY <2>2, <3>1, <3>2 DEF Stored
  <2>7. FileBlocks(g) > 0
    BY <2>2 DEF Stored
  <2> HIDE DEF N, M, L, d, w, c
  <2>8. Stored(N, d, w, g, l)
    BY <1>3, <1>5, <1>6, <2>1, <2>2, <2>3, <2>5, <2>6, <2>7 DEF Stored
  <2> QED
    BY <2>2, <2>8
<1> QED
  BY <1>9, <1>10

\* The CRC kept for the region a file is read from is that of the file's own blocks,
\* as they were last written.
LEMMA KeptCRC ==
  ASSUME NEW f \in Files, LInv, ContentInv, Found(f) # {},
         Allocation(MapWith(f), AllocatedWith(f)), Entered(MapWith(f)),
         Counted(MapWith(f), f, TheLayer(f)), Storage(MapWith(f), disk, lastWrite),
         MapWith(f)[TheLayer(f)].crcMgr[f.slot] # NoCRC
  PROVE  /\ FileBlocks(f) > 0
         /\ \A b \in Extent(f) : disk[b] = MapWith(f)[TheLayer(f)].crcMgr[f.slot]
         /\ lastWrite[f] = MapWith(f)[TheLayer(f)].crcMgr[f.slot]
<1>1. /\ TheLayer(f) \in DOMAIN MapWith(f)
      /\ Belongs(MapWith(f), f, TheLayer(f))
      /\ IsFirst(MapWith(f), f, TheLayer(f))
  BY TheLayerIsFirst
<1>2. f.slot \in SlotNames
  BY FileKinds
<1>3. PICK g \in Files : g.slot = f.slot /\ Stored(MapWith(f), disk, lastWrite, g, TheLayer(f))
  BY <1>1, <1>2 DEF Storage
<1>4. g = f
  BY <1>1, <1>3, OneFilePerRegion DEF Stored, Counted
<1> QED
  BY <1>1, <1>3, <1>4, ExtentInRegion DEF Stored

\* The first block of a transfer that ends on the device.
LEMMA FirstBlock ==
  ASSUME NEW f \in Files, LInv, OnDevice(f), FileLba(f) \in Nat
  PROVE  /\ FileLba(f) \in DOMAIN disk
         /\ \A k \in 0 .. FileBlocks(f) - 1 : FileLba(f) + k \in Extent(f)
         /\ FileLba(f) \in Extent(f)
<1>1. FileBlocks(f) \in Nat /\ DeviceBlocks \in Nat
  BY FileFits, LayerAssumption
<1>2. FileBlocks(f) > 0
  BY SizeAssumption
<1> QED
  BY <1>1, <1>2 DEF OnDevice, Extent, LInv, TypeOK

\* What a file's call finds when it is resolved.
LEMMA ResolvedFacts ==
  ASSUME RInv, NEW f \in Files, Resolved(f)
  PROVE  /\ LInv /\ PrevInv /\ ContentInv /\ Found(f) # {}
         /\ Allocation(MapWith(f), AllocatedWith(f)) /\ Entered(MapWith(f))
         /\ recounted = {} => Storage(MapWith(f), disk, lastWrite)
         /\ FileLba(f) \in Nat /\ Extent(f) = FileAt(MapWith(f), f, TheLayer(f))
<1>1. LInv /\ PrevInv /\ ContentInv /\ Found(f) # {} /\ ~SizeMismatch(f)
  BY DEF RInv, Resolved
<1>2. Allocation(MapWith(f), AllocatedWith(f))
  BY <1>1, MapWithKeeps DEF LInv
<1>3. Entered(MapWith(f))
  BY <1>1, EnteredStays DEF RInv
<1>4. recounted = {} => Storage(MapWith(f), disk, lastWrite)
  BY <1>1, StorageStays DEF RInv, Resolved
<1> QED
  BY <1>1, <1>2, <1>3, <1>4, ExtentInRegion

\* A file the client may use is that of a layer under the contract.
LEMMA ContractResolves ==
  ASSUME RInv, contract, NEW f \in Files, NEW op, MayUse(f, op)
  PROVE  ~SizeMismatch(f) /\ Found(f) # {}
<1> USE DEF RInv
<1>1. ~SizeMismatch(f)
  <2> SUFFICES ASSUME Links(f) PROVE prevOp.numel = f.numel
    BY DEF SizeMismatch
  <2>1. prevOp.numel = layerMgr[prevOp.id].paramNum
    BY DEF PrevInv, Links
  <2>2. prevOp.id \in Found(f) /\ MapWith(f)[prevOp.id].paramNum = layerMgr[prevOp.id].paramNum
    BY MapGrows, FileKinds DEF Found, Links
  <2>3. MapWith(f)[prevOp.id].paramNum = f.numel
    BY <2>2 DEF MayUse
  <2> QED
    BY <2>1, <2>2, <2>3
<1>2. Found(f) # {}
  <2>1. CASE f.dir = "bfloat16params"
    BY <2>1 DEF Found
  <2>2. CASE f.dir # "bfloat16params" /\ Links(f)
    BY <2>2, MapGrows DEF Found
  <2>3. CASE f.dir # "bfloat16params" /\ ~Links(f)
    <3>1. PICK l \in DOMAIN layerMgr : layerMgr[l].hashID = f.id
      BY <2>3, FileKinds DEF MayUse
    <3>2. l \in DOMAIN MapWith(f) /\ MapWith(f)[l].hashID = f.id
      BY <2>3, <3>1 DEF MapWith
    <3> QED
      BY <2>3, <3>2 DEF Found
  <2> QED
    BY <2>1, <2>2, <2>3
<1> QED
  BY <1>1, <1>2

\* Under the contract a layer is used under its own number of elements only.
LEMMA ContractCounts ==
  ASSUME RInv, contract, NEW f \in Files, NEW op, MayUse(f, op)
  PROVE  /\ Counted(MapWith(f), f, TheLayer(f)) /\ Recounts(f) = {}
         /\ recounted = {}
<1>1. Found(f) # {} /\ Entered(MapWith(f))
  BY ContractResolves, EnteredStays DEF RInv
<1>2. TheLayer(f) \in Found(f)
  BY <1>1, TheLayerIsFirst
<1>3. MapWith(f)[TheLayer(f)].paramNum = f.numel
  BY <1>2 DEF MayUse
<1> QED
  BY <1>3 DEF Counted, Recounts, RInv

\* Under the contract the CRC of a file that was written is the one of its region.
LEMMA ContractFindsCRC ==
  ASSUME NEW f \in Files, NEW mgr, Contracted(mgr, lastWrite),
         lastWrite[f] # Nothing, NEW l \in DOMAIN mgr, Belongs(mgr, f, l)
  PROVE  mgr[l].crcMgr[f.slot] = lastWrite[f]
<1>1. PICK m \in DOMAIN mgr : Belongs(mgr, f, m) /\ mgr[m].crcMgr[f.slot] = lastWrite[f]
  BY DEF Contracted
<1>2. l = m
  BY <1>1, FileKinds DEF Contracted, Belongs
<1> QED
  BY <1>1, <1>2

-----------------------------------------------------------------------------
(* The invariant                                                           *)

LEMMA InitRInv == Init => RInv
<1> SUFFICES ASSUME Init PROVE RInv
  OBVIOUS
<1>1. DOMAIN layerMgr = {} /\ result = <<>> /\ aborted = "no"
  BY DEF Init, EmptyMap
<1>2. ContentInv
  BY ContentIsNoGap, LayerAssumption DEF Init, ContentInv, Nothing, NoCRC
<1>3. PrevInv
  BY DEF Init, NoOp, PrevInv, AfterParamRead
<1>4. Entered(layerMgr) /\ Storage(layerMgr, disk, lastWrite) /\ recounted = {}
  BY <1>1 DEF Entered, Storage, Init
<1>5. Contracted(layerMgr, lastWrite)
  BY <1>1 DEF Contracted, Init
<1>6. ContractSuffices /\ ReadReturnsLastWrite
  BY <1>1 DEF ContractSuffices, ReadReturnsLastWrite
<1> QED
  BY <1>2, <1>3, <1>4, <1>5, <1>6, InitLInv DEF RInv

\* The previous operation is one on the file just used.
LEMMA PrevStays ==
  ASSUME NEW f \in Files, layerMgr' = MapWith(f),
         prevOp'.id = f.id, prevOp'.numel = f.numel, recounted' = recounted \union Recounts(f)
  PROVE  PrevInv'
<1> SUFFICES ASSUME f.id < MAX_LAYER_SIZE
             PROVE  /\ f.id \in DOMAIN MapWith(f)
                    /\ f.id \in recounted' \/ f.numel = MapWith(f)[f.id].paramNum
                    /\ f.dir = "bfloat16params"
  BY DEF PrevInv, AfterParamRead
<1>1. f.dir = "bfloat16params"
  BY FileKinds
<1>2. f.id \in DOMAIN MapWith(f)
  BY <1>1 DEF MapWith
<1>3. Found(f) = {f.id}
  BY <1>1 DEF Found
<1>4. TheLayer(f) \in Found(f)
  <2>1. Position(f.id) \in Nat
    BY <1>1, PositionOfLayer
  <2> QED
    BY <1>3, <2>1 DEF TheLayer
<1>5. ~Links(f)
  BY <1>1 DEF Links
<1>6. f.id \in Recounts(f) \/ f.numel = MapWith(f)[f.id].paramNum
  BY <1>3, <1>4, <1>5 DEF Recounts
<1> QED
  BY <1>1, <1>2, <1>6

LEMMA UnresolvedKeeps ==
  ASSUME RInv, LInv', NEW f \in Files, NEW op \in {"READ", "WRITE"}, Unresolved(f, op)
  PROVE  RInv'
<1>1. aborted' # "no" /\ result' = <<>>
  BY DEF Unresolved
<1>2. ~contract
  BY ContractResolves DEF Unresolved
<1>3. ContractSuffices' /\ ReadReturnsLastWrite'
  BY <1>1, <1>2 DEF ContractSuffices, ReadReturnsLastWrite, Unresolved
<1>4. Entered(layerMgr)' /\ PrevInv' /\ ContentInv'
  BY DEF RInv, Unresolved, PrevInv, AfterParamRead, ContentInv, Entered
<1> QED
  BY <1>1, <1>2, <1>3, <1>4 DEF RInv, Unresolved

LEMMA ReadKeeps ==
  ASSUME RInv, LInv', NEW f \in Files, ReadFile(f)
  PROVE  RInv'
<1> DEFINE crc == MapWith(f)[TheLayer(f)].crcMgr[f.slot]
<1>1. /\ LInv /\ PrevInv /\ ContentInv /\ Found(f) # {}
      /\ Allocation(MapWith(f), AllocatedWith(f)) /\ Entered(MapWith(f))
      /\ recounted = {} => Storage(MapWith(f), disk, lastWrite)
      /\ FileLba(f) \in Nat /\ Extent(f) = FileAt(MapWith(f), f, TheLayer(f))
  BY ResolvedFacts DEF ReadFile
<1>2. /\ OnDevice(f) /\ UNCHANGED <<contract, disk, lastWrite>> /\ layerMgr' = MapWith(f)
      /\ aborted = "no" /\ recounted' = recounted \union Recounts(f) /\ ~SizeMismatch(f)
      /\ prevOp'.id = f.id /\ prevOp'.numel = f.numel
  BY DEF ReadFile, Remember, Resolved, KeepFileName
<1>3. /\ FileLba(f) \in DOMAIN disk /\ FileLba(f) \in Extent(f)
      /\ \A k \in 0 .. FileBlocks(f) - 1 : FileLba(f) + k \in Extent(f)
  BY <1>1, <1>2, FirstBlock
<1>4. disk[FileLba(f)] # NoCRC
  BY <1>1, <1>3 DEF ContentInv
<1>5. PrevInv'
  BY <1>2, PrevStays
<1>6. ContentInv' /\ Entered(layerMgr')
  BY <1>1, <1>2 DEF ContentInv
<1>7. recounted' = {} => Storage(layerMgr', disk', lastWrite')
  BY <1>1, <1>2
<1>12. contract => recounted' = {}
  BY <1>2, ContractCounts DEF ReadFile
<1>8. contract => Contracted(layerMgr', lastWrite')
  BY <1>1, <1>2, ContractStays DEF ReadFile, MayUse, RInv
<1>9. contract => disk[FileLba(f)] = crc
  <2> SUFFICES ASSUME contract PROVE disk[FileLba(f)] = crc
    OBVIOUS
  <2>1. lastWrite[f] # Nothing
    BY DEF ReadFile, MayUse
  <2>2. crc = lastWrite[f]
    BY <1>1, <1>2, <1>8, <2>1, TheLayerIsFirst, ContractFindsCRC
  <2>3. crc # NoCRC
    BY <1>1, <2>2 DEF ContentInv
  <2> QED
    BY <1>1, <1>3, <2>3, KeptCRC, ContractCounts DEF ReadFile
<1>10. ContractSuffices'
  BY <1>2, <1>9 DEF ContractSuffices, ReadFile
<1>11. recounted' = {} => ReadReturnsLastWrite'
  <2> SUFFICES ASSUME recounted' = {} PROVE ReadReturnsLastWrite'
    OBVIOUS
  <2>3. recounted = {} /\ Recounts(f) = {}
    BY <1>2
  <2>4. Counted(MapWith(f), f, TheLayer(f))
    BY <1>1, <1>2, <2>3, CountedUnlessRecounted
  <2>1. CASE disk[FileLba(f)] = crc
    <3>1. crc # NoCRC
      BY <1>4, <2>1
    <3>2. result' = <<f, [k \in 0 .. FileBlocks(f) - 1 |-> disk[FileLba(f) + k]]>>
      BY <2>1 DEF ReadFile
    <3>3. (\A b \in Extent(f) : disk[b] = crc) /\ lastWrite[f] = crc
      BY <1>1, <2>3, <2>4, <3>1, KeptCRC
    <3>4. \A k \in 0 .. FileBlocks(f) - 1 : disk[FileLba(f) + k] = lastWrite[f]
      BY <1>3, <3>3
    <3> QED
      BY <1>2, <3>2, <3>4 DEF ReadReturnsLastWrite
  <2>2. CASE disk[FileLba(f)] # crc
    BY <2>2 DEF ReadReturnsLastWrite, ReadFile
  <2> QED
    BY <2>1, <2>2
<1> QED
  BY <1>2, <1>5, <1>6, <1>7, <1>8, <1>10, <1>11, <1>12 DEF RInv, ReadReturnsLastWrite

LEMMA WriteKeeps ==
  ASSUME RInv, LInv', NEW f \in Files, NEW v \in Versions, WriteFile(f, v)
  PROVE  RInv'
<1> DEFINE M == MapWith(f)
           L == TheLayer(f)
           c == Content(f, v)
<1>1. /\ LInv /\ PrevInv /\ ContentInv /\ Found(f) # {}
      /\ Allocation(M, AllocatedWith(f)) /\ Entered(M)
      /\ recounted = {} => Storage(M, disk, lastWrite)
      /\ Extent(f) = FileAt(M, f, L)
  BY ResolvedFacts DEF WriteFile
<1>2. /\ OnDevice(f) /\ aborted = "no" /\ contract' = contract /\ aborted' = aborted
      /\ result' = <<>>
      /\ layerMgr' = [M EXCEPT ![L].crcMgr[f.slot] = c]
      /\ disk' = [b \in DOMAIN disk |-> IF b \in Extent(f) THEN c ELSE disk[b]]
      /\ lastWrite' = [lastWrite EXCEPT ![f] = c]
      /\ prevOp'.op = "WRITE" /\ recounted' = recounted \union Recounts(f) /\ ~SizeMismatch(f)
  BY DEF WriteFile, Resolved, KeepFileName
<1>3. L \in DOMAIN M /\ Belongs(M, f, L)
  BY <1>1, TheLayerIsFirst
<1>4. PrevInv'
  BY <1>2 DEF PrevInv, AfterParamRead
<1>5. ContentInv'
  BY <1>1, <1>2, ContentIsNoGap DEF ContentInv
<1>6. recounted' = {} => Storage(layerMgr', disk', lastWrite')
  <2> SUFFICES ASSUME recounted' = {} PROVE Storage(layerMgr', disk', lastWrite')
    OBVIOUS
  <2>1. recounted = {} /\ Recounts(f) = {}
    BY <1>2
  <2>2. Counted(M, f, L)
    BY <1>1, <1>2, <2>1, CountedUnlessRecounted
  <2> QED
    BY <1>1, <1>2, <2>1, <2>2, WriteKeepsStorage
<1>12. contract => recounted' = {} /\ Counted(M, f, L)
  BY <1>2, ContractCounts DEF WriteFile
<1>7. /\ DOMAIN layerMgr' = DOMAIN M /\ f.slot \in SlotNames
      /\ \A l \in DOMAIN M :
           /\ M[l] \in LayerInfo
           /\ layerMgr'[l].hashID = M[l].hashID /\ layerMgr'[l].paramNum = M[l].paramNum
           /\ \A s \in SlotNames :
                layerMgr'[l].crcMgr[s] = IF l = L /\ s = f.slot THEN c ELSE M[l].crcMgr[s]
  BY <1>1, <1>2, FileKinds DEF Allocation, LayerInfo
<1>8. \A g \in Files : \A l \in DOMAIN M :
        /\ Belongs(layerMgr', g, l) <=> Belongs(M, g, l)
        /\ Counted(layerMgr', g, l) <=> Counted(M, g, l)
  BY <1>7 DEF Belongs, Counted
<1>9. Entered(layerMgr')
  BY <1>1, <1>7 DEF Entered
<1>10. contract => Contracted(layerMgr', lastWrite')
  <2> SUFFICES ASSUME contract PROVE Contracted(layerMgr', lastWrite')
    OBVIOUS
  <2>1. Contracted(M, lastWrite)
    BY <1>1, <1>2, ContractStays DEF WriteFile, MayUse, RInv
  <2>2. ASSUME NEW g \in Files, lastWrite'[g] # Nothing
        PROVE  \E l \in DOMAIN M :
                 /\ Belongs(M, g, l) /\ Counted(M, g, l)
                 /\ layerMgr'[l].crcMgr[g.slot] = lastWrite'[g]
    <3>1. CASE g = f
      BY <1>1, <1>2, <1>3, <1>7, <1>12, <3>1 DEF ContentInv
    <3>2. CASE g # f
      <4>1. lastWrite'[g] = lastWrite[g]
        BY <1>1, <1>2, <3>2 DEF ContentInv
      <4>2. PICK l \in DOMAIN M : /\ Belongs(M, g, l) /\ Counted(M, g, l)
                                  /\ M[l].crcMgr[g.slot] = lastWrite[g]
        BY <2>1, <2>2, <4>1 DEF Contracted
      <4>3. ~(l = L /\ g.slot = f.slot)
        BY <1>3, <1>12, <3>2, <4>2, OneFilePerRegion DEF Counted
      <4>4. g.slot \in SlotNames
        BY FileKinds
      <4>5. layerMgr'[l].crcMgr[g.slot] = lastWrite'[g]
        BY <1>7, <4>1, <4>2, <4>3, <4>4
      <4> QED
        BY <4>2, <4>5
    <3> QED
      BY <3>1, <3>2
  <2> QED
    BY <1>7, <1>8, <2>1, <2>2 DEF Contracted
<1>11. ContractSuffices' /\ ReadReturnsLastWrite'
  BY <1>2 DEF ContractSuffices, ReadReturnsLastWrite
<1> QED
  BY <1>2, <1>4, <1>5, <1>6, <1>9, <1>10, <1>11, <1>12 DEF RInv

LEMMA TransferKeeps ==
  ASSUME RInv, LInv', NEW f \in Files, NEW op \in {"READ", "WRITE"}, NEW v \in Versions,
         TransferFails(f, op, v)
  PROVE  RInv'
<1>1. ContentInv /\ Entered(MapWith(f))
  BY ResolvedFacts DEF TransferFails
<1>2. /\ aborted' = "device" /\ result' = <<>> /\ layerMgr' = MapWith(f)
      /\ prevOp'.id = f.id /\ prevOp'.numel = f.numel /\ UNCHANGED <<contract, lastWrite>>
      /\ recounted' = recounted \union Recounts(f)
  BY DEF TransferFails, Remember, KeepFileName
<1>3. PrevInv'
  BY <1>2, PrevStays
<1>6. contract => recounted' = {}
  BY <1>2, ContractCounts DEF TransferFails
<1>4. ContentInv'
  <2>1. DOMAIN disk' = DOMAIN disk
    BY DEF TransferFails
  <2>2. \A b \in DOMAIN disk : disk'[b] = disk[b] \/ disk'[b] = Content(f, v)
    BY DEF TransferFails
  <2> QED
    BY <1>1, <1>2, <2>1, <2>2, ContentIsNoGap DEF ContentInv
<1>5. ContractSuffices' /\ ReadReturnsLastWrite'
  BY <1>2 DEF ContractSuffices, ReadReturnsLastWrite
<1> QED
  BY <1>1, <1>2, <1>3, <1>4, <1>5, <1>6 DEF RInv

LEMMA RestartKeeps ==
  ASSUME RInv, LInv', Restart
  PROVE  RInv'
<1>1. /\ DOMAIN layerMgr' = {} /\ result' = <<>> /\ aborted' = "no" /\ disk' = disk
      /\ prevOp'.op = "none" /\ lastWrite' = [f \in Files |-> Nothing] /\ recounted' = {}
  BY DEF Restart, EmptyMap, NoOp
<1>2. ContentInv'
  BY <1>1, ContentIsNoGap DEF RInv, ContentInv
<1>3. PrevInv'
  BY <1>1 DEF PrevInv, AfterParamRead
<1>4. /\ Entered(layerMgr') /\ Storage(layerMgr', disk', lastWrite')
      /\ Contracted(layerMgr', lastWrite')
  BY <1>1 DEF Entered, Storage, Contracted
<1>5. ContractSuffices' /\ ReadReturnsLastWrite'
  BY <1>1 DEF ContractSuffices, ReadReturnsLastWrite
<1> QED
  BY <1>1, <1>2, <1>3, <1>4, <1>5 DEF RInv

LEMMA StepKeepsRInv == RInv /\ [Next]_vars => RInv'
<1> SUFFICES ASSUME RInv, [Next]_vars PROVE RInv'
  OBVIOUS
<1>1. LInv'
  BY StepKeepsLInv DEF RInv
<1>2. CASE UNCHANGED vars
  BY <1>1, <1>2 DEF vars, RInv, PrevInv, AfterParamRead, ContentInv, ContractSuffices,
                    ReadReturnsLastWrite
<1> QED
  BY <1>1, <1>2, UnresolvedKeeps, ReadKeeps, WriteKeeps, TransferKeeps, RestartKeeps
     DEF Next, Done

-----------------------------------------------------------------------------
(* The theorems                                                            *)

\* As long as no layer was used under a number of elements not its own, a read that
\* returns, returns what the program last wrote under that file name: however the hashes were linked, and after any number of restarts
\* (parsefromFileName, the CRC comparison).
THEOREM ReadsLastWrite == Spec => []ReadReturnsLastWrite
<1>1. RInv => ReadReturnsLastWrite
  BY DEF RInv
<1> QED
  BY <1>1, InitRInv, StepKeepsRInv, PTL DEF Spec

\* No assertion of the manager stops a client that keeps the contract
\* (ASSERT 0136, ASSERT 0150 and the CRC comparison).
THEOREM ContractIsEnough == Spec => []ContractSuffices
<1>1. RInv => ContractSuffices
  BY DEF RInv
<1> QED
  BY <1>1, InitRInv, StepKeepsRInv, PTL DEF Spec

\* The layer a file names is found again after the file was written.
LEMMA LayerFoundAgain ==
  ASSUME NEW f \in Files, prevOp'.op = "WRITE",
         DOMAIN layerMgr' = DOMAIN MapWith(f),
         \A l \in DOMAIN MapWith(f) : layerMgr'[l].hashID = MapWith(f)[l].hashID
  PROVE  TheLayer(f)' = TheLayer(f)
<1>1. Found(f)' = Found(f)
  <2>1. CASE f.dir = "bfloat16params"
    BY <2>1 DEF Found
  <2>2. CASE f.dir # "bfloat16params"
    <3>1. ~Links(f)'
      BY DEF Links, AfterParamRead
    <3>2. MapWith(f)' = layerMgr'
      BY <2>2, <3>1 DEF MapWith
    <3> QED
      BY <2>2, <3>2 DEF Found
  <2> QED
    BY <2>1, <2>2
<1> QED
  BY <1>1 DEF TheLayer, Position

\* A write, whole or torn, changes blocks of the region of the layer and the slot that its
\* file names, and of no other region this program has placed, unless that layer was used
\* under a number of elements not its own (getTempLBAMgr, getLBAfromList, ASSERT 0136).
THEOREM TensorsDoNotSpill == Spec => WritesStayInRegion
<1> DEFINE Kept(f) ==
             \/ TheLayer(f)' \in recounted'
             \/ \A b \in DOMAIN disk : disk'[b] # disk[b] =>
                  \A m \in DOMAIN layerMgr', t \in SlotNames :
                    b \in Region(m, t)' <=> m = TheLayer(f)' /\ t = f.slot
           Stays == disk' # disk =>
             \E f \in Files :
               /\ prevOp' = [op |-> "WRITE", id |-> f.id, numel |-> f.numel, slot |-> f.slot]
               /\ Kept(f)
<1>1. ASSUME RInv, LInv', NEW f \in Files, Resolved(f),
             KeepFileName(f, "WRITE"), recounted' = recounted \union Recounts(f),
             DOMAIN layerMgr' = DOMAIN MapWith(f),
             \A l \in DOMAIN MapWith(f) : /\ layerMgr'[l].lbaMgr = MapWith(f)[l].lbaMgr
                                          /\ layerMgr'[l].hashID = MapWith(f)[l].hashID
                                          /\ layerMgr'[l].paramNum = MapWith(f)[l].paramNum,
             \A b \in DOMAIN disk : disk'[b] # disk[b] => b \in Extent(f)
      PROVE  Stays
  <2>1. /\ Found(f) # {} /\ Allocation(MapWith(f), AllocatedWith(f)) /\ Entered(MapWith(f))
        /\ Extent(f) = FileAt(MapWith(f), f, TheLayer(f)) /\ LInv /\ PrevInv
    BY <1>1, ResolvedFacts
  <2>2. PICK l \in DOMAIN MapWith(f) : l = TheLayer(f)
    BY <2>1, TheLayerIsFirst
  <2>3. TheLayer(f)' = l
    BY <1>1, <2>2, LayerFoundAgain DEF KeepFileName
  <2>4. prevOp' = [op |-> "WRITE", id |-> f.id, numel |-> f.numel, slot |-> f.slot]
    BY <1>1 DEF KeepFileName
  <2>5. CASE l \in recounted'
    BY <2>3, <2>4, <2>5
  <2>6. CASE l \notin recounted'
    <3>1. Counted(MapWith(f), f, l)
      BY <1>1, <2>1, <2>2, <2>6, CountedUnlessRecounted DEF Resolved
    <3>2. f.slot \in SlotNames
      BY FileKinds
    <3>3. Region(l, f.slot)' = MapWith(f)[l].lbaMgr[f.slot]
            .. MapWith(f)[l].lbaMgr[f.slot] + RegionBlocks(f.slot, MapWith(f)[l].paramNum) - 1
      BY <1>1 DEF Region
    <3>4. Extent(f) \subseteq Region(l, f.slot)'
      BY <2>1, <2>2, <3>1, <3>3, FileInRegion
    <3>5. ASSUME NEW m \in DOMAIN layerMgr', NEW t \in SlotNames, ~(m = l /\ t = f.slot)
          PROVE  Region(l, f.slot)' \intersect Region(m, t)' = {}
      <4>1. Allocation(layerMgr', allocLBAoffset')
        BY <1>1 DEF LInv
      <4>2. l \in DOMAIN layerMgr'
        BY <1>1
      <4> QED
        BY <3>2, <3>5, <4>1, <4>2, RegionsApart DEF Region
    <3>6. ASSUME NEW b \in DOMAIN disk, disk'[b] # disk[b],
                 NEW m \in DOMAIN layerMgr', NEW t \in SlotNames
          PROVE  b \in Region(m, t)' <=> m = l /\ t = f.slot
      <4>1. b \in Region(l, f.slot)'
        BY <1>1, <3>4, <3>6
      <4>2. CASE m = l /\ t = f.slot
        BY <4>1, <4>2
      <4>3. CASE ~(m = l /\ t = f.slot)
        BY <3>5, <4>1, <4>3
      <4> QED
        BY <4>2, <4>3
    <3>7. Kept(f)
      BY <2>3, <3>6
    <3> HIDE DEF Kept
    <3> QED
      BY <2>4, <3>7
  <2> QED
    BY <2>5, <2>6
<1>2. RInv /\ [Next]_vars => [Stays]_vars
  <2> SUFFICES ASSUME RInv, [Next]_vars PROVE Stays
    OBVIOUS
  <2> HIDE DEF Kept
  <2>0. LInv'
    BY StepKeepsLInv DEF RInv
  <2>1. ASSUME NEW f \in Files, NEW v \in Versions, WriteFile(f, v) PROVE Stays
    <3>1. /\ Resolved(f) /\ KeepFileName(f, "WRITE") /\ recounted' = recounted \union Recounts(f)
          /\ \A b \in DOMAIN disk : disk'[b] # disk[b] => b \in Extent(f)
      BY <2>1 DEF WriteFile
    <3>2. layerMgr' = [MapWith(f) EXCEPT ![TheLayer(f)].crcMgr[f.slot] = Content(f, v)]
      BY <2>1 DEF WriteFile
    <3>3. \A l \in DOMAIN MapWith(f) : MapWith(f)[l] \in LayerInfo
      BY <3>1, ResolvedFacts DEF Allocation
    <3>4. /\ DOMAIN layerMgr' = DOMAIN MapWith(f)
          /\ \A l \in DOMAIN MapWith(f) : /\ layerMgr'[l].lbaMgr = MapWith(f)[l].lbaMgr
                                          /\ layerMgr'[l].hashID = MapWith(f)[l].hashID
                                          /\ layerMgr'[l].paramNum = MapWith(f)[l].paramNum
      BY <3>2, <3>3 DEF LayerInfo
    <3> QED
      BY <1>1, <2>0, <3>1, <3>4
  <2>2. ASSUME NEW f \in Files, NEW op \in {"READ", "WRITE"}, NEW v \in Versions,
               TransferFails(f, op, v)
        PROVE  Stays
    <3>1. CASE op = "READ"
      BY <2>2, <3>1 DEF TransferFails
    <3>2. CASE op = "WRITE"
      <4>1. /\ Resolved(f) /\ layerMgr' = MapWith(f) /\ KeepFileName(f, "WRITE")
            /\ recounted' = recounted \union Recounts(f)
        BY <2>2, <3>2 DEF TransferFails, Remember
      <4>2. \A b \in DOMAIN disk : disk'[b] # disk[b] => b \in Extent(f)
        BY <2>2 DEF TransferFails
      <4> QED
        BY <1>1, <2>0, <4>1, <4>2
    <3> QED
      BY <3>1, <3>2
  <2>3. CASE disk' = disk
    BY <2>3
  <2> QED
    BY <2>1, <2>2, <2>3 DEF Next, Done, vars, Unresolved, ReadFile, Restart
<1> QED
  BY <1>2, InitRInv, StepKeepsRInv, PTL DEF Spec, WritesStayInRegion

=============================================================================
