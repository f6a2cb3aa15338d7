----------------------------- MODULE LayerManager -----------------------------
(***************************************************************************)
(* phison_version: layerVecMap decides where on the device a tensor file   *)
(* lives.  The first file of a layer, under bfloat16params, reserves five  *)
(* regions for the layer: its bfloat16 parameters and four float32 tensors *)
(* of the optimizer.  The optimizer's files name their layer by a hash     *)
(* only; the hash is linked to a layer when an optimizer file is used      *)
(* right after a bfloat16 file was read.  A CRC of the tensor's first      *)
(* bytes is kept for every region and compared after every read.           *)
(*                                                                         *)
(* The manager is called from one thread, so one call of parsefromFileName *)
(* is one step.  nvme_operation_handler is used through what module        *)
(* OperationHandler shows of its synchronous builds: it moves every block  *)
(* or the program stops.  All of the manager's state is in memory: a       *)
(* restarted program finds the device as it was and an empty map.          *)
(***************************************************************************)
EXTENDS Integers, Sequences, FiniteSets

CONSTANTS
  Files,          \* the files the program uses: [dir, id, numel, slot]
  MapOrder,       \* the layer numbers in the order of std::map<string, ...>
  AlignParam,     \* ALIGN_4K
  BlockBytes,     \* BYTES_PER_LBA
  Gap,            \* the blocks left free after each region
  MAX_LAYER_SIZE,
  DeviceBlocks,   \* size of the device
  Versions,       \* what distinguishes two contents of one file
  LayerOf,        \* the layer whose tensors an optimizer file's id stands for
  Contracts,      \* whether the client keeps the contract below: \subseteq BOOLEAN
  MaxRestarts     \* bound on the number of restarts

Slots == <<"param16", "param32", "gradient32", "momentum32", "variance32">>
SlotNames == {Slots[i] : i \in DOMAIN Slots}
Dirs == {"bfloat16params", "optimizer"}

ASSUME LayerAssumption ==
  /\ AlignParam \in Nat \ {0} /\ BlockBytes \in Nat \ {0} /\ Gap \in Nat
  /\ MAX_LAYER_SIZE \in Nat /\ DeviceBlocks \in Nat /\ MaxRestarts \in Nat
  /\ Contracts \subseteq BOOLEAN
  /\ Files \subseteq [dir : Dirs, id : Nat, numel : Nat \ {0}, slot : SlotNames]
  /\ MapOrder \in Seq(Nat)

\* An optimizer file is named by the id of a tensor object, never by a small
\* number.  The bfloat16 tensors are those of bfloat16params.  Nothing is assumed of the
\* number of elements: two files of one layer may state different ones.
ASSUME NameAssumption ==
  \A f \in Files :
    /\ f.dir = "optimizer" => f.id >= MAX_LAYER_SIZE
    /\ f.dir = "bfloat16params" => f.id < MAX_LAYER_SIZE
    /\ f.dir = "bfloat16params" <=> f.slot = "param16"

\* MapOrder has every layer number.
ASSUME OrderAssumption ==
  \A f \in Files : f.dir = "bfloat16params" => \E i \in DOMAIN MapOrder : MapOrder[i] = f.id

VARIABLES
  contract,        \* does the client keep the contract?
  layerMgr,        \* layer number -> [paramNum, hashID, lbaMgr, crcMgr]
  allocLBAoffset,
  prevOp,          \* prevOperationMgr: [op, id, numel, slot]
  disk,            \* contents of the device's blocks
  aborted,         \* which assertion stopped the program, or "no"
  result,          \* ghost: what the last call read, <<file, blocks>>, or <<>>
  lastWrite,       \* ghost: what this program last stored under each file name
  recounted,       \* ghost: the layers used under a count that is not theirs, unchecked
  restarts

vars == <<contract, layerMgr, allocLBAoffset, prevOp, disk, aborted, result,
          lastWrite, recounted, restarts>>

-----------------------------------------------------------------------------

NoHash == -1
Nothing == <<>>
NoCRC == <<"no CRC">>      \* 0, which is not the CRC of a blank tensor
Content(f, v) == <<f, v>>

\* ALIGN_LAYER_PARAM
AlignedParam(numel) == ((numel + AlignParam - 1) \div AlignParam) * AlignParam

ElementBytes(slot) == IF slot = "param16" THEN 2 ELSE 4

\* The blocks of a slot, and the blocks a transfer of a file moves.
RegionBlocks(slot, numel) == (AlignedParam(numel) * ElementBytes(slot)) \div BlockBytes
FileBlocks(f) == (f.numel * ElementBytes(f.slot)) \div BlockBytes

\* Every tensor fills a block: what the handler makes of a smaller one is in
\* module OperationHandler.
ASSUME SizeAssumption == \A f \in Files : FileBlocks(f) > 0

\* getTempLBAMgr: the five regions one after the other, each followed by a gap.
LbaOf(slot, numel, base) ==
  LET size(s) == RegionBlocks(s, numel) + Gap
  IN  CASE slot = "param16"    -> base
        [] slot = "param32"    -> base + size("param16")
        [] slot = "gradient32" -> base + size("param16") + size("param32")
        [] slot = "momentum32" -> base + size("param16") + size("param32") + size("gradient32")
        [] slot = "variance32" -> base + size("param16") + size("param32") + size("gradient32")
                                    + size("momentum32")

\* (mutant) the last region is not counted
LayerBlocks_NoVariance(numel) == LbaOf("variance32", numel, 0)

LayerBlocks(numel) ==
  LbaOf("variance32", numel, 0) + RegionBlocks("variance32", numel) + Gap

\* (mutant) crcMgr is not initialised
NewLayer_NoInit(f) ==
  [paramNum |-> f.numel, hashID |-> NoHash,
   lbaMgr |-> [s \in SlotNames |-> LbaOf(s, f.numel, allocLBAoffset)],
   crcMgr |-> [s \in SlotNames |-> <<"junk">>]]

NewLayer(f) ==
  [paramNum |-> f.numel, hashID |-> NoHash,
   lbaMgr |-> [s \in SlotNames |-> LbaOf(s, f.numel, allocLBAoffset)],
   crcMgr |-> [s \in SlotNames |-> NoCRC]]

EmptyMap == [l \in {} |-> Nothing]

NoOp == [op |-> "none", id |-> 0, numel |-> 0, slot |-> "param16"]

\* clearMap.
Init ==
  /\ contract \in Contracts
  /\ layerMgr = EmptyMap
  /\ allocLBAoffset = 0
  /\ prevOp = NoOp
  /\ disk = [b \in 0 .. DeviceBlocks - 1 |-> Nothing]
  /\ aborted = "no"
  /\ result = <<>>
  /\ lastWrite = [f \in Files |-> Nothing]
  /\ recounted = {}
  /\ restarts = 0

-----------------------------------------------------------------------------
(* Which layer a file belongs to.                                          *)

\* The previous operation was the read of a bfloat16 file.
AfterParamRead == prevOp.op = "READ" /\ prevOp.id < MAX_LAYER_SIZE

\* An optimizer file used now is linked to the layer that was just read.
Links(f) ==
  f.dir = "optimizer" /\ AfterParamRead /\ layerMgr[prevOp.id].hashID = NoHash

\* The map after the file's layer was entered or its hash linked.
MapWith(f) ==
  IF f.dir = "bfloat16params"
  THEN IF f.id \in DOMAIN layerMgr THEN layerMgr
       ELSE [l \in DOMAIN layerMgr \union {f.id} |->
               IF l = f.id THEN NewLayer(f) ELSE layerMgr[l]]
  ELSE IF Links(f) THEN [layerMgr EXCEPT ![prevOp.id].hashID = f.id] ELSE layerMgr

AllocatedWith(f) ==
  IF f.dir = "bfloat16params" /\ f.id \notin DOMAIN layerMgr
  THEN allocLBAoffset + LayerBlocks(f.numel) ELSE allocLBAoffset

\* The layers the loop over the map could stop at, and the one where it stops.
Found(f) ==
  IF f.dir = "bfloat16params" THEN {f.id}
  ELSE LET map == MapWith(f) IN {l \in DOMAIN map : map[l].hashID = f.id}

Position(l) == CHOOSE i \in DOMAIN MapOrder : MapOrder[i] = l
TheLayer(f) ==
  LET found == Found(f) IN CHOOSE l \in found : \A m \in found : Position(l) <= Position(m)

\* (mutant) no ASSERT 0136
SizeMismatch_Never(f) == FALSE

\* ASSERT 0136: the file that was read and this one differ in size.
SizeMismatch(f) == Links(f) /\ prevOp.numel # f.numel

Resolved(f) == aborted = "no" /\ ~SizeMismatch(f) /\ Found(f) # {}

\* The layer, if the file's name states another number of elements than the layer was
\* entered with and no assertion compares the two: its lba is used as it is.
Recounts(f) ==
  {l \in {TheLayer(f)} : MapWith(f)[l].paramNum # f.numel /\ ~(Links(f) /\ l = prevOp.id)}

FileLba(f) == MapWith(f)[TheLayer(f)].lbaMgr[f.slot]

\* The blocks of the device a file's transfer covers.
Extent(f) == FileLba(f) .. FileLba(f) + FileBlocks(f) - 1
OnDevice(f) == FileLba(f) + FileBlocks(f) <= DeviceBlocks

-----------------------------------------------------------------------------
(* The client.  Under the contract it reads only what it wrote, follows    *)
(* the read of a layer that is not linked yet by no optimizer file but     *)
(* that layer's, first uses an optimizer file right after such a read, and *)
(* names all files of a layer with one number of elements.                 *)

MayUse(f, op) ==
  contract =>
    /\ op = "READ" => lastWrite[f] # Nothing
    /\ Links(f) => prevOp.id = LayerOf[f.id]
    /\ f.dir = "optimizer" => Links(f) \/ \E l \in DOMAIN layerMgr : layerMgr[l].hashID = f.id
    /\ \A l \in Found(f) : MapWith(f)[l].paramNum = f.numel

KeepFileName(f, op) == prevOp' = [op |-> op, id |-> f.id, numel |-> f.numel, slot |-> f.slot]

Remember(f, op) ==
  /\ layerMgr' = MapWith(f)
  /\ allocLBAoffset' = AllocatedWith(f)
  /\ KeepFileName(f, op)
  /\ recounted' = recounted \union Recounts(f)

\* The sizes differ: an assertion stops the program.  No layer is linked to the file:
\* the copy of what end() points to comes before the assertion (0150) that no layer
\* was found; the program ends in either.
Unresolved(f, op) ==
  /\ aborted = "no" /\ MayUse(f, op)
  /\ SizeMismatch(f) \/ Found(f) = {}
  /\ aborted' = IF SizeMismatch(f) THEN "0136" ELSE "undefined"
  /\ result' = <<>>
  /\ UNCHANGED <<contract, layerMgr, allocLBAoffset, prevOp, disk, lastWrite, recounted, restarts>>

\* parsefromFileName with op 1: the CRC is stored, then the tensor is written.
WriteFile(f, v) ==
  /\ Resolved(f) /\ MayUse(f, "WRITE") /\ OnDevice(f)
  /\ allocLBAoffset' = AllocatedWith(f)
  /\ KeepFileName(f, "WRITE")
  /\ recounted' = recounted \union Recounts(f)
  /\ layerMgr' = [MapWith(f) EXCEPT ![TheLayer(f)].crcMgr[f.slot] = Content(f, v)]
  /\ LET extent == Extent(f)
     IN  disk' = [b \in DOMAIN disk |-> IF b \in extent THEN Content(f, v) ELSE disk[b]]
  /\ lastWrite' = [lastWrite EXCEPT ![f] = Content(f, v)]
  /\ result' = <<>>
  /\ UNCHANGED <<contract, aborted, restarts>>

\* (mutant) the CRC compared is the one of the layer's bfloat16 parameters
ReadFile_ParamCRC(f) ==
  /\ Resolved(f) /\ MayUse(f, "READ") /\ OnDevice(f)
  /\ Remember(f, "READ")
  /\ IF disk[FileLba(f)] = MapWith(f)[TheLayer(f)].crcMgr["param16"]
     THEN /\ result' = <<f, [k \in 0 .. FileBlocks(f) - 1 |-> disk[FileLba(f) + k]]>>
          /\ UNCHANGED aborted
     ELSE aborted' = "CRC" /\ result' = <<>>
  /\ UNCHANGED <<contract, disk, lastWrite, restarts>>

\* (mutant) the CRC is not compared
ReadFile_NoCRC(f) ==
  /\ Resolved(f) /\ MayUse(f, "READ") /\ OnDevice(f)
  /\ Remember(f, "READ")
  /\ result' = <<f, [k \in 0 .. FileBlocks(f) - 1 |-> disk[FileLba(f) + k]]>>
  /\ UNCHANGED <<contract, aborted, disk, lastWrite, restarts>>

\* parsefromFileName with op 0: the tensor is read, then the CRC of its first
\* bytes is compared.
ReadFile(f) ==
  /\ Resolved(f) /\ MayUse(f, "READ") /\ OnDevice(f)
  /\ Remember(f, "READ")
  /\ IF disk[FileLba(f)] = MapWith(f)[TheLayer(f)].crcMgr[f.slot]
     THEN /\ result' = <<f, [k \in 0 .. FileBlocks(f) - 1 |-> disk[FileLba(f) + k]]>>
          /\ UNCHANGED aborted
     ELSE aborted' = "CRC" /\ result' = <<>>
  /\ UNCHANGED <<contract, disk, lastWrite, restarts>>

\* The handler stops the program; a write may have reached some blocks.  Past
\* the end of the device, every transfer ends so.
TransferFails(f, op, v) ==
  /\ Resolved(f) /\ MayUse(f, op)
  /\ aborted' = "device"
  /\ \E written \in SUBSET (Extent(f) \intersect DOMAIN disk) :
       disk' = IF op = "WRITE"
               THEN [b \in DOMAIN disk |-> IF b \in written THEN Content(f, v) ELSE disk[b]]
               ELSE disk
  /\ result' = <<>>
  /\ Remember(f, op)
  /\ UNCHANGED <<contract, lastWrite, restarts>>

\* The program is started again, after an assertion or after it ended.
Restart ==
  /\ restarts < MaxRestarts
  /\ restarts' = restarts + 1
  /\ layerMgr' = EmptyMap /\ allocLBAoffset' = 0
  /\ prevOp' = NoOp
  /\ aborted' = "no" /\ result' = <<>>
  /\ lastWrite' = [f \in Files |-> Nothing]
  /\ recounted' = {}
  /\ UNCHANGED <<contract, disk>>

Done == aborted # "no" /\ restarts = MaxRestarts /\ UNCHANGED vars

Next ==
  \/ \E f \in Files, op \in {"READ", "WRITE"} : Unresolved(f, op)
  \/ \E f \in Files : ReadFile(f)
  \/ \E f \in Files, v \in Versions : WriteFile(f, v)
  \/ \E f \in Files, op \in {"READ", "WRITE"}, v \in Versions : TransferFails(f, op, v)
  \/ Restart
  \/ Done

Spec == Init /\ [][Next]_vars

-----------------------------------------------------------------------------
(* Properties                                                              *)

Region(l, s) ==
  layerMgr[l].lbaMgr[s] .. layerMgr[l].lbaMgr[s] + RegionBlocks(s, layerMgr[l].paramNum) - 1

LayerInfo ==
  [paramNum : Nat \ {0}, hashID : Nat \union {NoHash},
   lbaMgr : [SlotNames -> Nat],
   crcMgr : [SlotNames -> {NoCRC} \union {Content(f, v) : f \in Files, v \in Versions}]]

TypeOK ==
  /\ contract \in Contracts
  /\ DOMAIN layerMgr \subseteq Nat
  /\ \A l \in DOMAIN layerMgr : layerMgr[l] \in LayerInfo
  /\ allocLBAoffset \in Nat
  /\ prevOp.op = "none" \/ \E f \in Files : prevOp.id = f.id /\ prevOp.numel = f.numel
  /\ aborted \in {"no", "0136", "undefined", "CRC", "device"}
  /\ DOMAIN disk = 0 .. DeviceBlocks - 1
  /\ restarts \in 0 .. MaxRestarts

\* No two regions of the device overlap, whatever the layers and the order in
\* which their files first appear (getTempLBAMgr).
RegionsDisjoint ==
  LET region == [l \in DOMAIN layerMgr |-> [s \in SlotNames |-> Region(l, s)]]
  IN  \A l, m \in DOMAIN layerMgr : \A s, t \in SlotNames :
        (l # m \/ s # t) => region[l][s] \intersect region[m][t] = {}

\* A call that changes the device changes only blocks of one region, that of the layer
\* and the slot its file names, and none of any other region of the present map: no
\* other tensor this program has placed is overwritten, not even in part
\* (getLBAfromList, ASSERT 0136).  Excepted are layers that were used under a number of
\* elements not their own, which nothing checks once a layer is known.  Of what an
\* earlier run left on the device nothing is said.
WritesStayInRegion ==
  [][disk' # disk =>
       \E f \in Files :
         /\ prevOp' = [op |-> "WRITE", id |-> f.id, numel |-> f.numel, slot |-> f.slot]
         /\ LET layer == TheLayer(f)'
            IN  \/ layer \in recounted'
                \/ \A b \in DOMAIN disk : disk'[b] # disk[b] =>
                     \A m \in DOMAIN layerMgr', t \in SlotNames :
                       b \in Region(m, t)' <=> m = layer /\ t = f.slot]_vars

\* As long as no layer was used under a number of elements not its own: a read that
\* returns, returns every block as this program last wrote it under that file name,
\* however the hashes were linked; what an earlier run left on the device is never
\* returned.
ReadReturnsLastWrite ==
  recounted = {} /\ result # <<>> =>
    \A k \in DOMAIN result[2] : result[2][k] = lastWrite[result[1]]

\* With a client that keeps the contract, no assertion of the manager fires:
\* only a failing device stops the program.
ContractSuffices == contract => aborted \in {"no", "device"}

\* What the comment of STEP3 says of linking: an optimizer file is linked with
\* the layer its hash ID stands for, so with one layer.
OneLayerPerHash ==
  \A l, m \in DOMAIN layerMgr :
    (layerMgr[l].hashID = layerMgr[m].hashID /\ layerMgr[l].hashID # NoHash) => l = m
=============================================================================
