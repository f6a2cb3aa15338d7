-------------------------------- MODULE BioMap --------------------------------
(***************************************************************************)
(* The kernel's blk_rq_map_user_iov: a user's vector of segments becomes   *)
(* the bios of a pass-through request.  If the vector suits the queue, its *)
(* pages are pinned segment by segment and put into bios as they are       *)
(* (bio_map_user_iov); otherwise pages are allocated and the data copied   *)
(* (bio_copy_user_iov).  A buffer that is registered with io_uring is      *)
(* already a table of bvecs, which becomes the bio as it is.  Otherwise a  *)
(* bio takes what the queue's limits allow; what is left over goes into a  *)
(* further bio, if it can be appended.                                     *)
(*                                                                         *)
(* Memory is counted in units, PageUnits to the page; a unit is one sector *)
(* and what the queue's DMA alignment asks for.  A user address is a       *)
(* number of units, and page p of the user lies in page frame Frame[p].    *)
(* The vector is a sequence of addresses and the set of positions at which *)
(* a segment ends, so that the iterator is the number of units behind it.  *)
(*                                                                         *)
(* One request is mapped by one thread; get_user_pages_fast, the page      *)
(* allocator and ll_back_merge_fn are external.                            *)
(***************************************************************************)
EXTENDS Integers, Sequences, SequencesExt, FiniteSets, FiniteSetsExt

CONSTANTS
  PageUnits,      \* PAGE_SIZE
  Frame,          \* user page -> page frame
  KernelFrames,   \* page frames the kernel can allocate
  Vectors,        \* what the driver is asked to map: [addr, ends, aligned, fixed, whole]
  MaxUnits,       \* queue_max_hw_sectors
  MaxSegments,    \* queue_max_segments
  MaxSegUnits,    \* queue_max_segment_size
  SegBoundary,    \* queue_segment_boundary: no segment crosses a multiple of it
  BIO_MAX_VECS,
  VirtBoundary    \* does the queue refuse gaps within a page?

Frames == {Frame[p] : p \in DOMAIN Frame} \union KernelFrames

\* A page fits in a bio and in a segment (blk_queue_max_hw_sectors,
\* blk_queue_max_segment_size).
ASSUME QueueAssumption ==
  /\ PageUnits \in Nat \ {0} /\ VirtBoundary \in BOOLEAN
  /\ MaxUnits \in Nat /\ MaxUnits >= PageUnits
  /\ MaxSegUnits \in Nat /\ MaxSegUnits >= PageUnits
  /\ SegBoundary \in Nat \ {0} /\ SegBoundary % PageUnits = 0
  /\ MaxSegments \in Nat \ {0} /\ BIO_MAX_VECS \in Nat \ {0}
  /\ Frames \subseteq Nat
  /\ \A p \in DOMAIN Frame : Frame[p] \notin KernelFrames

\* Within a segment addresses are consecutive.  An empty vector is aligned
\* (iov_iter_alignment returns 0 for it).  A registered buffer is one segment, of which
\* each page is a bvec; `whole' means that it is used as a whole and not in part.
ASSUME VectorAssumption ==
  \A v \in Vectors :
    /\ v.addr \in Seq(Nat) /\ v.ends \subseteq DOMAIN v.addr /\ v.aligned \in BOOLEAN
    /\ v.fixed \in BOOLEAN /\ v.whole \in BOOLEAN
    /\ v.fixed => v.ends \subseteq {Len(v.addr)}
    /\ IF v.addr = <<>> THEN v.aligned ELSE Len(v.addr) \in v.ends
    /\ \A k \in DOMAIN v.addr : v.addr[k] \div PageUnits \in DOMAIN Frame
    /\ \A k \in DOMAIN v.addr \ v.ends : v.addr[k + 1] = v.addr[k] + 1

VARIABLES
  pc,
  vec, op,        \* the vector to map and the direction of the transfer
  copy,
  pos,            \* the iterator i: units of the vector behind it
  bio,            \* the bio being filled: <<>> or <<[vecs, max, kind, start]>>
  pages,          \* the pinned pages of one pass, by page frame
  j, bytes, offs, \* the loop over them
  chain,          \* the bios of the request, rq->bio to rq->biotail
  refs            \* page frame -> references held

pass == <<pages, j, bytes, offs>>
request == <<vec, op, copy>>
vars == <<pc, request, pos, bio, pass, chain, refs>>

-----------------------------------------------------------------------------
(* Pages, segments, bios                                                   *)

Total == Len(vec.addr)
Page(a) == a \div PageUnits
Physical(a) == (Frame[Page(a)] * PageUnits) + (a % PageUnits)

\* first_iovec_segment: the end of the segment the iterator is in.
SegmentEnd(at) == Min({e \in vec.ends : e > at})

\* DIV_ROUND_UP(start + size, PAGE_SIZE)
PageCount(start, size) == (start + size + PageUnits - 1) \div PageUnits

\* iov_npages: the pages of the rest of the vector, counted for each segment.
IovPages(at) ==
  Cardinality({<<Page(vec.addr[k]), SegmentEnd(k - 1)>> : k \in at + 1 .. Total})

AtMost(n, limit) == IF n > limit THEN limit ELSE n

\* f[1] + ... + f[n]
Sum(f, n) ==
  LET sum[i \in 0 .. n] == IF i = 0 THEN 0 ELSE sum[i - 1] + f[i]
  IN  sum[n]

\* The units of the first n bvecs of a bio and of the first n bios: bi_iter.bi_size
\* and the request's __data_len, when n is all of them.
VecUnits(b, n) == Sum([i \in DOMAIN b.vecs |-> b.vecs[i].len], n)
BioUnits(b) == VecUnits(b, Len(b.vecs))
UnitsOf(bios, n) == Sum([b \in DOMAIN bios |-> BioUnits(bios[b])], n)
ChainUnits(bios) == UnitsOf(bios, Len(bios))
ChainSegments(bios) == Sum([b \in DOMAIN bios |-> Len(bios[b].vecs)], Len(bios))

\* A bio_vec is a run of physical units, maybe of several pages.
BvecFrames(bv) == Page(bv.at) .. Page(bv.at + bv.len - 1)

\* How often a bio, and how often the bios hold page frame f: a reference for each page
\* of each bvec, unless the bvecs are a registered buffer's (BIO_NO_PAGE_REF).
BioHolds(b, f) ==
  IF b.kind = "registered" THEN 0
  ELSE Cardinality({i \in DOMAIN b.vecs : f \in BvecFrames(b.vecs[i])})
Holds(bios, f) == Sum([b \in DOMAIN bios |-> BioHolds(bios[b], f)], Len(bios))

\* __bio_release_pages and bio_free_pages
AfterRelease(bios) == [f \in Frames |-> refs[f] - Holds(bios, f)]

\* bvec_gap_to_prev: would unit `at' after bvec bv leave a gap?
Gap(bv, at) == VirtBoundary /\ (at % PageUnits # 0 \/ (bv.at + bv.len) % PageUnits # 0)

\* (mutant) no queue_max_segment_size
Mergeable_AnySize(b, at, n) ==
  /\ b.vecs # <<>>
  /\ Last(b.vecs).at + Last(b.vecs).len = at
  /\ Last(b.vecs).at \div SegBoundary = (at + n - 1) \div SegBoundary

\* bio_try_merge_hw_seg
Mergeable(b, at, n) ==
  /\ b.vecs # <<>>
  /\ Last(b.vecs).at + Last(b.vecs).len = at
  /\ Last(b.vecs).at \div SegBoundary = (at + n - 1) \div SegBoundary
  /\ Last(b.vecs).len + n <= MaxSegUnits

\* bio_add_hw_page: n units at `at', all in one page, ...
CanAdd(b, at, n) ==
  /\ BioUnits(b) + n <= MaxUnits
  /\ \/ Mergeable(b, at, n)
     \/ /\ b.vecs # <<>> => ~Gap(Last(b.vecs), at)
        /\ Len(b.vecs) < b.max /\ Len(b.vecs) < MaxSegments

\* ... become part of the last bvec or a bvec of their own.
WithAdded(b, at, n) ==
  [b EXCEPT !.vecs = IF Mergeable(b, at, n)
                     THEN [b.vecs EXCEPT ![Len(b.vecs)].len = @ + n]
                     ELSE Append(b.vecs, [at |-> at, len |-> n])]

\* ll_back_merge_fn: may the bio follow the request's last one?
BackMerges(b) ==
  /\ ChainUnits(chain) + BioUnits(b) <= MaxUnits
  /\ ChainSegments(chain) + Len(b.vecs) <= MaxSegments
  /\ ~Gap(Last(Last(chain).vecs), Head(b.vecs).at)

\* iov_iter_gap_alignment: some segment but the first starts, or some but the
\* last ends, inside a page.
HasGap(v) ==
  \E e \in v.ends : e < Len(v.addr)
    /\ ((v.addr[e] + 1) % PageUnits # 0 \/ v.addr[e + 1] % PageUnits # 0)

\* The queue cannot take the vector as it is.
MustCopy(v) == ~v.aligned \/ (VirtBoundary /\ ~v.fixed /\ HasGap(v))

Init ==
  /\ pc = "idle"
  /\ vec = [addr |-> <<>>, ends |-> {}, aligned |-> TRUE, fixed |-> FALSE, whole |-> TRUE] /\ op = "READ" /\ copy = FALSE
  /\ pos = 0 /\ bio = <<>> /\ chain = <<>>
  /\ pages = <<>> /\ j = 0 /\ bytes = 0 /\ offs = 0
  /\ refs = [f \in Frames |-> 0]

-----------------------------------------------------------------------------
(* blk_rq_map_user_iov                                                     *)

\* blk_rq_map_user_io and what it calls, up to the loop.
Map(v, o) ==
  /\ pc = "idle"
  /\ vec' = v /\ op' = o /\ copy' = MustCopy(v)
  /\ pos' = 0
  /\ pc' = IF v.fixed /\ v.aligned THEN "bvec" ELSE "alloc"
  /\ UNCHANGED <<bio, pass, chain, refs>>

\* bio_map_user_iov and bio_copy_user_iov start with a bio for what is left.
AllocBio ==
  /\ pc = "alloc"
  /\ pos < Total
  /\ bio' = <<[vecs |-> <<>>, kind |-> IF copy THEN "copied" ELSE "pinned", start |-> pos,
               max |-> AtMost(IF copy THEN PageCount(0, Total - pos) ELSE IovPages(pos),
                              BIO_MAX_VECS)]>>
  /\ pc' = IF copy THEN "copy_page" ELSE "pin"
  /\ UNCHANGED <<request, pos, pass, chain, refs>>

\* No memory for the bio, or an empty vector.
NoBio ==
  /\ pc = "alloc"
  /\ pc' = "unmap_rq"
  /\ UNCHANGED <<request, pos, bio, pass, chain, refs>>

\* Append the bio to the request.  Where it does not fit, the call fails.
AppendBio ==
  /\ pc = "append"
  /\ IF chain = <<>> \/ BackMerges(bio[1])
     THEN /\ chain' = chain \o bio
          /\ bio' = <<>>
          /\ pc' = IF pos = Total THEN "mapped" ELSE "alloc"
     ELSE pc' = "drop" /\ UNCHANGED <<chain, bio>>
  /\ UNCHANGED <<request, pos, pass, refs>>

\* `out_unmap' of bio_map_user_iov, `cleanup' of bio_copy_user_iov.
DropBio ==
  /\ pc = "drop"
  /\ refs' = AfterRelease(bio)
  /\ bio' = <<>>
  /\ pc' = "unmap_rq"
  /\ UNCHANGED <<request, pos, pass, chain>>

\* (mutant) rq->bio is cleared, the bios that were appended are forgotten
UnmapRq_Forget ==
  /\ pc = "unmap_rq"
  /\ chain' = <<>>
  /\ pc' = "idle"
  /\ UNCHANGED <<request, pos, bio, pass, refs>>

\* `unmap_rq': the bios that were appended before the failure.
UnmapRq ==
  /\ pc = "unmap_rq"
  /\ refs' = AfterRelease(chain)
  /\ chain' = <<>>
  /\ pc' = "idle"
  /\ UNCHANGED <<request, pos, bio, pass>>

\* blk_rq_unmap_user, after the request was executed.
UnmapUser ==
  /\ pc = "mapped"
  /\ refs' = AfterRelease(chain)
  /\ chain' = <<>>
  /\ pc' = "idle"
  /\ UNCHANGED <<request, pos, bio, pass>>

-----------------------------------------------------------------------------
(* bio_map_user_iov                                                        *)

\* iov_iter_get_pages_alloc pins the pages of the rest of one segment, or the
\* first of them, and moves the iterator behind them.
PinPages ==
  /\ pc = "pin"
  /\ LET size == SegmentEnd(pos) - pos
         start == vec.addr[pos + 1] % PageUnits
     IN  \E got \in 1 .. PageCount(start, size) :
           /\ pages' = [k \in 1 .. got |-> Frame[Page(vec.addr[pos + 1]) + k - 1]]
           /\ bytes' = AtMost(size, got * PageUnits - start)
           /\ pos' = pos + bytes'
           /\ offs' = start /\ j' = 0
           /\ refs' = [f \in Frames |-> refs[f] + Cardinality({k \in 1 .. got : pages'[k] = f})]
  /\ pc' = "add"
  /\ UNCHANGED <<request, bio, chain>>

\* The pages cannot be pinned, or there is no memory for their array.
PinFails ==
  /\ pc = "pin"
  /\ pc' = "drop"
  /\ UNCHANGED <<request, pos, bio, pass, chain, refs>>

\* The units of the next page.
PieceAt == pages[j + 1] * PageUnits + offs
PieceLen == AtMost(PageUnits - offs, bytes)

AddPage ==
  /\ pc = "add" /\ j < Len(pages)
  /\ IF CanAdd(bio[1], PieceAt, PieceLen)
     THEN /\ bio' = <<WithAdded(bio[1], PieceAt, PieceLen)>>
          /\ bytes' = bytes - PieceLen
          /\ offs' = 0 /\ j' = j + 1
          /\ UNCHANGED pc
     ELSE pc' = "release" /\ UNCHANGED <<bio, bytes, offs, j>>
  /\ UNCHANGED <<request, pos, pages, chain, refs>>

AllAdded ==
  /\ pc = "add" /\ j = Len(pages)
  /\ pc' = "release"
  /\ UNCHANGED <<request, pos, bio, pass, chain, refs>>

AfterPut(first) ==
  [f \in Frames |-> refs[f] - Cardinality({k \in first .. Len(pages) : pages[k] = f})]

\* (mutant) the page that was added last is given back as well
ReleaseRest_OneMore ==
  /\ pc = "release"
  /\ refs' = AfterPut(IF j = 0 THEN 1 ELSE j)
  /\ pages' = <<>> /\ j' = 0 /\ bytes' = 0 /\ offs' = 0
  /\ pos' = pos - bytes
  /\ pc' = IF bytes > 0 \/ pos = Total THEN "append" ELSE "pin"
  /\ UNCHANGED <<request, bio, chain>>

\* (mutant) only the array is freed
ReleaseRest_NoPut ==
  /\ pc = "release"
  /\ pages' = <<>> /\ j' = 0 /\ bytes' = 0 /\ offs' = 0
  /\ pos' = pos - bytes
  /\ pc' = IF bytes > 0 \/ pos = Total THEN "append" ELSE "pin"
  /\ UNCHANGED <<request, bio, chain, refs>>

\* (mutant) no iov_iter_revert
ReleaseRest_NoRevert ==
  /\ pc = "release"
  /\ refs' = AfterPut(j + 1)
  /\ pages' = <<>> /\ j' = 0 /\ bytes' = 0 /\ offs' = 0
  /\ pc' = IF bytes > 0 \/ pos = Total THEN "append" ELSE "pin"
  /\ UNCHANGED <<request, pos, bio, chain>>

\* The pages that were not added are given back, and the iterator is moved back
\* to the first unit that is not in the bio.
ReleaseRest ==
  /\ pc = "release"
  /\ refs' = AfterPut(j + 1)
  /\ pages' = <<>> /\ j' = 0 /\ bytes' = 0 /\ offs' = 0
  /\ pos' = pos - bytes
  /\ pc' = IF bytes > 0 \/ pos = Total THEN "append" ELSE "pin"
  /\ UNCHANGED <<request, bio, chain>>

-----------------------------------------------------------------------------
(* bio_copy_user_iov                                                       *)

LeftToCopy == Total - pos - BioUnits(bio[1])

\* A page is allocated and added; one that cannot be added is freed again and
\* ends the loop.
CopyPage ==
  /\ pc = "copy_page" /\ LeftToCopy > 0
  /\ \E f \in KernelFrames :
       LET n == AtMost(PageUnits, LeftToCopy)
       IN  /\ refs[f] = 0
           /\ IF CanAdd(bio[1], f * PageUnits, n)
              THEN /\ bio' = <<WithAdded(bio[1], f * PageUnits, n)>>
                   /\ refs' = [refs EXCEPT ![f] = 1]
                   /\ UNCHANGED pc
              ELSE pc' = "fill" /\ UNCHANGED <<bio, refs>>
  /\ UNCHANGED <<request, pos, pass, chain>>

NoPage ==
  /\ pc = "copy_page" /\ LeftToCopy > 0
  /\ pc' = "drop"
  /\ UNCHANGED <<request, pos, bio, pass, chain, refs>>

AllCopied ==
  /\ pc = "copy_page" /\ LeftToCopy = 0
  /\ pc' = "fill"
  /\ UNCHANGED <<request, pos, bio, pass, chain, refs>>

\* bio_copy_from_iter, or zero_fill_bio and iov_iter_advance.
FillBio ==
  /\ pc = "fill"
  /\ \/ /\ pos' = pos + BioUnits(bio[1])
        /\ pc' = "append"
     \/ /\ op = "WRITE"       \* the user's memory cannot be read
        /\ pc' = "drop"
        /\ UNCHANGED pos
  /\ UNCHANGED <<request, bio, pass, chain, refs>>

-----------------------------------------------------------------------------
(* blk_rq_map_user_bvec                                                    *)

\* The bvecs of the buffer, in order: each begins with the buffer or with a page, and
\* ends with the page or with the buffer.
FixedBvecs ==
  LET from == vec.addr[1]
      end == vec.addr[Total] + 1
      start(i) == IF i = 1 THEN from ELSE (Page(from) + i - 1) * PageUnits
  IN  [i \in 1 .. Page(end - 1) - Page(from) + 1 |->
         [at |-> Physical(start(i)), len |-> AtMost(start(i + 1), end) - start(i)]]

FixedGap(bvecs) == \E i \in DOMAIN bvecs \ {1} : Gap(bvecs[i - 1], bvecs[i].at)

\* The table becomes the request's bio, and nothing is left for the loop.  After a
\* gap, which consecutive memory does not have, the data would be copied, but appended
\* to that bio, which is freed by then.
MapBvecs ==
  /\ pc = "bvec" /\ Total \in 1 .. MaxUnits
  /\ Len(FixedBvecs) <= MaxSegments /\ vec.whole
  /\ chain' = <<[vecs |-> FixedBvecs, kind |-> "registered", start |-> 0, max |-> 0]>>
  /\ pos' = Total
  /\ pc' = IF FixedGap(FixedBvecs) THEN "undefined" ELSE "mapped"
  /\ UNCHANGED <<request, bio, pass, refs>>

\* Too large, only a part of the registered buffer (its bvecs are longer than what is
\* asked for), or no memory: `fail', without a bio.
RefuseBvecs ==
  /\ pc = "bvec"
  /\ pc' = "idle"
  /\ UNCHANGED <<request, pos, bio, pass, chain, refs>>

-----------------------------------------------------------------------------

Next ==
  \/ \E v \in Vectors, o \in {"READ", "WRITE"} : Map(v, o)
  \/ AllocBio \/ NoBio \/ AppendBio \/ DropBio \/ UnmapRq \/ UnmapUser
  \/ PinPages \/ PinFails \/ AddPage \/ AllAdded \/ ReleaseRest
  \/ CopyPage \/ NoPage \/ AllCopied \/ FillBio
  \/ MapBvecs \/ RefuseBvecs

Spec == Init /\ [][Next]_vars

-----------------------------------------------------------------------------
(* Properties                                                              *)

Bvec == [at : Nat, len : Nat \ {0}]
Bio == [vecs : Seq(Bvec), max : 0 .. BIO_MAX_VECS, kind : {"pinned", "copied", "registered"}, start : Nat]

\* Every variable has its type; in particular no reference is dropped that was
\* not taken, no pass adds more than it pinned, and no registered buffer has a gap.
TypeOK ==
  /\ pc \in {"idle", "alloc", "pin", "add", "release", "copy_page", "fill", "append",
             "drop", "unmap_rq", "mapped", "bvec"}
  /\ op \in {"READ", "WRITE"} /\ copy \in BOOLEAN
  /\ pos \in 0 .. Total
  /\ bio \in Seq(Bio) /\ Len(bio) <= 1
  /\ pages \in Seq(Frames) /\ j \in 0 .. Len(pages) /\ bytes \in Nat /\ offs \in 0 .. PageUnits - 1
  /\ chain \in Seq(Bio)
  /\ refs \in [Frames -> Nat]

\* Every page is held exactly as often as the bios, and the part of the pass
\* that is not in the bio yet, will give it back: none is dropped twice and none
\* is forgotten, however far the call came when it failed.
PagesHeldOnce ==
  \A f \in Frames :
    refs[f] = Holds(chain \o bio, f) + Cardinality({k \in j + 1 .. Len(pages) : pages[k] = f})

\* The units of the bio's bvecs, one after the other, are the user's from its start.
IsImage(b) ==
  \A i \in DOMAIN b.vecs : \A k \in 0 .. b.vecs[i].len - 1 :
    b.vecs[i].at + k = Physical(vec.addr[b.start + VecUnits(b, i - 1) + k + 1])

\* The bios follow the vector without a gap or an overlap, whatever was merged,
\* left over or pinned in part: each starts where the one before ends, the one
\* being filled ends where the iterator will go on, and the units of a mapped bio are
\* the user's, in order.  For a copied one its start is where a read is copied back to.
ImageInOrder ==
  /\ \A b \in DOMAIN (chain \o bio) :
       LET this == (chain \o bio)[b]
       IN  /\ this.start = UnitsOf(chain \o bio, b - 1)
           /\ this.kind # "copied" => IsImage(this)
  /\ pc \in {"alloc", "append", "mapped"} => pos = ChainUnits(chain \o bio)

\* The request stays within the limits of its queue, and no bio of it is empty
\* (an empty one would make no progress, and the loop would never end).
WithinLimits ==
  /\ ChainUnits(chain) <= MaxUnits /\ ChainSegments(chain) <= MaxSegments
  /\ \A b \in DOMAIN chain :
       /\ chain[b].vecs # <<>>
       /\ \A i \in DOMAIN chain[b].vecs :
            LET bv == chain[b].vecs[i]
            IN  /\ bv.len <= MaxSegUnits
                /\ bv.at \div SegBoundary = (bv.at + bv.len - 1) \div SegBoundary

MB == INSTANCE MappedBuffer
        WITH state <- CASE pc = "idle" -> "idle" [] pc = "mapped" -> "mapped" [] OTHER -> "busy",
             wanted <- Total,
             covered <- ChainUnits(chain),
             held <- {f \in Frames : refs[f] # 0}

\* The call maps the whole vector or fails holding nothing, and unmapping gives
\* everything back.
RefinesMappedBuffer == MB!Spec
=============================================================================
