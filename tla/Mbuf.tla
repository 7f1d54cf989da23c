--------------------------------- MODULE Mbuf ---------------------------------
(***************************************************************************)
(* struct mbuf of src/common/mongoose.c, the buffer of every connection: an  *)
(* allocation of `size` bytes, of which the first `len` hold data.  What a   *)
(* caller wants is a sequence it may cut in front and extend anywhere; what   *)
(* it has is memory that grows by half, is moved about, and may be refused.  *)
(***************************************************************************)
EXTENDS Integers, Sequences, SequencesExt, FiniteSetsExt

CONSTANTS
    Octets,         \* what a byte of memory may hold
    Junk,           \* what one holds that was never written
    Pushed,         \* the texts that are inserted
    MaxSize,        \* bound of the model: the longest data
    Headroom        \* MBUF_SIZE_MAX_HEADROOM

ASSUME MbufAssumption ==
    /\ MaxSize \in Nat /\ Headroom \in Nat
    /\ Junk \in Octets
    /\ Pushed \subseteq Seq(Octets)
    /\ \A s \in Pushed : Len(s) \in 1..MaxSize

VARIABLES
    mem,            \* the allocation: buf, size bytes long
    used,           \* len
    meant           \* history: the data as the callers were told

bufferBytes == <<mem, used, meant>>

MbufInit == mem = <<>> /\ used = 0 /\ meant = <<>>

MbufTypeOK ==
    /\ mem \in Seq(Octets)
    /\ used \in 0..Len(mem)
    /\ Len(mem) <= MaxSize + Headroom

(* realloc to n bytes that succeeds. *)
Realloc(n) == [i \in 1..n |-> IF i <= Len(mem) THEN mem[i] ELSE Junk]

(* memmove of n bytes from one offset to another, and memcpy of a text. *)
MemMove(m, to, from, n) ==
    [i \in DOMAIN m |-> IF i \in (to + 1)..(to + n) THEN m[i - to + from] ELSE m[i]]
MemCopy(m, to, s) ==
    [i \in DOMAIN m |-> IF i \in (to + 1)..(to + Len(s)) THEN s[i - to] ELSE m[i]]

(* Room is made at off and the text put there. *)
Opened(m, off, s) == MemCopy(MemMove(m, off + Len(s), off, used - off), off, s)

(* The sizes an insertion asks for: half as much again, within the headroom,   *)
(* and just enough if that is refused.                                     *)
Wanted(min_size) == {Min({(3 * min_size) \div 2, min_size + Headroom}), min_size}

(* mbuf_insert, and mbuf_append at the end: it returns how much it took, which  *)
(* is all or, when every allocation is refused, nothing.                   *)
MbufInsert(off, s) ==
    /\ off \in 0..used
    /\ used + Len(s) <= MaxSize
    /\ \/ /\ IF used + Len(s) <= Len(mem)
             THEN mem' = Opened(mem, off, s)
             ELSE \E n \in Wanted(used + Len(s)) : mem' = Opened(Realloc(n), off, s)
          /\ used' = used + Len(s)
          /\ meant' = SubSeq(meant, 1, off) \o s \o SubSeq(meant, off + 1, Len(meant))
       \/ /\ used + Len(s) > Len(mem)
          /\ UNCHANGED bufferBytes

(* Mutant: as many bytes are moved down as are removed. *)
MbufRemoveShort(n) ==
    /\ IF n \in 1..used
       THEN /\ mem' = MemMove(mem, 0, n, Min({n, used - n}))
            /\ used' = used - n
            /\ meant' = SubSeq(meant, n + 1, Len(meant))
       ELSE UNCHANGED bufferBytes

(* mbuf_remove: of what is not all there, nothing. *)
MbufRemove(n) ==
    /\ IF n \in 1..used
       THEN /\ mem' = MemMove(mem, 0, n, used - n)
            /\ used' = used - n
            /\ meant' = SubSeq(meant, n + 1, Len(meant))
       ELSE UNCHANGED bufferBytes

(* mbuf_resize, and mbuf_trim with n = used: never below the data; a size that  *)
(* is refused leaves all as it is.                                         *)
MbufResize(n) ==
    /\ \/ n > Len(mem)
       \/ n < Len(mem) /\ n >= used
    /\ mem' = Realloc(n)
    /\ UNCHANGED <<used, meant>>

(* mbuf_clear: the allocation stays. *)
MbufClear ==
    /\ used' = 0 /\ meant' = <<>>
    /\ UNCHANGED mem

(* mbuf_append_and_free on an empty buffer, which takes the text's memory over. *)
MbufTakeOver(s) ==
    /\ used = 0
    /\ mem' = s /\ used' = Len(s) /\ meant' = s

(* mbuf_free *)
MbufFree ==
    /\ mem' = <<>> /\ used' = 0 /\ meant' = <<>>

MbufNext ==
    \/ \E off \in 0..MaxSize, s \in Pushed : MbufInsert(off, s)
    \/ \E n \in 1..(MaxSize + 1) : MbufRemove(n)
    \/ \E n \in 0..MaxSize : MbufResize(n)
    \/ MbufClear
    \/ \E s \in Pushed : MbufTakeOver(s)
    \/ MbufFree

MbufSpec == MbufInit /\ [][MbufNext]_bufferBytes

-----------------------------------------------------------------------------

(* Through growing, moving, trimming and refused allocations the buffer holds    *)
(* exactly the data its callers were told it took, in their order, and never   *)
(* a byte that was not written.                                            *)
BufferHoldsData == SubSeq(mem, 1, used) = meant

=============================================================================
