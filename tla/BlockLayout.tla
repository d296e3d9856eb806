----------------------------- MODULE BlockLayout -----------------------------
(***************************************************************************)
(* The three block layouts (MemoryLayouts.h): how large the block of a     *)
(* payload is, where place() puts its sections, what it writes there, and  *)
(* what verifyGuards() looks at.  Sizes are size_t: they wrap.             *)
(***************************************************************************)
EXTENDS Integers, Sequences

CONSTANTS
  SizeLimit,      \* 2^64: the number of values of size_t
  RedzoneSize,    \* REDZONE_SIZE
  CanarySize,     \* CANARY_SIZE
  WordSize,       \* sizeof(uint64_t), the length of GUARD_CANARY
  NormalMeta,     \* [size, align] of NormalMetaData
  EnhancedMeta    \* [size, align] of EnhancedMetaData

ASSUME SizesAssumption ==
  /\ {SizeLimit, RedzoneSize, CanarySize, WordSize} \subseteq Nat \ {0}
  /\ {NormalMeta, EnhancedMeta} \subseteq [size : Nat \ {0}, align : Nat \ {0}]

\* The sections around a payload are far smaller than the address space.
ASSUME OverheadAssumption ==
  4 * (RedzoneSize + CanarySize + EnhancedMeta.size + EnhancedMeta.align
         + NormalMeta.size + NormalMeta.align) < SizeLimit

Sizes   == 0 .. SizeLimit - 1
Layouts == {"normal", "enhanced", "static"}

\* x + y of two sizes.
Add(x, y) == IF x + y < SizeLimit THEN x + y ELSE x + y - SizeLimit

\* alignUp; align is a power of two.
AlignUp(value, align) ==
  LET last == Add(value, align - 1) IN last - (last % align)

-----------------------------------------------------------------------------
(* blockSize *)

NormalBlockSize(payload, align) ==
  LET afterLeading  == AlignUp(RedzoneSize, align)
      afterPayload  == Add(Add(afterLeading, payload), RedzoneSize)
      afterTrailing == AlignUp(afterPayload, NormalMeta.align)
  IN  Add(afterTrailing, NormalMeta.size)

EnhancedBlockSize(payload, align) ==
  LET leading  == AlignUp(RedzoneSize, EnhancedMeta.align)
      user     == AlignUp(Add(Add(leading, EnhancedMeta.size), CanarySize), align)
      canary   == Add(Add(user, payload), CanarySize)
      trailing == AlignUp(canary, EnhancedMeta.align)
  IN  Add(Add(trailing, EnhancedMeta.size), RedzoneSize)

StaticBlockSize(payload, align) ==
  LET user == AlignUp(Add(RedzoneSize, CanarySize), align)
  IN  Add(Add(Add(user, payload), CanarySize), RedzoneSize)

BlockSize(layout, payload, align) ==
  CASE layout = "normal"   -> NormalBlockSize(payload, align)
    [] layout = "enhanced" -> EnhancedBlockSize(payload, align)
    [] layout = "static"   -> StaticBlockSize(payload, align)

-----------------------------------------------------------------------------
(* place: the Offsets it returns, each section with its first byte *)

NormalOffsets(payload, align) ==
  LET user     == AlignUp(RedzoneSize, align)
      trailing == Add(user, payload)
  IN  [redzone |-> 0, user |-> user, redzone2 |-> trailing,
       meta |-> AlignUp(Add(trailing, RedzoneSize), NormalMeta.align)]

EnhancedOffsets(payload, align) ==
  LET meta    == AlignUp(RedzoneSize, EnhancedMeta.align)
      canary  == Add(meta, EnhancedMeta.size)
      user    == AlignUp(Add(canary, CanarySize), align)
      canary2 == Add(user, payload)
      meta2   == AlignUp(Add(canary2, CanarySize), EnhancedMeta.align)
  IN  [redzone |-> 0, meta |-> meta, canary |-> canary, user |-> user,
       canary2 |-> canary2, meta2 |-> meta2,
       redzone2 |-> Add(meta2, EnhancedMeta.size)]

StaticOffsets(payload, align) ==
  LET user    == AlignUp(Add(RedzoneSize, CanarySize), align)
      canary2 == Add(user, payload)
  IN  [redzone |-> 0, canary |-> RedzoneSize, user |-> user, canary2 |-> canary2,
       redzone2 |-> Add(canary2, CanarySize)]

Offsets(layout, payload, align) ==
  CASE layout = "normal"   -> NormalOffsets(payload, align)
    [] layout = "enhanced" -> EnhancedOffsets(payload, align)
    [] layout = "static"   -> StaticOffsets(payload, align)

\* Bytes.  A canary byte has its place in the word; what else matters of a byte
\* is who wrote it.
Redzone    == <<"redzone", 0>>
Canary(i)  == <<"canary", i % WordSize>>
Metadata   == <<"metadata", 0>>
Unwritten  == <<"unwritten", 0>>
ByProgram  == <<"program", 0>>

Between(from, to) == from .. to - 1

\* Mutant: the last, incomplete word of a canary is not stamped.
CanaryWords(from, to) ==
  [i \in Between(from, from + ((to - from) \div WordSize) * WordSize) |-> Canary(i - from)]

\* _stampCanary: whole words, and the start of a word in what is left.
StampCanary(from, to) == [i \in Between(from, to) |-> Canary(i - from)]
StampRedzone(from, to) == [i \in Between(from, to) |-> Redzone]
StampMeta(from, size)  == [i \in Between(from, from + size) |-> Metadata]

\* What place() writes into a block, in its order.
Stamps(layout, o, size) ==
  CASE layout = "normal" ->
         << StampRedzone(0, o.user), StampRedzone(o.redzone2, o.meta),
            StampMeta(o.meta, NormalMeta.size) >>
    [] layout = "enhanced" ->
         << StampRedzone(0, o.meta), StampMeta(o.meta, EnhancedMeta.size),
            StampCanary(o.canary, o.user), StampCanary(o.canary2, o.meta2),
            StampMeta(o.meta2, EnhancedMeta.size), StampRedzone(o.redzone2, size) >>
    [] layout = "static" ->
         << StampRedzone(0, o.canary), StampCanary(o.canary, o.user),
            StampCanary(o.canary2, o.redzone2), StampRedzone(o.redzone2, size) >>

\* bytes[i]: the byte at the offset i of the block.
VerifyRedzone(bytes, from, to) == \A i \in Between(from, to) : bytes[i] = Redzone
VerifyCanaries(bytes, from, to) ==
  \A i \in Between(from, to) : bytes[i] = Canary(i - from)

NormalGuards(bytes, o) ==
  /\ VerifyRedzone(bytes, o.redzone, o.user)
  /\ VerifyRedzone(bytes, o.redzone2, o.meta)

EnhancedGuards(bytes, o, size) ==
  /\ VerifyRedzone(bytes, o.redzone, o.meta)
  /\ VerifyCanaries(bytes, o.canary, o.user)
  /\ VerifyCanaries(bytes, o.canary2, o.meta2)
  /\ VerifyRedzone(bytes, o.redzone2, size)

StaticGuards(bytes, o, size) ==
  /\ VerifyRedzone(bytes, o.redzone, o.canary)
  /\ VerifyCanaries(bytes, o.canary, o.user)
  /\ VerifyCanaries(bytes, o.canary2, o.redzone2)
  /\ VerifyRedzone(bytes, o.redzone2, size)

VerifyGuards(bytes, layout, o, size) ==
  CASE layout = "normal"   -> NormalGuards(bytes, o)
    [] layout = "enhanced" -> EnhancedGuards(bytes, o, size)
    [] layout = "static"   -> StaticGuards(bytes, o, size)
=============================================================================
