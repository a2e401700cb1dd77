------------------------------ MODULE Negative ------------------------------
(***************************************************************************)
(* lab8 after the image is read: threads share the work of inverting it,   *)
(* by ranges of values ("num": each looks at the whole image and writes    *)
(* the samples in its range) or by columns ("blk").  They write into one   *)
(* buffer without a lock, so every byte must belong to one thread.  Bytes  *)
(* and columns are counted from 0.                                         *)
(***************************************************************************)
EXTENDS Integers, Sequences, FiniteSets

CONSTANTS
  Images,      \* records [data, width, maxval]; data is a function on 0..len-1
  MaxThreads   \* bound on the number of threads

(* Images as the reader leaves them: whole rows, no sample above maxval,   *)
(* and a maxval of two bytes, which the format allows at most.             *)
Byte == 0..255
IsImage(m) ==
  LET len == Cardinality(DOMAIN m.data)
      size == IF m.maxval <= 255 THEN 1 ELSE 2
  IN  /\ m.width \in Nat \ {0} /\ m.maxval \in Nat \ {0} /\ m.maxval <= 65535
      /\ len \in Nat /\ len % (m.width * size) = 0
      /\ m.data \in [0..len - 1 -> Byte]
      /\ \A k \in 0..len - 1 :
           IF size = 1 THEN m.data[k] <= m.maxval
           ELSE k % 2 = 0 => 256 * m.data[k] + m.data[k + 1] <= m.maxval
ASSUME NegativeAssumption == MaxThreads \in Nat \ {0} /\ \A m \in Images : IsImage(m)

VARIABLES
  img,      \* the image
  method,   \* num or blk
  threads,  \* how many
  base, i,  \* per thread: start of its row (blk) and index of its next byte
  out,      \* the negative: bytes, Unset where malloc left them
  writers   \* history: who wrote each byte
vars == <<img, method, threads, base, i, out, writers>>

Unset == -1
Thread == 0..threads - 1
Bytes == DOMAIN img.data
Length == Cardinality(Bytes)
SampleSize == IF img.maxval <= 255 THEN 1 ELSE 2

\* the thread's slice: values from min below max, or columns from offs
ValMin(t) == ((img.maxval + 1) * t) \div threads
Offs(t) == (img.width * t) \div threads
\* Variant: the columns left over by the division belong to nobody.
RowLenNoRemainder(t) == img.width \div threads
RowLen(t) == Offs(t + 1) - Offs(t)

TypeOK == /\ img \in Images /\ method \in {"num", "blk"} /\ threads \in 1..MaxThreads
          /\ base \in [Thread -> Nat] /\ i \in [Thread -> Nat]
          /\ out \in [Bytes -> {Unset} \cup Byte]
          /\ writers \in [Bytes -> SUBSET Thread]

Init ==
  /\ img \in Images /\ method \in {"num", "blk"} /\ threads \in 1..MaxThreads
  /\ base = [t \in Thread |-> IF method = "num" THEN 0 ELSE Offs(t)] /\ i = base
  /\ out = [b \in Bytes |-> Unset] /\ writers = [b \in Bytes |-> {}]

\* char is signed: in blk_thread a low byte from 128 on sets the high bits too;
\* past is what lies behind the image
Sample(k, past) ==
  LET low == IF k + 1 \in Bytes THEN img.data[k + 1] ELSE past
  IN  IF SampleSize = 1 THEN img.data[k]
      ELSE IF method = "blk" /\ low >= 128 THEN low - 256
      ELSE 256 * img.data[k] + low

\* store the inverted sample at k; a byte behind the image is not part of out
Put(t, k, past) ==
  LET two == {k, k + SampleSize - 1} \cap Bytes
      inverse == img.maxval - Sample(k, past)
  IN  /\ out' = [b \in Bytes |->
                   IF b \notin two THEN out[b]
                   ELSE IF b = k /\ SampleSize = 2 THEN (inverse \div 256) % 256
                   ELSE inverse % 256]
      /\ writers' = [b \in Bytes |-> IF b \in two THEN writers[b] \cup {t} ELSE writers[b]]

ValStep(t) ==
  /\ method = "num" /\ i[t] + SampleSize <= Length
  /\ IF Sample(i[t], 0) \in ValMin(t)..ValMin(t + 1) - 1 THEN Put(t, i[t], 0)
     ELSE UNCHANGED <<out, writers>>
  /\ i' = [i EXCEPT ![t] = @ + SampleSize]
  /\ UNCHANGED <<img, method, threads, base>>

\* the row of the slice fits into what is left of the image
RowFits(t) == base[t] + RowLen(t) <= Length
BlkStep(t) ==
  /\ method = "blk" /\ RowFits(t) /\ i[t] < base[t] + RowLen(t)
  /\ \E past \in {0, 255} : Put(t, i[t], past)
  /\ i' = [i EXCEPT ![t] = @ + SampleSize]
  /\ UNCHANGED <<img, method, threads, base>>

NextRow(t) ==
  /\ method = "blk" /\ RowFits(t) /\ i[t] >= base[t] + RowLen(t)
  /\ base' = [base EXCEPT ![t] = @ + img.width]
  /\ i' = [i EXCEPT ![t] = base[t] + img.width]
  /\ UNCHANGED <<img, method, threads, out, writers>>

Done(t) == IF method = "num" THEN i[t] + SampleSize > Length ELSE ~RowFits(t)
Next == \E t \in Thread : ValStep(t) \/ BlkStep(t) \/ NextRow(t)
Spec == Init /\ [][Next]_vars /\ WF_vars(Next)
-----------------------------------------------------------------------------
\* Columns are counted in bytes although a sample may take two, so with blk a
\* two-byte image must have slices of whole samples, and no low byte from 128.
WholeSamples ==
  SampleSize = 2 /\ method = "blk" =>
    /\ \A t \in 0..threads : Offs(t) % 2 = 0
    /\ \A k \in Bytes : k % 2 = 1 => img.data[k] < 128

\* No two threads write the same byte.
OneWriter == WholeSamples => \A b \in Bytes : Cardinality(writers[b]) <= 1

\* What main writes after it has joined the threads is the negative of the
\* whole image.
Negated ==
  WholeSamples /\ (\A t \in Thread : Done(t)) =>
    \A k \in {b \in Bytes : b % SampleSize = 0} :
      IF SampleSize = 1 THEN out[k] = img.maxval - img.data[k]
      ELSE 256 * out[k] + out[k + 1] = img.maxval - (256 * img.data[k] + img.data[k + 1])
=============================================================================
