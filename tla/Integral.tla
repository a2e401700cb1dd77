------------------------------ MODULE Integral ------------------------------
(***************************************************************************)
(* lab3/zad2: workers add up every workers-th sample and leave their sums  *)
(* in files w1.bin, w2.bin, ...; the parent waits for all of them and adds *)
(* up the files.  Both add in pairs like a binary counter: bin b holds the *)
(* sum of 2^b values.  A sum is modelled by the bag of samples in it, a    *)
(* function that counts how often each sample was added.                   *)
(***************************************************************************)
EXTENDS Naturals, FiniteSets, FiniteSetsExt

CONSTANTS
  MaxSamples, MaxWorkers,   \* bounds on the arguments
  MaxBin,                   \* last index of accum (31)
  Stale                     \* what a file holds from an earlier run, or half written

VARIABLES
  samples, workers,  \* the arguments
  s,        \* per worker: its next sample
  bins,     \* per worker, 0 being the parent: accum
  mask,     \* per worker: how many values it has put into its bins
  file,     \* per worker: a sum, or Stale
  state,    \* per worker: run, ok, failed, reaped
  bad,      \* a child failed
  result    \* Stale, until the parent prints
vars == <<samples, workers, s, bins, mask, file, state, bad, result>>

Worker == 1..workers
Bin == 0..MaxBin
Sample == 0..samples - 1
Nothing == [x \in Sample |-> 0]
One(x) == [Nothing EXCEPT ![x] = 1]

\* m >> b, and its last bit
Shift(m) == LET shift[b \in 0..MaxBin + 1] == IF b = 0 THEN m ELSE shift[b - 1] \div 2
            IN  shift
Bit(m, b) == Shift(m)[b] % 2
Ctz(m) == Min({b \in Bin : Bit(m, b) = 1})
\* the first bins of f added up, one after the other
AddUp(f) == LET sum[b \in 0..MaxBin + 1] == IF b = 0 THEN 0 ELSE sum[b - 1] + f[b - 1]
            IN  sum
SumOf(acc, B) ==
  [x \in Sample |-> AddUp([b \in Bin |-> IF b \in B THEN acc[b][x] ELSE 0])[MaxBin + 1]]
Plus(f, g) == [x \in Sample |-> f[x] + g[x]]

\* Variant: the old value of the bin is added too.
PutOnOld(acc, m, value) == [acc EXCEPT ![Ctz(m)] = Plus(value, SumOf(acc, 0..Ctz(m)))]

\* accum[bin] = value, then the full bins below it are added to it
Put(acc, m, value) ==
  [acc EXCEPT ![Ctz(m)] = Plus(value, SumOf(acc, 0..Ctz(m) - 1))]
Total(acc, m) == SumOf(acc, {b \in Bin : Bit(m, b) = 1})

TypeOK ==
  /\ samples \in 2..MaxSamples /\ workers \in 1..MaxWorkers
  /\ \A w \in 0..workers : mask[w] \in Nat /\ bins[w] \in [Bin -> [Sample -> Nat]]
  /\ state \in [Worker -> {"run", "ok", "failed", "reaped"}]

Init ==
  /\ samples \in 2..MaxSamples /\ workers \in 1..MaxWorkers
  /\ s = [w \in Worker |-> w - 1]
  /\ bins = [w \in 0..workers |-> [b \in Bin |-> Nothing]]
  /\ mask = [w \in 0..workers |-> 0]
  /\ file = [w \in Worker |-> Stale]
  /\ state = [w \in Worker |-> "run"]
  /\ bad = FALSE /\ result = Stale

AddTo(w, value) == /\ mask' = [mask EXCEPT ![w] = @ + 1]
                   /\ bins' = [bins EXCEPT ![w] = Put(@, mask[w] + 1, value)]

AddSample(w) ==
  /\ state[w] = "run" /\ s[w] < samples
  /\ AddTo(w, One(s[w]))
  /\ s' = [s EXCEPT ![w] = @ + workers]
  /\ UNCHANGED <<samples, workers, file, state, bad, result>>

StoreSum(w) ==
  /\ state[w] = "run" /\ s[w] >= samples
  /\ file' = [file EXCEPT ![w] = Total(bins[w], mask[w])]
  /\ state' = [state EXCEPT ![w] = "ok"]
  /\ UNCHANGED <<samples, workers, s, bins, mask, bad, result>>

\* the file cannot be opened or written, or the worker is killed
WorkerFails(w) ==
  /\ state[w] = "run"
  /\ state' = [state EXCEPT ![w] = "failed"]
  /\ UNCHANGED <<samples, workers, s, bins, mask, file, bad, result>>

Wait(w) ==
  /\ state[w] \in {"ok", "failed"}
  /\ bad' = (bad \/ state[w] = "failed")
  /\ state' = [state EXCEPT ![w] = "reaped"]
  /\ UNCHANGED <<samples, workers, s, bins, mask, file, result>>

AllReaped == \A w \in Worker : state[w] = "reaped"
\* the parent's mask counts the files it has read
ReadFile ==
  /\ AllReaped /\ ~bad /\ mask[0] < workers
  /\ AddTo(0, file[mask[0] + 1])
  /\ UNCHANGED <<samples, workers, s, file, state, bad, result>>

PrintResult ==
  /\ AllReaped /\ ~bad /\ mask[0] = workers /\ result = Stale
  /\ result' = Total(bins[0], mask[0])
  /\ UNCHANGED <<samples, workers, s, bins, mask, file, state, bad>>

Next == \/ \E w \in Worker : AddSample(w) \/ StoreSum(w) \/ WorkerFails(w) \/ Wait(w)
        \/ ReadFile \/ PrintResult
Spec == Init /\ [][Next]_vars
-----------------------------------------------------------------------------
\* A printed result is the sum of every sample exactly once: nothing is lost
\* in a bin, and no file of a worker that failed is taken for its sum.
EachSampleOnce == result # Stale => result = [x \in Sample |-> 1]
=============================================================================
