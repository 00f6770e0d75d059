---------------------------- MODULE Cockpit_proofs ---------------------------
(***************************************************************************)
(* Theorems about Cockpit, for any scripts, scenarios and bounds.          *)
(*                                                                         *)
(* The invariant has two parts.  FileInv says where the lines come from:   *)
(* whatever the damages, a line that parses keeps the hash, the cycle, the *)
(* kind and the digest of a line some record wrote - its authority, its    *)
(* unhashed part and its parameters may have changed - and a record wrote  *)
(* one line of a cycle; on a file nobody damaged the lines are those records   *)
(* wrote, in the order they were written, and behind all that was read     *)
(* when their engine was built.  ScriptInv says what each script knows of  *)
(* the one line it may write.                                              *)
(***************************************************************************)
EXTENDS CockpitProperties, SequenceTheorems, LeastAndSums

Authorities == {"ACT", "HOLD", "BLOCK"}

Evidence ==
  build_simulation_extension(SIMULATION_KIND_TRADING_WORLD, TRADING_PARAMS)

Hashes == {w.line.stored_hash : w \in written}

(* A record wrote the line of a receipt chained to the head it was given.  *)
WellWritten(w) ==
  /\ w.before \in Seq(Hashes)
  /\ \E cycle \in 1 .. drawn, authority \in Authorities, executed \in BOOLEAN,
        extension \in {NoExtension, Evidence} :
       w = [line |-> Line(Receipt(cycle, authority, executed, HeadOf(w.before),
                                  extension)),
            before |-> w.before]

AllParams == [acting : Nat, idle : Nat]

(* What no damage takes from a line.                                       *)
ComesFrom(line, w) ==
  /\ \E touched \in BOOLEAN :
       line = [receipt |-> line.receipt, touched_the_market |-> touched,
               stored_hash |-> w.line.stored_hash]
  /\ \E authority \in Authorities, params \in AllParams :
       line.receipt =
         Receipt(w.line.receipt.cycle, authority, w.line.receipt.executed,
                 w.line.receipt.previous_receipt_hash,
                 [kind |-> w.line.receipt.extension.kind, params |-> params,
                  output_digest |-> w.line.receipt.extension.output_digest])

KnownLine(line) == line = TornLine \/ \E w \in written : ComesFrom(line, w)

(* The first n lines parse, and hashes are the stored hashes among them.   *)
ReadFrom(hashes, n) ==
  /\ n <= Len(lines)
  /\ hashes = SubSeq(StoredHashes, 1, n)
  /\ \A k \in 1 .. n : lines[k] # TornLine

(* The file nobody damaged.                                                *)
Undamaged ==
  /\ \A i \in DOMAIN lines :
       \/ lines[i] = TornLine
       \/ \E w \in written : lines[i] = w.line /\ Len(w.before) < i
  /\ \A w \in written :
       /\ \E i \in DOMAIN lines : lines[i] = w.line
       /\ ReadFrom(w.before, Len(w.before))
  /\ \A i, j \in DOMAIN lines :
       lines[i] = lines[j] /\ lines[i] # TornLine => i = j

FileInv ==
  /\ drawn \in Nat /\ damaged \in 0 .. MaxDamage
  /\ \E S : lines \in Seq(S)
  /\ \A w \in written : WellWritten(w)
  /\ \A v, w \in written :
       v.line.receipt.cycle = w.line.receipt.cycle => v = w
  /\ \A i \in DOMAIN lines : KnownLine(lines[i])
  /\ damaged = 0 => Undamaged

------------------------------------------------------------------------------
(* The scripts.                                                            *)

Number(p) == outcome[p].receipt.cycle

Active(p) == pc[p] \in {"ran", "returned", "verified"}

(* The engine of p read the file, and what it read still stands.           *)
HeadRead(p) ==
  /\ engine[p].head \in Seq(Hashes)
  /\ damaged = 0 => ReadFrom(engine[p].head, Len(engine[p].head))

Recorded(p) == \E w \in written : w.line.receipt = outcome[p].receipt

(* What a view says of the receipt of its outcome.                         *)
SaysRight(v) ==
  /\ v.persisted => v.raw = Line(v.outcome.receipt)
  /\ ~v.persisted => v.outcome.proof # "PROVEN" /\ v.raw = Genesis

ScriptInv(p) ==
  /\ pc[p] \in {"idle", "built", "ran", "returned", "verified"}
  /\ page[p] \in {"none", "cockpit", "comparison"}
  /\ engine[p].spec \in SCENARIOS
  /\ view[p].shows \in Readings
  /\ pc[p] \in {"built", "ran"} => HeadRead(p)
  /\ Active(p) => Number(p) \in 1 .. drawn
  /\ pc[p] = "ran" =>
       /\ outcome[p] = Outcome(engine[p].spec, ReceiptOf(p, Number(p)), "PROVEN")
       /\ \A w \in written : w.line.receipt.cycle # Number(p)
  /\ pc[p] \in {"returned", "verified"} =>
       \A w \in written : w.line.receipt.cycle = Number(p) =>
         w.line.receipt = outcome[p].receipt
  /\ pc[p] = "returned" /\ outcome[p].proof = "PROVEN" => Recorded(p)
  /\ pc[p] = "verified" =>
       /\ view[p].shows = "partly"
       /\ view[p] = [shows |-> "partly", outcome |-> outcome[p],
            persisted |-> view[p].persisted, raw |-> view[p].raw,
            chain_integrity |-> view[p].chain_integrity, audit |-> view[p].audit]
       /\ damaged = 0 =>
            /\ view[p].persisted <=> Recorded(p)
            /\ SaysRight(view[p])
  /\ view[p].shows = "cycle" /\ damaged = 0 =>
       SaysRight(view[p]) /\ view[p].audit = view[p].raw

Built == {p \in Scripts : pc[p] = "built"}

CockpitInv ==
  /\ FileInv
  /\ \A p \in Scripts : ScriptInv(p)
  /\ \A p, q \in Scripts :
       Active(p) /\ Active(q) /\ Number(p) = Number(q) => p = q
  /\ kept \subseteq 1 .. drawn
  /\ DOMAIN pc = Scripts /\ DOMAIN page = Scripts /\ DOMAIN engine = Scripts
  /\ DOMAIN outcome = Scripts /\ DOMAIN view = Scripts
  /\ drawn + Cardinality(Built) <= MaxCycles

------------------------------------------------------------------------------
(* What is known of a line a record wrote, and of one that may be damaged. *)

LEMMA WrittenFacts ==
  ASSUME NEW w, WellWritten(w), drawn \in Nat
  PROVE  /\ w.line.receipt.cycle \in 1 .. drawn
         /\ w.line.receipt.authority \in Authorities
         /\ w.line.receipt.executed \in BOOLEAN
         /\ w.line.receipt.previous_receipt_hash = HeadOf(w.before)
         /\ w.line.receipt.extension \in {NoExtension, Evidence}
         /\ w.line.stored_hash = w.line.receipt
         /\ w.line = [receipt |-> w.line.receipt,
                      touched_the_market |-> w.line.receipt.executed,
                      stored_hash |-> w.line.stored_hash]
         /\ w.line = Line(w.line.receipt)
         /\ w.line.receipt = Receipt(w.line.receipt.cycle, w.line.receipt.authority,
              w.line.receipt.executed, w.line.receipt.previous_receipt_hash,
              w.line.receipt.extension)
         /\ w.before \in Seq(Hashes)
         /\ w = [line |-> w.line, before |-> w.before]
  BY DEF WellWritten, Line, Receipt, Hash

LEMMA EvidenceFacts ==
  /\ Evidence = [kind |-> "trading_world", params |-> [acting |-> 1, idle |-> 1],
                 output_digest |-> 101]
  /\ NoExtension = [kind |-> "none", params |-> [acting |-> 0, idle |-> 0],
                    output_digest |-> 0]
  BY DEF Evidence, NoExtension, build_simulation_extension, Digest, Path, Params,
         SIMULATION_KIND_TRADING_WORLD, TRADING_PARAMS

(* No record wrote the hash of the empty file, nor a torn line.            *)
LEMMA NotGenesis ==
  ASSUME NEW w, WellWritten(w), drawn \in Nat
  PROVE  /\ w.line.stored_hash # Genesis
         /\ \A line : SaysTheSame(line, w.line) => line # TornLine
  <1>1. w.line.receipt.cycle # Genesis.cycle
    <2>1. w.line.receipt.cycle \in 1 .. drawn
      BY WrittenFacts
    <2> QED
      BY <2>1 DEF Genesis
  <1>2. TornLine.receipt = Genesis /\ TornLine.stored_hash = Genesis
    BY DEF TornLine
  <1>3. w.line.stored_hash = w.line.receipt
    BY WrittenFacts
  <1> QED
    BY <1>1, <1>2, <1>3 DEF SaysTheSame

LEMMA DamagedFacts ==
  ASSUME NEW w, NEW line, ComesFrom(line, w)
  PROVE  /\ line.receipt.cycle = w.line.receipt.cycle
         /\ line.stored_hash = w.line.stored_hash
         /\ line.receipt.extension.kind = w.line.receipt.extension.kind
         /\ line.receipt.extension.output_digest = w.line.receipt.extension.output_digest
         /\ line.receipt.extension.params \in AllParams
         /\ line.receipt.extension = [kind |-> w.line.receipt.extension.kind,
              params |-> line.receipt.extension.params,
              output_digest |-> w.line.receipt.extension.output_digest]
  BY DEF ComesFrom, Receipt

(* A line whose contents have the stored hash says what was written.       *)
LEMMA UnalteredIsWritten ==
  ASSUME NEW w, NEW line, WellWritten(w), drawn \in Nat, ComesFrom(line, w)
  PROVE  Unaltered(line) <=> SaysTheSame(line, w.line)
  <1>1. w.line.stored_hash = w.line.receipt
    BY WrittenFacts
  <1>2. line.stored_hash = w.line.stored_hash
    BY DamagedFacts
  <1> QED
    BY <1>1, <1>2 DEF Unaltered, Hash, SaysTheSame

(* Where every line parses, every line comes from a written one.           *)
LEMMA ReadableLines ==
  ASSUME FileInv, Readable(lines), NEW i \in DOMAIN lines
  PROVE  /\ lines[i] # TornLine
         /\ \E w \in written : ComesFrom(lines[i], w)
         /\ damaged = 0 => \E w \in written : lines[i] = w.line
  <1>1. DOMAIN lines = 1 .. Len(lines)
    BY DEF FileInv
  <1>2. lines[i] # TornLine
    BY <1>1 DEF Readable, Contains
  <1> QED
    BY <1>2 DEF FileInv, KnownLine, Undamaged

LEMMA StoredHashesOf ==
  ASSUME FileInv
  PROVE  /\ DOMAIN lines = 1 .. Len(lines) /\ Len(lines) \in Nat
         /\ \E T : StoredHashes \in Seq(T)
         /\ Len(StoredHashes) = Len(lines)
         /\ \A i \in DOMAIN lines : StoredHashes[i] = lines[i].stored_hash
  <1>1. PICK S : lines \in Seq(S)
    BY DEF FileInv
  <1> DEFINE T == {lines[i].stored_hash : i \in DOMAIN lines}
  <1>2. DOMAIN lines = 1 .. Len(lines) /\ Len(lines) \in Nat
    BY <1>1
  <1>3. StoredHashes \in [1 .. Len(lines) -> T]
    BY <1>2 DEF StoredHashes
  <1>4. \A i \in DOMAIN lines : StoredHashes[i] = lines[i].stored_hash
    BY DEF StoredHashes
  <1> HIDE DEF T
  <1>5. StoredHashes \in Seq(T) /\ Len(StoredHashes) = Len(lines)
    BY <1>2, <1>3
  <1> QED
    BY <1>2, <1>4, <1>5

(* The first n hashes of the file, and the hash that an n + 1st line must  *)
(* name.                                                                   *)
LEMMA HeadOfPrefix ==
  ASSUME FileInv, NEW n \in 0 .. Len(lines)
  PROVE  /\ Len(SubSeq(StoredHashes, 1, n)) = n
         /\ \A k \in 1 .. n : SubSeq(StoredHashes, 1, n)[k] = lines[k].stored_hash
         /\ HeadOf(SubSeq(StoredHashes, 1, n)) =
              IF n = 0 THEN Genesis ELSE lines[n].stored_hash
         /\ last_hash(SubSeq(lines, 1, n)) = HeadOf(SubSeq(StoredHashes, 1, n))
  <1>1. PICK T : StoredHashes \in Seq(T)
    BY StoredHashesOf
  <1>2. PICK S : lines \in Seq(S)
    BY DEF FileInv
  <1>3. /\ Len(StoredHashes) = Len(lines) /\ Len(lines) \in Nat
        /\ \A i \in 1 .. Len(lines) : StoredHashes[i] = lines[i].stored_hash
    BY StoredHashesOf
  <1>4. /\ SubSeq(StoredHashes, 1, n) \in Seq(T)
        /\ Len(SubSeq(StoredHashes, 1, n)) = n
        /\ \A k \in 1 .. n : SubSeq(StoredHashes, 1, n)[k] = StoredHashes[k]
    BY <1>1, <1>3
  <1>5. /\ SubSeq(lines, 1, n) \in Seq(S)
        /\ Len(SubSeq(lines, 1, n)) = n
        /\ \A k \in 1 .. n : SubSeq(lines, 1, n)[k] = lines[k]
    BY <1>2
  <1>6. CASE n = 0
    BY <1>3, <1>4, <1>5, <1>6 DEF HeadOf, last_hash
  <1>7. CASE n # 0
    BY <1>3, <1>4, <1>5, <1>7 DEF HeadOf, last_hash, Last
  <1> QED
    BY <1>3, <1>4, <1>6, <1>7

------------------------------------------------------------------------------
(* The verifier.                                                           *)

LEMMA NotCorrupted ==
  ASSUME FileInv
  PROVE  verify_store(lines) # "CORRUPTED" <=>
           /\ Readable(lines)
           /\ \A i \in DOMAIN lines :
                /\ FirstOfItsCycle(lines, i)
                /\ Unaltered(lines[i])
                /\ FollowsTheLineBefore(lines, i)
  <1>1. CASE lines = <<>>
    BY <1>1 DEF verify_store, Readable, Contains
  <1>2. CASE lines # <<>>
    BY <1>2 DEF verify_store
  <1> QED
    BY <1>1, <1>2

(* Two lines of a cycle are the line of one record, and i comes first.     *)
LEMMA FirstMeans ==
  ASSUME FileInv, NEW i \in DOMAIN lines
  PROVE  FirstOfItsCycle(lines, i) <=>
           \A j \in 1 .. i - 1 : lines[j].receipt.cycle # lines[i].receipt.cycle
  <1>1. PICK S : lines \in Seq(S)
    BY DEF FileInv
  <1>2. /\ SubSeq(lines, 1, i - 1) \in Seq(S)
        /\ DOMAIN SubSeq(lines, 1, i - 1) = 1 .. i - 1
        /\ \A k \in 1 .. i - 1 : SubSeq(lines, 1, i - 1)[k] = lines[k]
    BY <1>1
  <1> QED
    BY <1>2 DEF FirstOfItsCycle, Has

LEMMA FollowsMeans ==
  ASSUME FileInv, NEW i \in DOMAIN lines
  PROVE  FollowsTheLineBefore(lines, i) <=>
           lines[i].receipt.previous_receipt_hash = HeadOf(SubSeq(StoredHashes, 1, i - 1))
  <1>1. i - 1 \in 0 .. Len(lines)
    BY StoredHashesOf
  <1> QED
    BY <1>1, HeadOfPrefix DEF FollowsTheLineBefore

(* A file that is as it was written verifies.                              *)
LEMMA AsWrittenVerifies ==
  ASSUME FileInv, AsWritten
  PROVE  verify_store(lines) # "CORRUPTED"
  <1>1. DOMAIN lines = 1 .. Len(lines) /\ Len(lines) \in Nat
    BY StoredHashesOf
  <1>2. drawn \in Nat /\ \A w \in written : WellWritten(w)
    BY DEF FileInv
  <1>3. Readable(lines)
    <2>1. \A i \in 1 .. Len(lines) : lines[i] # TornLine
      BY <1>1, <1>2, NotGenesis DEF AsWritten
    <2> QED
      BY <2>1 DEF Readable, Contains
  <1>4. ASSUME NEW i \in DOMAIN lines
        PROVE  /\ FirstOfItsCycle(lines, i)
               /\ Unaltered(lines[i])
               /\ FollowsTheLineBefore(lines, i)
    <2>1. PICK w \in written :
            SaysTheSame(lines[i], w.line) /\ w.before = SubSeq(StoredHashes, 1, i - 1)
      BY DEF AsWritten
    <2>2. Unaltered(lines[i])
      BY <1>2, <2>1, WrittenFacts DEF Unaltered, Hash, SaysTheSame
    <2>3. FollowsTheLineBefore(lines, i)
      BY <1>2, <2>1, WrittenFacts, FollowsMeans DEF SaysTheSame
    <2>4. ASSUME NEW j \in 1 .. i - 1, lines[j].receipt.cycle = lines[i].receipt.cycle
          PROVE  FALSE
      <3>1. j \in DOMAIN lines /\ j # i /\ j - 1 \in 0 .. Len(lines) /\ i - 1 \in 0 .. Len(lines)
        BY <1>1
      <3>2. PICK v \in written :
              SaysTheSame(lines[j], v.line) /\ v.before = SubSeq(StoredHashes, 1, j - 1)
        BY <3>1 DEF AsWritten
      <3>3. v = w
        BY <2>1, <2>4, <3>2 DEF FileInv, SaysTheSame
      <3>4. Len(v.before) = j - 1 /\ Len(w.before) = i - 1
        BY <2>1, <3>1, <3>2, HeadOfPrefix
      <3> QED
        BY <1>1, <3>1, <3>3, <3>4
    <2> QED
      BY <2>2, <2>3, <2>4, FirstMeans
  <1> QED
    BY <1>3, <1>4, NotCorrupted

(* In a file that verifies, every line says what was written, and names    *)
(* the line before it.                                                     *)
LEMMA VerifiedLines ==
  ASSUME FileInv, verify_store(lines) # "CORRUPTED", NEW i \in DOMAIN lines
  PROVE  \E w \in written :
           /\ SaysTheSame(lines[i], w.line)
           /\ HeadOf(w.before) = HeadOf(SubSeq(StoredHashes, 1, i - 1))
  <1>1. Readable(lines) /\ Unaltered(lines[i]) /\ FollowsTheLineBefore(lines, i)
    BY NotCorrupted
  <1>2. PICK w \in written : ComesFrom(lines[i], w)
    BY <1>1, ReadableLines
  <1>3. drawn \in Nat /\ WellWritten(w)
    BY DEF FileInv
  <1>4. SaysTheSame(lines[i], w.line)
    BY <1>1, <1>2, <1>3, UnalteredIsWritten
  <1> QED
    BY <1>1, <1>3, <1>4, FollowsMeans, WrittenFacts DEF SaysTheSame

(* What stands before the k-th line, given that all before it is in place. *)
LEMMA InItsPlace ==
  ASSUME FileInv, verify_store(lines) # "CORRUPTED", ReadAsWritten,
         NEW k \in DOMAIN lines,
         \A j \in 1 .. k - 1 : \E v \in written :
           SaysTheSame(lines[j], v.line) /\ v.before = SubSeq(StoredHashes, 1, j - 1)
  PROVE  \E w \in written :
           SaysTheSame(lines[k], w.line) /\ w.before = SubSeq(StoredHashes, 1, k - 1)
  <1>1. PICK w \in written :
          /\ SaysTheSame(lines[k], w.line)
          /\ HeadOf(w.before) = HeadOf(SubSeq(StoredHashes, 1, k - 1))
    BY VerifiedLines
  <1>2. /\ DOMAIN lines = 1 .. Len(lines) /\ Len(lines) \in Nat
        /\ k \in 1 .. Len(lines) /\ k - 1 \in 0 .. Len(lines)
    BY StoredHashesOf
  <1>3. drawn \in Nat /\ (\A v \in written : WellWritten(v)) /\ w.before \in Seq(Hashes)
    BY WrittenFacts DEF FileInv
  <1>4. HeadOf(w.before) # Genesis <=> w.before # <<>>
    <2>1. ASSUME w.before # <<>>
          PROVE  HeadOf(w.before) \in Hashes
      BY <1>3, <2>1 DEF HeadOf, Last
    <2>2. Genesis \notin Hashes
      BY <1>3, NotGenesis DEF Hashes
    <2> QED
      BY <2>1, <2>2 DEF HeadOf
  <1>5. CASE k = 1
    <2>1. HeadOf(w.before) = Genesis
      BY <1>1, <1>2, <1>5, HeadOfPrefix
    <2>2. Len(SubSeq(StoredHashes, 1, k - 1)) = 0
      BY <1>2, <1>5, HeadOfPrefix
    <2>3. PICK T : StoredHashes \in Seq(T)
      BY StoredHashesOf
    <2>4. SubSeq(StoredHashes, 1, k - 1) = <<>>
      BY <1>5
    <2> QED
      BY <1>1, <1>4, <2>1, <2>4
  <1>6. CASE k # 1
    <2>1. k - 1 \in 1 .. k - 1 /\ k - 1 \in DOMAIN lines /\ k - 2 \in 0 .. Len(lines)
      BY <1>2, <1>6
    <2>2. PICK v \in written :
            SaysTheSame(lines[k - 1], v.line) /\ v.before = SubSeq(StoredHashes, 1, k - 2)
      BY <2>1
    <2>3. HeadOf(w.before) = v.line.stored_hash
      BY <1>1, <1>2, <1>6, <2>2, HeadOfPrefix DEF SaysTheSame
    <2>4. w.before # <<>>
      BY <1>3, <1>4, <2>3, NotGenesis
    <2> DEFINE m == Len(w.before)
    <2>5. m \in DOMAIN w.before /\ w.before[m] = v.line.stored_hash
      BY <1>3, <2>3, <2>4 DEF HeadOf, Last
    <2>6. PICK u \in written :
            u.line.stored_hash = w.before[m] /\ u.before = SubSeq(w.before, 1, m - 1)
      BY <2>5 DEF ReadAsWritten
    <2>7. u = v
      <3>1. u.line.receipt.cycle = v.line.receipt.cycle
        BY <1>3, <2>5, <2>6, WrittenFacts
      <3> QED
        BY <3>1 DEF FileInv
    <2>8. SubSeq(w.before, 1, m - 1) = SubSeq(StoredHashes, 1, k - 2)
      BY <2>2, <2>6, <2>7
    <2>9. w.before = SubSeq(StoredHashes, 1, k - 1)
      <3>1. PICK T : StoredHashes \in Seq(T)
        BY StoredHashesOf
      <3>2. m - 1 = k - 2
        BY <1>3, <2>1, <2>5, <2>8, HeadOfPrefix
      <3>3. \A j \in 1 .. k - 2 : w.before[j] = StoredHashes[j]
        <4>1. \A j \in 1 .. k - 2 : SubSeq(w.before, 1, m - 1)[j] = w.before[j]
          BY <1>3, <2>5, <3>2
        <4> QED
          BY <2>1, <2>8, <4>1, HeadOfPrefix, StoredHashesOf
      <3>4. w.before[k - 1] = StoredHashes[k - 1]
        BY <1>2, <2>1, <2>2, <2>5, <3>2, StoredHashesOf DEF SaysTheSame
      <3>5. \A j \in 1 .. k - 1 : w.before[j] = SubSeq(StoredHashes, 1, k - 1)[j]
        BY <1>2, <2>1, <3>1, <3>3, <3>4, StoredHashesOf
      <3>6. Len(w.before) = k - 1 /\ Len(SubSeq(StoredHashes, 1, k - 1)) = k - 1
        BY <1>2, <2>1, <3>2, HeadOfPrefix
      <3>7. SubSeq(StoredHashes, 1, k - 1) \in Seq(T)
        BY <1>2, <3>1, StoredHashesOf
      <3> QED
        BY <1>3, <3>5, <3>6, <3>7
    <2> QED
      BY <1>1, <2>9
  <1> QED
    BY <1>5, <1>6

(* By the first line that would not be in its place.                       *)
LEMMA VerifiedIsAsWritten ==
  ASSUME FileInv, verify_store(lines) # "CORRUPTED", ReadAsWritten
  PROVE  AsWritten
  <1> DEFINE Placed(i) == \E w \in written :
               SaysTheSame(lines[i], w.line) /\ w.before = SubSeq(StoredHashes, 1, i - 1)
             Astray == {i \in DOMAIN lines : ~Placed(i)}
  <1>1. DOMAIN lines = 1 .. Len(lines) /\ Len(lines) \in Nat
    BY StoredHashesOf
  <1>2. ASSUME Astray # {}
        PROVE  FALSE
    <2>1. Astray \subseteq Nat
      BY <1>1
    <2>2. PICK k \in Astray : \A j \in Astray : k <= j
      <3> HIDE DEF Astray
      <3> QED
        BY <1>2, <2>1, LeastNumber
    <2>3. k \in DOMAIN lines /\ \A j \in 1 .. k - 1 : Placed(j)
      <3>1. k \in 1 .. Len(lines)
        BY <1>1
      <3>2. ASSUME NEW j \in 1 .. k - 1
            PROVE  j \in DOMAIN lines /\ j \notin Astray
        <4>1. j \in 1 .. Len(lines) /\ ~ (k <= j)
          BY <1>1, <3>1
        <4> HIDE DEF Astray
        <4> QED
          BY <1>1, <2>2, <4>1
      <3> QED
        BY <3>2
    <2>4. Placed(k)
      BY <2>3, InItsPlace
    <2> QED
      BY <2>2, <2>4
  <1> QED
    BY <1>2 DEF AsWritten

------------------------------------------------------------------------------
(* Forks, on a file nobody damaged.                                        *)

(* Of two records with the same head both name the same line.              *)
LEMMA ForkedIsCorrupted ==
  ASSUME FileInv, Undamaged, Forked
  PROVE  verify_store(lines) = "CORRUPTED"
  <1> SUFFICES ASSUME verify_store(lines) # "CORRUPTED" PROVE FALSE
    OBVIOUS
  <1>1. PICK v \in written, w \in written : v # w /\ v.before = w.before
    BY DEF Forked
  <1>2. drawn \in Nat /\ \A u \in written : WellWritten(u)
    BY DEF FileInv
  <1>3. PICK i \in DOMAIN lines : lines[i] = v.line
    BY DEF Undamaged
  <1>4. PICK j \in DOMAIN lines : lines[j] = w.line
    BY DEF Undamaged
  <1>5. /\ i \in 1 .. Len(lines) /\ j \in 1 .. Len(lines) /\ Len(lines) \in Nat
        /\ i - 1 \in 0 .. Len(lines) /\ j - 1 \in 0 .. Len(lines)
    BY StoredHashesOf
  <1>6. i # j
    BY <1>1, <1>3, <1>4 DEF FileInv
  <1>7. HeadOf(SubSeq(StoredHashes, 1, i - 1)) = HeadOf(SubSeq(StoredHashes, 1, j - 1))
    <2>1. FollowsTheLineBefore(lines, i) /\ FollowsTheLineBefore(lines, j)
      BY NotCorrupted
    <2>2. /\ v.line.receipt.previous_receipt_hash = HeadOf(v.before)
          /\ w.line.receipt.previous_receipt_hash = HeadOf(w.before)
      BY <1>2, WrittenFacts
    <2>3. /\ HeadOf(v.before) = HeadOf(SubSeq(StoredHashes, 1, i - 1))
          /\ HeadOf(w.before) = HeadOf(SubSeq(StoredHashes, 1, j - 1))
      BY <1>3, <1>4, <2>1, <2>2, FollowsMeans
    <2> QED
      BY <1>1, <2>3
  <1>8. ASSUME NEW k \in 1 .. Len(lines)
        PROVE  lines[k].stored_hash # Genesis /\ lines[k] # TornLine
    <2>1. k \in DOMAIN lines
      BY StoredHashesOf
    <2>2. \E u \in written : SaysTheSame(lines[k], u.line)
      BY <2>1, VerifiedLines
    <2> QED
      BY <1>2, <2>2, NotGenesis DEF SaysTheSame
  <1>9. i # 1 /\ j # 1
    <2>1. /\ HeadOf(SubSeq(StoredHashes, 1, i - 1)) =
               IF i - 1 = 0 THEN Genesis ELSE lines[i - 1].stored_hash
          /\ HeadOf(SubSeq(StoredHashes, 1, j - 1)) =
               IF j - 1 = 0 THEN Genesis ELSE lines[j - 1].stored_hash
      BY <1>5, HeadOfPrefix
    <2>2. CASE i = 1
      <3>1. j - 1 \in 1 .. Len(lines)
        BY <1>5, <1>6, <2>2
      <3> QED
        BY <1>5, <1>7, <1>8, <2>1, <2>2, <3>1
    <2>3. CASE j = 1
      <3>1. i - 1 \in 1 .. Len(lines)
        BY <1>5, <1>6, <2>3
      <3> QED
        BY <1>5, <1>7, <1>8, <2>1, <2>3, <3>1
    <2> QED
      BY <2>2, <2>3
  <1>10. /\ i - 1 \in 1 .. Len(lines) /\ j - 1 \in 1 .. Len(lines)
         /\ i - 1 \in DOMAIN lines /\ j - 1 \in DOMAIN lines /\ i - 1 # j - 1
    BY <1>5, <1>6, <1>9, StoredHashesOf
  <1>11. lines[i - 1].stored_hash = lines[j - 1].stored_hash
    BY <1>5, <1>7, <1>9, HeadOfPrefix
  <1>12. lines[i - 1] = lines[j - 1]
    <2>1. PICK t \in written : lines[i - 1] = t.line
      BY <1>8, <1>10 DEF Undamaged
    <2>2. PICK u \in written : lines[j - 1] = u.line
      BY <1>8, <1>10 DEF Undamaged
    <2>3. t.line.stored_hash = t.line.receipt /\ u.line.stored_hash = u.line.receipt
      BY <1>2, WrittenFacts
    <2>4. t = u
      BY <1>11, <2>1, <2>2, <2>3 DEF FileInv
    <2> QED
      BY <2>1, <2>2, <2>4
  <1> QED
    BY <1>8, <1>10, <1>12 DEF Undamaged

(* The line of a record that no other shares its head with, in its place   *)
(* if those before it are.                                                 *)
LEMMA InOrder ==
  ASSUME FileInv, Undamaged, Readable(lines), ~Forked, NEW k \in DOMAIN lines,
         \A j \in 1 .. k - 1 : \E v \in written :
           SaysTheSame(lines[j], v.line) /\ v.before = SubSeq(StoredHashes, 1, j - 1)
  PROVE  \E w \in written :
           SaysTheSame(lines[k], w.line) /\ w.before = SubSeq(StoredHashes, 1, k - 1)
  <1>1. PICK w \in written : lines[k] = w.line /\ Len(w.before) < k
    BY ReadableLines DEF Undamaged
  <1>2. /\ DOMAIN lines = 1 .. Len(lines) /\ Len(lines) \in Nat
        /\ k \in 1 .. Len(lines)
    BY StoredHashesOf
  <1>3. drawn \in Nat /\ WellWritten(w) /\ w.before \in Seq(Hashes)
    BY WrittenFacts DEF FileInv
  <1> DEFINE m == Len(w.before)
  <1>4. m \in Nat /\ m < k /\ w.before = SubSeq(StoredHashes, 1, m)
    BY <1>1, <1>3 DEF Undamaged, ReadFrom
  <1>5. ASSUME m # k - 1
        PROVE  FALSE
    <2>1. m + 1 \in 1 .. k - 1
      BY <1>2, <1>4, <1>5
    <2>2. PICK v \in written :
            /\ SaysTheSame(lines[m + 1], v.line)
            /\ v.before = SubSeq(StoredHashes, 1, m + 1 - 1)
      BY <2>1
    <2>3. v.before = w.before
      BY <1>4, <2>2
    <2>4. v = w
      BY <2>3 DEF Forked
    <2>5. m + 1 \in DOMAIN lines /\ m + 1 # k
      BY <1>2, <2>1
    <2>6. lines[k] # TornLine /\ lines[m + 1] # TornLine
      BY <2>5, ReadableLines
    <2>7. PICK u \in written : lines[m + 1] = u.line
      BY <2>5, <2>6 DEF Undamaged
    <2>8. u = w
      BY <2>2, <2>4, <2>7 DEF FileInv, SaysTheSame
    <2> QED
      BY <1>1, <2>5, <2>6, <2>7, <2>8 DEF Undamaged
  <1> QED
    BY <1>1, <1>4, <1>5 DEF SaysTheSame

LEMMA UnforkedIsAsWritten ==
  ASSUME FileInv, Undamaged, Readable(lines), ~Forked
  PROVE  AsWritten
  <1> DEFINE Placed(i) == \E w \in written :
               SaysTheSame(lines[i], w.line) /\ w.before = SubSeq(StoredHashes, 1, i - 1)
             Astray == {i \in DOMAIN lines : ~Placed(i)}
  <1>1. DOMAIN lines = 1 .. Len(lines) /\ Len(lines) \in Nat
    BY StoredHashesOf
  <1>2. ASSUME Astray # {}
        PROVE  FALSE
    <2>1. Astray \subseteq Nat
      BY <1>1
    <2>2. PICK k \in Astray : \A j \in Astray : k <= j
      <3> HIDE DEF Astray
      <3> QED
        BY <1>2, <2>1, LeastNumber
    <2>3. k \in DOMAIN lines /\ \A j \in 1 .. k - 1 : Placed(j)
      <3>1. k \in 1 .. Len(lines)
        BY <1>1
      <3>2. ASSUME NEW j \in 1 .. k - 1
            PROVE  j \in DOMAIN lines /\ j \notin Astray
        <4>1. j \in 1 .. Len(lines) /\ ~ (k <= j)
          BY <1>1, <3>1
        <4> HIDE DEF Astray
        <4> QED
          BY <1>1, <2>2, <4>1
      <3> QED
        BY <3>2
    <2>4. Placed(k)
      BY <2>3, InOrder
    <2> QED
      BY <2>2, <2>4
  <1> QED
    BY <1>2 DEF AsWritten

LEMMA OnlyForks ==
  ASSUME FileInv
  PROVE  OnlyForksCorrupt
  BY ForkedIsCorrupted, UnforkedIsAsWritten, AsWrittenVerifies
  DEF OnlyForksCorrupt, FileInv

(* The verdict on a file, from what is known of how it was written.        *)
LEMMA VerdictHolds ==
  ASSUME FileInv
  PROVE  VerdictIsRight
  BY AsWrittenVerifies, VerifiedLines, VerifiedIsAsWritten, OnlyForks
  DEF VerdictIsRight

------------------------------------------------------------------------------
(* The lookups and the replay.                                             *)

(* find_by_cycle_id returns a line of this cycle.                          *)
LEMMA FoundLine ==
  ASSUME FileInv, NEW cycle, Has(lines, cycle)
  PROVE  \E i \in DOMAIN lines :
           /\ lines[i].receipt.cycle = cycle
           /\ find_by_cycle_id(lines, cycle) = lines[i]
  <1> DEFINE Matches == {i \in 1 .. Len(lines) : lines[i].receipt.cycle = cycle}
  <1>1. DOMAIN lines = 1 .. Len(lines) /\ Len(lines) \in Nat
    BY StoredHashesOf
  <1>2. Matches # {} /\ Matches \subseteq Nat
    BY <1>1 DEF Has
  <1>3. SelectInSeq(lines, LAMBDA line : line.receipt.cycle = cycle)
          = CHOOSE x \in Matches : \A y \in Matches : x <= y
    BY <1>2 DEF SelectInSeq, Min
  <1>4. SelectInSeq(lines, LAMBDA line : line.receipt.cycle = cycle) \in Matches
    <2>1. \E x \in Matches : \A y \in Matches : x <= y
      <3> HIDE DEF Matches
      <3> QED
        BY <1>2, LeastNumber
    <2> QED
      BY <1>3, <2>1
  <1> QED
    BY <1>1, <1>4 DEF find_by_cycle_id

LEMMA ReplayHolds ==
  ASSUME FileInv
  PROVE  ReplayAgreesWithTheChain
  <1> SUFFICES ASSUME NEW cycle \in Cycles, Readable(lines), Has(lines, cycle),
                      NEW x, x = find_by_cycle_id(lines, cycle).receipt.extension,
                      NEW verdict, verdict = replay_deterministic(lines, cycle)
               PROVE  /\ verify_store(lines) = "VALID" /\ x.kind = "trading_world"
                           => verdict = "MATCH"
                      /\ verdict = "MATCH" =>
                           /\ x.kind = "trading_world"
                           /\ \E w \in written :
                                /\ w.line.receipt.cycle = cycle
                                /\ w.line.receipt.extension.kind = x.kind
                                /\ Path(w.line.receipt.extension.params) = Path(x.params)
    BY DEF ReplayAgreesWithTheChain, SIMULATION_KIND_TRADING_WORLD
  <1>1. PICK i \in DOMAIN lines :
          lines[i].receipt.cycle = cycle /\ x = lines[i].receipt.extension
    BY FoundLine
  <1>2. PICK w \in written : ComesFrom(lines[i], w)
    BY ReadableLines
  <1>3. drawn \in Nat /\ WellWritten(w)
    BY DEF FileInv
  <1>4. w.line.receipt.extension \in {NoExtension, Evidence}
    BY <1>3, WrittenFacts
  <1>5. /\ x.kind = w.line.receipt.extension.kind
        /\ x.output_digest = w.line.receipt.extension.output_digest
        /\ x.params.acting \in Nat
        /\ w.line.receipt.cycle = cycle
    BY <1>1, <1>2, DamagedFacts DEF AllParams
  <1>6. verdict = IF x.kind # "trading_world" THEN "NOT_REPLAYABLE"
                  ELSE IF x.output_digest = 100 + x.params.acting
                  THEN "MATCH" ELSE "DIVERGENCE"
    BY DEF replay_deterministic, SIMULATION_KIND_TRADING_WORLD,
           build_simulation_extension, Digest, Path
  <1>7. ASSUME verify_store(lines) = "VALID", x.kind = "trading_world"
        PROVE  verdict = "MATCH"
    <2>1. lines[i].receipt = w.line.receipt
      BY <1>2, <1>3, <1>7, NotCorrupted, UnalteredIsWritten DEF SaysTheSame
    <2>2. x = Evidence
      BY <1>1, <1>4, <1>7, <2>1, EvidenceFacts
    <2> QED
      BY <1>6, <2>2, EvidenceFacts
  <1>8. ASSUME verdict = "MATCH"
        PROVE  /\ x.kind = "trading_world"
               /\ w.line.receipt.extension.kind = x.kind
               /\ Path(w.line.receipt.extension.params) = Path(x.params)
    <2>1. x.kind = "trading_world" /\ x.output_digest = 100 + x.params.acting
      BY <1>6, <1>8
    <2>2. /\ NoExtension.kind = "none" /\ Evidence.kind = "trading_world"
          /\ Evidence.output_digest = 101 /\ Evidence.params.acting = 1
      BY EvidenceFacts
    <2>3. w.line.receipt.extension = Evidence
      <3>1. w.line.receipt.extension.kind # "none"
        BY <1>5, <2>1
      <3> QED
        BY <1>4, <2>2, <3>1
    <2>4. x.params.acting = 1
      <3>1. x.output_digest = 101 /\ x.params.acting \in Nat
        BY <1>5, <2>2, <2>3
      <3> QED
        BY <2>1, <3>1
    <2> QED
      BY <1>5, <2>1, <2>2, <2>3, <2>4 DEF Path
  <1> QED
    BY <1>5, <1>7, <1>8

------------------------------------------------------------------------------
(* What holds while the invariant does.                                    *)

LEMMA ViewsHold ==
  ASSUME CockpitInv
  PROVE  ViewsTellTheTruth
  BY DEF CockpitInv, ScriptInv, SaysRight, ViewsTellTheTruth

LEMMA TypesHold ==
  ASSUME CockpitInv
  PROVE  TypeOK
  <1>1. drawn \in Nat /\ drawn <= MaxCycles
    <2>1. Cardinality(Built) \in Nat
      <3>1. IsFiniteSet(Built)
        BY CockpitAssumption, FS_Subset DEF Built
      <3> QED
        BY <3>1, FS_CardinalityType
    <2> QED
      BY <2>1, CockpitAssumption DEF CockpitInv, FileInv
  <1>2. ASSUME NEW w \in written
        PROVE  /\ w.line.receipt.cycle \in 1 .. drawn
               /\ w.line.receipt.authority \in {"ACT", "HOLD", "BLOCK"}
               /\ HeadOf(w.before) \in {Genesis} \cup {v.line.stored_hash : v \in written}
    <2>1. WellWritten(w)
      BY DEF CockpitInv, FileInv
    <2>2. w.before \in Seq(Hashes)
      BY <1>1, <2>1, WrittenFacts
    <2>3. HeadOf(w.before) \in {Genesis} \cup Hashes
      BY <2>2 DEF HeadOf, Last
    <2> QED
      BY <1>1, <2>1, <2>3, WrittenFacts DEF Authorities, Hashes
  <1> QED
    BY <1>1, <1>2, CockpitAssumption DEF CockpitInv, FileInv, ScriptInv, TypeOK

------------------------------------------------------------------------------
(* The steps of the file.                                                  *)

(* What stood in the file still does when a line was appended.             *)
LEMMA AppendedFile ==
  ASSUME FileInv, NEW e, lines' = Append(lines, e)
  PROVE  /\ \E S : lines' \in Seq(S)
         /\ DOMAIN lines' = 1 .. Len(lines) + 1
         /\ Len(lines') = Len(lines) + 1
         /\ lines'[Len(lines) + 1] = e
         /\ \A i \in DOMAIN lines : i \in DOMAIN lines' /\ lines'[i] = lines[i]
         /\ \A hashes, n : n \in Nat /\ ReadFrom(hashes, n) => ReadFrom(hashes, n)'
  <1>1. PICK S : lines \in Seq(S)
    BY DEF FileInv
  <1> DEFINE T == S \cup {e}
  <1>2. lines \in Seq(T) /\ lines' \in Seq(T)
    <2>1. lines \in Seq(T)
      BY <1>1
    <2> QED
      BY <2>1
  <1>3. /\ DOMAIN lines' = 1 .. Len(lines) + 1
        /\ Len(lines') = Len(lines) + 1
        /\ lines'[Len(lines) + 1] = e
        /\ \A i \in 1 .. Len(lines) : lines'[i] = lines[i]
        /\ DOMAIN lines = 1 .. Len(lines)
        /\ Len(lines) \in Nat
    BY <1>1
  <1>4. ASSUME NEW hashes, NEW n \in Nat, ReadFrom(hashes, n)
        PROVE  ReadFrom(hashes, n)'
    <2>1. n <= Len(lines) /\ hashes = SubSeq(StoredHashes, 1, n)
      BY <1>4 DEF ReadFrom
    <2>2. \A k \in 1 .. n : lines'[k] # TornLine
      BY <1>3, <1>4, <2>1 DEF ReadFrom
    <2>3. StoredHashes' = [i \in DOMAIN lines' |-> lines'[i].stored_hash]
      BY DEF StoredHashes
    <2>4. \A k \in 1 .. n : StoredHashes'[k] = StoredHashes[k]
      <3>1. \A k \in 1 .. n : k \in DOMAIN lines /\ k \in DOMAIN lines'
        BY <1>3, <2>1
      <3> QED
        BY <1>3, <2>3, <3>1 DEF StoredHashes
    <2>5. SubSeq(StoredHashes', 1, n) = SubSeq(StoredHashes, 1, n)
      BY <2>4
    <2> QED
      BY <1>3, <2>1, <2>2, <2>5 DEF ReadFrom
  <1> QED
    BY <1>2, <1>3, <1>4

LEMMA FileUnchanged ==
  ASSUME FileInv, UNCHANGED fileVars, drawn' \in {drawn, drawn + 1}
  PROVE  FileInv' /\ Hashes' = Hashes /\ \A h, n : ReadFrom(h, n) <=> ReadFrom(h, n)'
  <1>1. lines' = lines /\ damaged' = damaged /\ written' = written
    BY DEF fileVars
  <1>2. Hashes' = Hashes
    BY <1>1 DEF Hashes
  <1>3. drawn \in Nat /\ drawn' \in Nat /\ 1 .. drawn \subseteq 1 .. drawn'
    BY DEF FileInv
  <1>4. ASSUME NEW w \in written PROVE WellWritten(w)'
    BY <1>2, <1>3 DEF WellWritten, FileInv
  <1>5. \A h, n : ReadFrom(h, n) <=> ReadFrom(h, n)'
    BY <1>1 DEF ReadFrom, StoredHashes
  <1>6. Undamaged => Undamaged'
    BY <1>1, <1>5 DEF Undamaged
  <1>7. \A i \in DOMAIN lines : KnownLine(lines[i])'
    BY <1>1 DEF KnownLine, FileInv
  <1> QED
    BY <1>1, <1>2, <1>3, <1>4, <1>5, <1>6, <1>7 DEF FileInv

(* ReceiptStore.record returned, for a script that holds the head before.  *)
LEMMA FileRecords ==
  ASSUME FileInv, drawn' \in {drawn, drawn + 1}, damaged' = damaged,
         NEW cycle \in 1 .. drawn', NEW authority \in Authorities,
         NEW executed \in BOOLEAN, NEW extension \in {NoExtension, Evidence},
         NEW before \in Seq(Hashes),
         damaged = 0 => ReadFrom(before, Len(before)),
         \A w \in written : w.line.receipt.cycle # cycle,
         RecordReturns(Receipt(cycle, authority, executed, HeadOf(before), extension),
                       before)
  PROVE  FileInv' /\ Hashes \subseteq Hashes'
  <1> DEFINE receipt == Receipt(cycle, authority, executed, HeadOf(before), extension)
             wrote == [line |-> Line(receipt), before |-> before]
  <1>1. /\ Readable(lines) /\ lines' = Append(lines, Line(receipt))
        /\ written' = written \cup {wrote}
    BY DEF RecordReturns, Accepts, Writes
  <1>2. Hashes \subseteq Hashes'
    BY <1>1 DEF Hashes
  <1>3. drawn \in Nat /\ drawn' \in Nat /\ 1 .. drawn \subseteq 1 .. drawn'
    BY DEF FileInv
  <1>4. Seq(Hashes) \subseteq Seq(Hashes')
    BY <1>2
  <1>5. WellWritten(wrote)'
    BY <1>4 DEF WellWritten
  <1>6. ASSUME NEW w \in written PROVE WellWritten(w)'
    <2>1. WellWritten(w)
      BY DEF FileInv
    <2> QED
      BY <1>3, <1>4, <2>1 DEF WellWritten
  <1>7. wrote.line.receipt.cycle = cycle /\ wrote.line = Line(receipt) /\ wrote.before = before
    BY DEF Line, Receipt
  <1>8. ASSUME NEW v \in written', NEW w \in written',
               v.line.receipt.cycle = w.line.receipt.cycle
        PROVE  v = w
    BY <1>1, <1>7, <1>8 DEF FileInv
  <1>9. ComesFrom(wrote.line, wrote)
    <2>1. ASSUME TRUE
          PROVE  /\ wrote.line.receipt = Receipt(cycle, authority, executed, HeadOf(before), extension)
                 /\ wrote.line.stored_hash = wrote.line.receipt
                 /\ wrote.line = [receipt |-> wrote.line.receipt,
                                  touched_the_market |-> receipt.executed,
                                  stored_hash |-> wrote.line.stored_hash]
      BY DEF Line, Hash
    <2>2. extension = [kind |-> extension.kind, params |-> extension.params,
                       output_digest |-> extension.output_digest]
          /\ extension.params \in AllParams
      BY EvidenceFacts DEF AllParams
    <2>3. /\ receipt.cycle = cycle /\ receipt.authority = authority
          /\ receipt.executed = executed /\ receipt.extension = extension
          /\ receipt.previous_receipt_hash = HeadOf(before)
      BY DEF Receipt
    <2> HIDE DEF wrote
    <2> QED
      BY <2>1, <2>2, <2>3 DEF ComesFrom
  <1>10. ASSUME NEW i \in DOMAIN lines' PROVE KnownLine(lines[i])'
    <2>1. \A j \in DOMAIN lines : KnownLine(lines[j])'
      BY <1>1, AppendedFile DEF FileInv, KnownLine
    <2>2. i \in DOMAIN lines \/ i = Len(lines) + 1
      BY <1>1, AppendedFile, StoredHashesOf
    <2>3. lines'[Len(lines) + 1] = wrote.line
      BY <1>1, <1>7, AppendedFile
    <2>4. KnownLine(wrote.line)'
      BY <1>1, <1>9 DEF KnownLine
    <2> QED
      BY <1>1, <2>1, <2>2, <2>3, <2>4, AppendedFile
  <1>11. damaged' = 0 => Undamaged'
    <2> SUFFICES ASSUME damaged = 0 PROVE Undamaged'
      OBVIOUS
    <2>1. Undamaged /\ ReadFrom(before, Len(before))
      BY DEF FileInv
    <2> DEFINE n == Len(lines) + 1
    <2>2. /\ DOMAIN lines = 1 .. Len(lines) /\ Len(lines) \in Nat
          /\ DOMAIN lines' = 1 .. n /\ lines'[n] = wrote.line
          /\ \A i \in DOMAIN lines : i \in DOMAIN lines' /\ lines'[i] = lines[i]
      BY <1>1, <1>7, AppendedFile, StoredHashesOf
    <2>3. ASSUME NEW i \in DOMAIN lines'
          PROVE  \/ lines'[i] = TornLine
                 \/ \E w \in written' : lines'[i] = w.line /\ Len(w.before) < i
      <3>1. CASE i = n
        <4>1. Len(wrote.before) < n
          BY <1>7, <2>1, <2>2 DEF ReadFrom
        <4> QED
          BY <1>1, <2>2, <3>1, <4>1
      <3>2. CASE i # n
        <4>1. i \in DOMAIN lines
          BY <2>2, <3>2
        <4> QED
          BY <1>1, <2>1, <2>2, <4>1 DEF Undamaged
      <3> QED
        BY <3>1, <3>2
    <2>4. ASSUME NEW w \in written'
          PROVE  /\ \E i \in DOMAIN lines' : lines'[i] = w.line
                 /\ ReadFrom(w.before, Len(w.before))'
      <3>1. Len(w.before) \in Nat
        <4>1. CASE w = wrote
          BY <4>1
        <4>2. CASE w \in written
          BY <4>2 DEF FileInv, WellWritten
        <4> QED
          BY <1>1, <4>1, <4>2
      <3>2. ReadFrom(w.before, Len(w.before))
        BY <1>1, <1>7, <2>1 DEF Undamaged
      <3>3. ReadFrom(w.before, Len(w.before))'
        BY <1>1, <3>1, <3>2, AppendedFile
      <3>4. \E i \in DOMAIN lines' : lines'[i] = w.line
        <4>1. CASE w = wrote
          BY <2>2, <4>1
        <4>2. CASE w \in written
          BY <2>1, <2>2, <4>2 DEF Undamaged
        <4> QED
          BY <1>1, <4>1, <4>2
      <3> QED
        BY <3>3, <3>4
    <2>5. ASSUME NEW i \in DOMAIN lines', NEW j \in DOMAIN lines',
                 lines'[i] = lines'[j], lines'[i] # TornLine
          PROVE  i = j
      <3>1. ASSUME NEW k \in DOMAIN lines, lines[k] = wrote.line
            PROVE  FALSE
        <4>1. PICK w \in written : lines[k] = w.line
          BY <1>1, ReadableLines, <2>1 DEF Undamaged
        <4> QED
          BY <1>7, <3>1, <4>1
      <3> QED
        BY <2>1, <2>2, <2>5, <3>1 DEF Undamaged
    <2> QED
      BY <2>3, <2>4, <2>5 DEF Undamaged
  <1>12. \E S : lines' \in Seq(S)
    BY <1>1, AppendedFile
  <1>13. \A w \in written' : WellWritten(w)'
    BY <1>1, <1>5, <1>6
  <1> QED
    BY <1>2, <1>3, <1>8, <1>10, <1>11, <1>12, <1>13 DEF FileInv

(* It raised: nothing more is in the file, or half a line, unless it raised*)
(* when the line was out.                                                  *)
NotWritten ==
  /\ lines' = lines \/ lines' = Append(lines, TornLine)
  /\ written' = written

LEMMA RaisesMeans ==
  ASSUME NEW receipt, NEW before, RecordRaises(receipt, before)
  PROVE  NotWritten \/ RecordReturns(receipt, before)
  BY DEF RecordRaises, NotWritten, RecordReturns

LEMMA FileRaises ==
  ASSUME FileInv, drawn' \in {drawn, drawn + 1}, damaged' = damaged, NotWritten
  PROVE  FileInv' /\ Hashes' = Hashes
  <1>1. written' = written /\ Hashes' = Hashes
    BY DEF NotWritten, Hashes
  <1>2. CASE lines' = lines
    BY <1>1, <1>2, FileUnchanged DEF fileVars
  <1>3. CASE lines' = Append(lines, TornLine)
    <2>1. drawn \in Nat /\ drawn' \in Nat /\ 1 .. drawn \subseteq 1 .. drawn'
      BY DEF FileInv
    <2>2. \A w \in written : WellWritten(w)'
      BY <1>1, <2>1 DEF WellWritten, FileInv
    <2> DEFINE n == Len(lines) + 1
    <2>3. /\ DOMAIN lines = 1 .. Len(lines) /\ Len(lines) \in Nat
          /\ DOMAIN lines' = 1 .. n /\ lines'[n] = TornLine
          /\ \A i \in DOMAIN lines : i \in DOMAIN lines' /\ lines'[i] = lines[i]
      BY <1>3, AppendedFile, StoredHashesOf
    <2>4. \A i \in DOMAIN lines' : i = n \/ i \in DOMAIN lines
      BY <2>3
    <2>5. \A i \in DOMAIN lines' : KnownLine(lines[i])'
      BY <1>1, <2>3, <2>4 DEF FileInv, KnownLine
    <2>6. ASSUME damaged = 0 PROVE Undamaged'
      <3>1. Undamaged
        BY <2>6 DEF FileInv
      <3>2. ASSUME NEW w \in written'
            PROVE  ReadFrom(w.before, Len(w.before))'
        <4>1. Len(w.before) \in Nat
          BY <1>1 DEF FileInv, WellWritten
        <4> QED
          BY <1>1, <1>3, <3>1, <4>1, AppendedFile DEF Undamaged
      <3>3. \A i \in DOMAIN lines' :
              \/ lines'[i] = TornLine
              \/ \E w \in written' : lines'[i] = w.line /\ Len(w.before) < i
        BY <1>1, <2>3, <2>4, <3>1 DEF Undamaged
      <3>4. \A w \in written' : \E i \in DOMAIN lines' : lines'[i] = w.line
        BY <1>1, <2>3, <3>1 DEF Undamaged
      <3>5. \A i, j \in DOMAIN lines' :
              lines'[i] = lines'[j] /\ lines'[i] # TornLine => i = j
        BY <2>3, <2>4, <3>1 DEF Undamaged
      <3> QED
        BY <3>2, <3>3, <3>4, <3>5 DEF Undamaged
    <2>7. \E S : lines' \in Seq(S)
      BY <1>3, AppendedFile
    <2> QED
      BY <1>1, <2>1, <2>2, <2>5, <2>6, <2>7 DEF FileInv
  <1> QED
    BY <1>2, <1>3 DEF NotWritten

(* A line whose contents changed keeps its hash, its cycle and its digest. *)
LEMMA AlteredLine ==
  ASSUME NEW w, WellWritten(w), drawn \in Nat, NEW line, ComesFrom(line, w),
         NEW other \in Altered(line) \cup Resimulated(line)
  PROVE  ComesFrom(other, w)
  <1> DEFINE r == line.receipt
             x == line.receipt.extension
  <1>1. PICK authority \in Authorities, params \in AllParams, touched \in BOOLEAN :
          /\ line = [receipt |-> r, touched_the_market |-> touched,
                     stored_hash |-> w.line.stored_hash]
          /\ x = [kind |-> w.line.receipt.extension.kind, params |-> params,
                  output_digest |-> w.line.receipt.extension.output_digest]
          /\ r = [cycle |-> w.line.receipt.cycle, authority |-> authority,
                  executed |-> w.line.receipt.executed,
                  previous_receipt_hash |-> w.line.receipt.previous_receipt_hash,
                  extension |-> x]
    BY DEF ComesFrom, Receipt
  <1>2. CASE other = [line EXCEPT !.receipt.authority = IF @ = "ACT" THEN "HOLD" ELSE "ACT"]
    <2>1. PICK a \in Authorities : other = [line EXCEPT !.receipt.authority = a]
      BY <1>2 DEF Authorities
    <2>2. other = [receipt |-> [r EXCEPT !.authority = a], touched_the_market |-> touched,
                   stored_hash |-> w.line.stored_hash]
      BY <1>1, <2>1
    <2>3. [r EXCEPT !.authority = a] =
            Receipt(w.line.receipt.cycle, a, w.line.receipt.executed,
                    w.line.receipt.previous_receipt_hash, x)
      BY <1>1 DEF Receipt
    <2>4. /\ other.receipt = [r EXCEPT !.authority = a]
          /\ other = [receipt |-> other.receipt, touched_the_market |-> touched,
                      stored_hash |-> w.line.stored_hash]
      BY <2>2
    <2>5. other.receipt =
            Receipt(w.line.receipt.cycle, a, w.line.receipt.executed,
                    w.line.receipt.previous_receipt_hash,
                    [kind |-> w.line.receipt.extension.kind, params |-> params,
                     output_digest |-> w.line.receipt.extension.output_digest])
      BY <1>1, <2>3, <2>4
    <2> HIDE DEF r, x
    <2> QED
      BY <2>4, <2>5 DEF ComesFrom
  <1>3. CASE other = [line EXCEPT !.touched_the_market = ~@]
    <2>1. PICK t \in BOOLEAN : other = [line EXCEPT !.touched_the_market = t]
      BY <1>1, <1>3
    <2>2. other = [receipt |-> r, touched_the_market |-> t,
                   stored_hash |-> w.line.stored_hash]
      BY <1>1, <2>1
    <2>3. /\ other.receipt = r
          /\ other = [receipt |-> other.receipt, touched_the_market |-> t,
                      stored_hash |-> w.line.stored_hash]
      BY <2>2
    <2>4. r = Receipt(w.line.receipt.cycle, authority, w.line.receipt.executed,
                      w.line.receipt.previous_receipt_hash, x)
      BY <1>1 DEF Receipt
    <2> HIDE DEF r
    <2> QED
      BY <1>1, <2>3, <2>4 DEF ComesFrom
  <1>4. ASSUME NEW other_params \in AllParams,
               other = [line EXCEPT !.receipt.extension.params = other_params]
        PROVE  ComesFrom(other, w)
    <2>1. other = [receipt |-> [r EXCEPT !.extension.params = other_params],
                   touched_the_market |-> touched, stored_hash |-> w.line.stored_hash]
      BY <1>1, <1>4
    <2>2. [r EXCEPT !.extension.params = other_params] =
            Receipt(w.line.receipt.cycle, authority, w.line.receipt.executed,
                    w.line.receipt.previous_receipt_hash,
                    [kind |-> w.line.receipt.extension.kind, params |-> other_params,
                     output_digest |-> w.line.receipt.extension.output_digest])
      BY <1>1 DEF Receipt
    <2>3. other.receipt = [r EXCEPT !.extension.params = other_params]
      BY <2>1
    <2>4. other = [receipt |-> other.receipt, touched_the_market |-> touched,
                   stored_hash |-> w.line.stored_hash]
      BY <2>1
    <2> HIDE DEF r
    <2> QED
      BY <2>2, <2>3, <2>4 DEF ComesFrom
  <1>5. CASE other = [line EXCEPT !.receipt.extension.params.acting = @ + 1]
    <2>1. other = [line EXCEPT !.receipt.extension.params = [params EXCEPT !.acting = @ + 1]]
      BY <1>1, <1>5
    <2>2. [params EXCEPT !.acting = @ + 1] \in AllParams
      BY DEF AllParams
    <2> QED
      BY <1>4, <2>1, <2>2
  <1>6. CASE other = [line EXCEPT !.receipt.extension.params.idle = @ + 1]
    <2>1. other = [line EXCEPT !.receipt.extension.params = [params EXCEPT !.idle = @ + 1]]
      BY <1>1, <1>6
    <2>2. [params EXCEPT !.idle = @ + 1] \in AllParams
      BY DEF AllParams
    <2> QED
      BY <1>4, <2>1, <2>2
  <1> QED
    BY <1>2, <1>3, <1>5, <1>6 DEF Altered, Resimulated

(* Whatever the damage, every line comes from one that was written.        *)
LEMMA DamagedLines ==
  ASSUME FileInv, NEW form \in DamagedForms
  PROVE  /\ \E S : form \in Seq(S)
         /\ \A k \in DOMAIN form : KnownLine(form[k])
  <1>1. PICK S : lines \in Seq(S)
    BY DEF FileInv
  <1> DEFINE n == Len(lines)
  <1>2. n \in Nat /\ DOMAIN lines = 1 .. n /\ \A k \in 1 .. n : KnownLine(lines[k])
    BY <1>1 DEF FileInv
  <1>3. ASSUME NEW i \in 1 .. n, lines[i] # TornLine,
               NEW line \in Altered(lines[i]) \cup Resimulated(lines[i]),
               form = [lines EXCEPT ![i] = line]
        PROVE  /\ form \in Seq(S \cup {line})
               /\ \A k \in DOMAIN form : KnownLine(form[k])
    <2>1. PICK w \in written : ComesFrom(lines[i], w)
      BY <1>2, <1>3 DEF KnownLine
    <2>2. KnownLine(line)
      BY <1>3, <2>1, AlteredLine DEF KnownLine, FileInv
    <2>3. lines \in Seq(S \cup {line})
      BY <1>1
    <2>4. form \in Seq(S \cup {line})
      BY <1>3, <2>3
    <2>5. \A k \in DOMAIN form : k \in 1 .. n /\ form[k] = IF k = i THEN line ELSE lines[k]
      BY <1>2, <1>3
    <2> QED
      BY <1>2, <2>2, <2>4, <2>5
  <1>4. ASSUME NEW i \in 1 .. n, form = RemoveAt(lines, i)
        PROVE  form \in Seq(S) /\ \A k \in DOMAIN form : KnownLine(form[k])
    <2> DEFINE front == SubSeq(lines, 1, i - 1)
               back == SubSeq(lines, i + 1, n)
    <2>1. /\ front \in Seq(S) /\ Len(front) = i - 1
          /\ \A k \in 1 .. i - 1 : front[k] = lines[k]
      BY <1>1, <1>2
    <2>2. /\ back \in Seq(S) /\ Len(back) = n - i
          /\ \A k \in 1 .. n - i : back[k] = lines[k + i]
      <3>1. i \in Int /\ i + 1 \in Int /\ \A k \in i + 1 .. n : lines[k] \in S
        BY <1>1, <1>2
      <3>2. /\ back \in Seq(S)
            /\ Len(back) = IF i + 1 <= n THEN n - (i + 1) + 1 ELSE 0
            /\ \A k \in 1 .. n - (i + 1) + 1 : back[k] = lines[i + 1 + k - 1]
        BY <1>1, <1>2, <3>1
      <3>3. n - (i + 1) + 1 = n - i /\ (i + 1 <= n \/ n - i = 0)
        <4>1. n \in Nat /\ i \in 1 .. n
          BY <1>2
        <4> HIDE DEF n
        <4> QED
          BY <4>1
      <3>4. \A k \in 1 .. n - i : i + 1 + k - 1 = k + i
        BY <1>2
      <3> HIDE DEF back
      <3> QED
        BY <3>2, <3>3, <3>4
    <2>3. form = front \o back
      BY <1>4 DEF RemoveAt
    <2> HIDE DEF front, back
    <2>4. /\ form \in Seq(S) /\ Len(form) = Len(front) + Len(back)
          /\ \A k \in 1 .. Len(front) + Len(back) :
               form[k] = IF k <= Len(front) THEN front[k] ELSE back[k - Len(front)]
      BY <2>1, <2>2, <2>3, ConcatProperties
    <2>5. form \in Seq(S) /\ DOMAIN form = 1 .. n - 1
      BY <1>2, <2>1, <2>2, <2>4
    <2>6. ASSUME NEW k \in 1 .. n - 1
          PROVE  form[k] = lines[k] \/ (k + 1 \in 1 .. n /\ form[k] = lines[k + 1])
      <3>1. form[k] = IF k <= i - 1 THEN front[k] ELSE back[k - (i - 1)]
        BY <1>2, <2>1, <2>2, <2>4
      <3>2. CASE k <= i - 1
        BY <2>1, <3>1, <3>2
      <3>3. CASE ~ (k <= i - 1)
        <4>1. k - (i - 1) \in 1 .. n - i /\ k + 1 \in 1 .. n
          BY <1>2, <3>3
        <4>2. back[k - (i - 1)] = lines[k + 1]
          BY <1>2, <2>2, <4>1
        <4> QED
          BY <3>1, <3>3, <4>1, <4>2
      <3> QED
        BY <3>2, <3>3
    <2>7. \A k \in 1 .. n - 1 : k \in 1 .. n
      BY <1>2
    <2> QED
      BY <1>2, <2>5, <2>6, <2>7
  <1>5. ASSUME NEW i \in 1 .. n - 1,
               form = [lines EXCEPT ![i] = lines[i + 1], ![i + 1] = lines[i]]
        PROVE  form \in Seq(S) /\ \A k \in DOMAIN form : KnownLine(form[k])
    <2>1. i \in 1 .. n /\ i + 1 \in 1 .. n
      BY <1>2
    <2>2. DOMAIN form = 1 .. n /\ \A k \in 1 .. n :
            form[k] = IF k = i + 1 THEN lines[i] ELSE IF k = i THEN lines[i + 1] ELSE lines[k]
      BY <1>2, <1>5, <2>1
    <2>3. lines[i] \in S /\ lines[i + 1] \in S
      BY <1>1, <1>2, <2>1
    <2>4. form \in Seq(S)
      BY <1>1, <1>5, <2>3
    <2> QED
      BY <1>2, <2>1, <2>2, <2>4
  <1>6. ASSUME NEW i \in 1 .. n, form = Append(lines, lines[i])
        PROVE  form \in Seq(S) /\ \A k \in DOMAIN form : KnownLine(form[k])
    <2>1. /\ form \in Seq(S) /\ DOMAIN form = 1 .. n + 1
          /\ \A k \in 1 .. n + 1 : form[k] = IF k = n + 1 THEN lines[i] ELSE lines[k]
      BY <1>1, <1>2, <1>6
    <2>2. \A k \in 1 .. n + 1 : k # n + 1 => k \in 1 .. n
      BY <1>2
    <2> QED
      BY <1>2, <2>1, <2>2
  <1>7. \/ \E i \in {i \in 1 .. n : lines[i] # TornLine} :
             \E line \in Altered(lines[i]) \cup Resimulated(lines[i]) :
               form = [lines EXCEPT ![i] = line]
        \/ \E i \in 1 .. n : form = RemoveAt(lines, i)
        \/ \E i \in 1 .. n - 1 :
             form = [lines EXCEPT ![i] = lines[i + 1], ![i + 1] = lines[i]]
        \/ \E i \in 1 .. n : form = Append(lines, lines[i])
    <2> DEFINE Changed(i) == {[lines EXCEPT ![i] = line] : line \in Altered(lines[i])}
               Other(i) == {[lines EXCEPT ![i] = line] : line \in Resimulated(lines[i])}
               whole == {i \in 1 .. n : lines[i] # TornLine}
               simulated == {i \in whole : lines[i].receipt.extension.kind # "none"}
               swapped == {[lines EXCEPT ![i] = lines[i + 1], ![i + 1] = lines[i]] : i \in 1 .. n - 1}
               removed == {RemoveAt(lines, i) : i \in 1 .. n}
               repeated == {Append(lines, lines[i]) : i \in 1 .. n}
    <2>1. form \in (UNION {Changed(i) : i \in whole})
                     \cup (UNION {Other(i) : i \in simulated})
                     \cup removed \cup swapped \cup repeated
      BY DEF DamagedForms
    <2>2. ASSUME form \in UNION {Changed(i) : i \in whole}
          PROVE  \E i \in whole : form \in Changed(i)
      <3> HIDE DEF Changed, whole
      <3> QED
        BY <2>2
    <2>3. CASE form \in UNION {Changed(i) : i \in whole}
      BY <2>2, <2>3
    <2>8. ASSUME form \in UNION {Other(i) : i \in simulated}
          PROVE  \E i \in simulated : form \in Other(i)
      <3> HIDE DEF Other, simulated
      <3> QED
        BY <2>8
    <2>9. CASE form \in UNION {Other(i) : i \in simulated}
      BY <2>8, <2>9
    <2>4. CASE form \in removed
      BY <2>4
    <2>5. CASE form \in swapped
      <3>1. PICK i \in 1 .. n - 1 :
              form = [lines EXCEPT ![i] = lines[i + 1], ![i + 1] = lines[i]]
        BY <2>5
      <3> QED
        BY <3>1
    <2>6. CASE form \in repeated
      BY <2>6
    <2>7. \/ form \in UNION {Changed(i) : i \in whole}
          \/ form \in UNION {Other(i) : i \in simulated}
          \/ form \in removed \/ form \in swapped \/ form \in repeated
      <3> HIDE DEF Changed, Other, whole, simulated, removed, swapped, repeated
      <3> QED
        BY <2>1
    <2> QED
      BY <2>3, <2>4, <2>5, <2>6, <2>7, <2>9
  <1> QED
    BY <1>3, <1>4, <1>5, <1>6, <1>7

LEMMA FileDamaged ==
  ASSUME FileInv, Damage
  PROVE  FileInv' /\ Hashes' = Hashes
  <1>1. /\ damaged' = damaged + 1 /\ damaged < MaxDamage /\ drawn' = drawn
        /\ written' = written /\ lines' \in DamagedForms
    BY DEF Damage
  <1>2. damaged' \in 0 .. MaxDamage /\ damaged' # 0 /\ drawn' \in Nat
    BY <1>1, CockpitAssumption DEF FileInv
  <1>3. Hashes' = Hashes
    BY <1>1 DEF Hashes
  <1>4. \A w \in written : WellWritten(w)'
    BY <1>1, <1>3 DEF WellWritten, FileInv
  <1>5. (\E S : lines' \in Seq(S)) /\ \A k \in DOMAIN lines' : KnownLine(lines[k])'
    BY <1>1, DamagedLines DEF KnownLine
  <1> QED
    BY <1>1, <1>2, <1>3, <1>4, <1>5 DEF FileInv

------------------------------------------------------------------------------
(* The steps of the scripts.                                               *)

(* What a step does to the file, but for a damage, as the scripts see it:  *)
(* a line may come, of the given cycle, and what was read still stands.    *)
FileStep(cycle) ==
  /\ drawn' \in {drawn, drawn + 1}
  /\ written \subseteq written'
  /\ \A w \in written' \ written : w.line.receipt.cycle = cycle
  /\ damaged' = 0 => /\ damaged = 0
                     /\ \A h : \A n \in Nat : ReadFrom(h, n) => ReadFrom(h, n)'

(* A step of p leaves the other scripts alone.                             *)
OnlyOf(p) ==
  /\ \A q \in Scripts : q # p =>
       /\ pc'[q] = pc[q] /\ page'[q] = page[q] /\ engine'[q] = engine[q]
       /\ outcome'[q] = outcome[q] /\ view'[q] = view[q]
  /\ DOMAIN pc' = Scripts /\ DOMAIN page' = Scripts /\ DOMAIN engine' = Scripts
  /\ DOMAIN outcome' = Scripts /\ DOMAIN view' = Scripts

(* A script that did nothing, while a line of another cycle came.          *)
LEMMA OtherScript ==
  ASSUME CockpitInv, FileInv', NEW q \in Scripts, NEW cycle, FileStep(cycle),
         Active(q) => Number(q) # cycle,
         pc'[q] = pc[q], page'[q] = page[q], engine'[q] = engine[q],
         outcome'[q] = outcome[q], view'[q] = view[q]
  PROVE  ScriptInv(q)'
  <1>1. ScriptInv(q) /\ drawn \in Nat
    BY DEF CockpitInv, FileInv
  <1>2. /\ 1 .. drawn \subseteq 1 .. drawn'
        /\ Hashes \subseteq Hashes'
        /\ damaged' = 0 => damaged = 0
    BY <1>1 DEF FileStep, Hashes
  <1>3. (Active(q) <=> Active(q)') /\ Number(q)' = Number(q)
    BY DEF Active, Number
  <1>4. pc[q] \in {"built", "ran"} => HeadRead(q)'
    <2> SUFFICES ASSUME pc[q] \in {"built", "ran"} PROVE HeadRead(q)'
      OBVIOUS
    <2>1. HeadRead(q)
      BY <1>1 DEF ScriptInv
    <2>2. engine[q].head \in Seq(Hashes') /\ Len(engine[q].head) \in Nat
      BY <1>2, <2>1 DEF HeadRead
    <2> QED
      BY <2>1, <2>2 DEF HeadRead, FileStep
  <1>5. /\ Active(q)' => Number(q)' \in 1 .. drawn'
        /\ Recorded(q) => Recorded(q)'
        /\ Active(q) /\ Recorded(q)' => Recorded(q)
    BY <1>1, <1>2, <1>3 DEF ScriptInv, Recorded, FileStep, Number
  <1>6. \A w \in written' : Active(q) /\ w.line.receipt.cycle = Number(q) => w \in written
    BY DEF FileStep
  <1>7. pc'[q] = "ran" =>
          /\ outcome'[q] = Outcome(engine'[q].spec, ReceiptOf(q, Number(q))', "PROVEN")
          /\ \A w \in written' : w.line.receipt.cycle # Number(q)'
    BY <1>1, <1>3, <1>6 DEF ScriptInv, Active, ReceiptOf, Number
  <1>8. pc'[q] \in {"returned", "verified"} =>
          \A w \in written' : w.line.receipt.cycle = Number(q)' =>
            w.line.receipt = outcome'[q].receipt
    BY <1>1, <1>3, <1>6 DEF ScriptInv, Active
  <1>9. pc'[q] = "verified" =>
          /\ view'[q].shows = "partly"
          /\ view'[q] = [shows |-> "partly", outcome |-> outcome'[q],
               persisted |-> view'[q].persisted, raw |-> view'[q].raw,
               chain_integrity |-> view'[q].chain_integrity, audit |-> view'[q].audit]
          /\ damaged' = 0 =>
               /\ view'[q].persisted <=> Recorded(q)'
               /\ SaysRight(view'[q])
    BY <1>1, <1>2, <1>5 DEF ScriptInv, Active
  <1>10. view'[q].shows = "cycle" /\ damaged' = 0 =>
           SaysRight(view'[q]) /\ view'[q].audit = view'[q].raw
    BY <1>1, <1>2 DEF ScriptInv
  <1>11. pc'[q] = "returned" /\ outcome'[q].proof = "PROVEN" => Recorded(q)'
    BY <1>1, <1>5 DEF ScriptInv
  <1>12. /\ pc'[q] \in {"idle", "built", "ran", "returned", "verified"}
         /\ page'[q] \in {"none", "cockpit", "comparison"}
         /\ engine'[q].spec \in SCENARIOS
         /\ view'[q].shows \in Readings
    BY <1>1 DEF ScriptInv
  <1> QED
    BY <1>4, <1>5, <1>7, <1>8, <1>9, <1>10, <1>11, <1>12 DEF ScriptInv

(* A step of p keeps the invariant if it keeps the file's and p's, and the *)
(* numbers of the cycles apart and in their bound.                         *)
LEMMA ScriptStep ==
  ASSUME CockpitInv, FileInv', NEW p \in Scripts, NEW cycle, FileStep(cycle),
         OnlyOf(p), ScriptInv(p)',
         \A q \in Scripts : q # p /\ Active(q) =>
           /\ Number(q) # cycle
           /\ Active(p)' => Number(q) # Number(p)',
         kept' \subseteq 1 .. drawn',
         drawn' + Cardinality(Built') <= MaxCycles
  PROVE  CockpitInv'
  <1>1. \A q \in Scripts : q # p => ScriptInv(q)'
    BY OtherScript DEF OnlyOf
  <1>2. \A q \in Scripts : q # p => (Active(q) <=> Active(q)') /\ Number(q)' = Number(q)
    BY DEF OnlyOf, Active, Number
  <1>3. \A q, r \in Scripts :
          Active(q)' /\ Active(r)' /\ Number(q)' = Number(r)' => q = r
    BY <1>2 DEF CockpitInv
  <1> QED
    BY <1>1, <1>3 DEF CockpitInv, OnlyOf

(* Which engines are built, and that they are few enough.                  *)
LEMMA BuiltCount ==
  ASSUME NEW p \in Scripts, CockpitInv, OnlyOf(p)
  PROVE  /\ Cardinality(Built) \in Nat
         /\ pc'[p] # "built" /\ pc[p] # "built" => Built' = Built
         /\ pc'[p] # "built" /\ pc[p] = "built" =>
              Cardinality(Built') = Cardinality(Built) - 1
         /\ pc'[p] = "built" /\ pc[p] # "built" =>
              Cardinality(Built') = Cardinality(Built) + 1
  <1>1. IsFiniteSet(Built)
    BY CockpitAssumption, FS_Subset DEF Built
  <1>2. Cardinality(Built) \in Nat
    BY <1>1, FS_CardinalityType
  <1>3. pc'[p] # "built" => Built' = Built \ {p}
    BY DEF Built, OnlyOf
  <1>4. pc'[p] = "built" => Built' = Built \cup {p}
    BY DEF Built, OnlyOf
  <1>5. pc[p] = "built" <=> p \in Built
    BY DEF Built
  <1>6. pc'[p] # "built" /\ pc[p] = "built" =>
          Cardinality(Built') = Cardinality(Built) - 1
    BY <1>1, <1>3, <1>5, FS_RemoveElement
  <1>7. pc'[p] = "built" /\ pc[p] # "built" =>
          Cardinality(Built') = Cardinality(Built) + 1
    BY <1>1, <1>4, <1>5, FS_AddElement
  <1>8. pc'[p] # "built" /\ pc[p] # "built" => Built' = Built
    BY <1>3, <1>5
  <1> QED
    BY <1>2, <1>6, <1>7, <1>8

LEMMA ScenarioFacts ==
  ASSUME NEW s \in SCENARIOS
  PROVE  /\ s.verdict \in Authorities
         /\ s.submit_fails \in BOOLEAN /\ Permitted(s) \in BOOLEAN
  <1>1. \/ s = Spec("native_act_paper_success", "native", "ACT", FALSE, FALSE, TRUE)
        \/ s = Spec("native_hold", "native", "HOLD", FALSE, FALSE, FALSE)
        \/ s = Spec("native_block", "native", "BLOCK", FALSE, FALSE, FALSE)
        \/ s = Spec("act_binder_refuses", "native", "ACT", TRUE, FALSE, FALSE)
        \/ s = Spec("broker_failure", "native", "ACT", FALSE, TRUE, FALSE)
        \/ s = Spec("external_act", "external", "ACT", FALSE, FALSE, TRUE)
        \/ s = Spec("external_block", "external", "BLOCK", FALSE, FALSE, FALSE)
    BY DEF SCENARIOS
  <1>2. ASSUME NEW key, NEW mode, NEW verdict \in Authorities,
               NEW blocked \in BOOLEAN, NEW fails \in BOOLEAN, NEW attach,
               s = Spec(key, mode, verdict, blocked, fails, attach)
        PROVE  /\ s.verdict \in Authorities
               /\ s.submit_fails \in BOOLEAN /\ Permitted(s) \in BOOLEAN
    <2>1. s.verdict = verdict /\ s.submit_fails = fails /\ s.trading_blocked = blocked
      BY <1>2 DEF Spec
    <2> QED
      BY <2>1 DEF Permitted
  <1> QED
    BY <1>1, <1>2 DEF Authorities

LEMMA ScenarioByKey ==
  ASSUME NEW key \in Offered
  PROVE  scenario_by_key(key) \in SCENARIOS
  BY OfferedAssumption DEF scenario_by_key

LEMMA NoEngineRuns == NoEngine.spec \in SCENARIOS
  <1>1. Spec("native_hold", "native", "HOLD", FALSE, FALSE, FALSE) \in SCENARIOS
    BY DEF SCENARIOS
  <1>2. Spec("native_hold", "native", "HOLD", FALSE, FALSE, FALSE).key = "native_hold"
    BY DEF Spec
  <1> QED
    BY <1>1, <1>2 DEF NoEngine, scenario_by_key

(* What ReceiptOf builds, and the simulation put into it.                  *)
LEMMA ReceiptFacts ==
  ASSUME NEW p \in Scripts, engine[p].spec \in SCENARIOS, NEW cycle
  PROVE  \E authority \in Authorities, executed \in BOOLEAN :
           /\ ReceiptOf(p, cycle) =
                Receipt(cycle, authority, executed, HeadOf(engine[p].head), NoExtension)
           /\ [ReceiptOf(p, cycle) EXCEPT !.extension = Evidence] =
                Receipt(cycle, authority, executed, HeadOf(engine[p].head), Evidence)
  <1> DEFINE s == engine[p].spec
             executed == Permitted(s) /\ ~s.submit_fails
  <1>1. s.verdict \in Authorities /\ executed \in BOOLEAN
    BY ScenarioFacts
  <1>2. ReceiptOf(p, cycle) =
          Receipt(cycle, s.verdict, executed, HeadOf(engine[p].head), NoExtension)
    BY DEF ReceiptOf
  <1>3. [ReceiptOf(p, cycle) EXCEPT !.extension = Evidence] =
          Receipt(cycle, s.verdict, executed, HeadOf(engine[p].head), Evidence)
    BY <1>2 DEF Receipt
  <1> QED
    BY <1>1, <1>2, <1>3

LEMMA ReceiptCycle ==
  ASSUME NEW c, NEW a, NEW e, NEW h, NEW x
  PROVE  Receipt(c, a, e, h, x).cycle = c /\ Receipt(c, a, e, h, x).executed = e
  BY DEF Receipt

LEMMA NothingWritten ==
  ASSUME FileInv, UNCHANGED fileVars, drawn' \in {drawn, drawn + 1}, NEW cycle
  PROVE  FileInv' /\ FileStep(cycle)
  <1>1. damaged' = damaged /\ written' = written
    BY DEF fileVars
  <1> QED
    BY <1>1, FileUnchanged DEF FileStep

LEMMA NumbersFromOne ==
  ASSUME CockpitInv
  PROVE  drawn \in Nat /\ \A q \in Scripts : Active(q) => Number(q) # 0
  BY DEF CockpitInv, FileInv, ScriptInv

(* A script at rest, with nothing said of a cycle.                         *)
LEMMA AtRest ==
  ASSUME NEW p, pc'[p] = "idle", page'[p] \in {"none", "cockpit", "comparison"},
         engine'[p].spec \in SCENARIOS, view'[p].shows \in Readings \ {"cycle"}
  PROVE  ScriptInv(p)'
  BY DEF ScriptInv, Active

LEMMA RaisesInThePageStep ==
  ASSUME CockpitInv, NEW p \in Scripts, RaisesInThePage(p)
  PROVE  OnlyOf(p) /\ ScriptInv(p)' /\ pc'[p] = "idle" /\ ~Active(p)'
  <1>1. /\ pc' = [pc EXCEPT ![p] = "idle"]
        /\ page' = [page EXCEPT ![p] = "none"]
        /\ engine' = [engine EXCEPT ![p] = NoEngine]
        /\ outcome' = [outcome EXCEPT ![p] = NoOutcome]
        /\ view' = [view EXCEPT ![p] = [shows |-> "error"]]
    BY DEF RaisesInThePage
  <1>2. OnlyOf(p)
    BY <1>1 DEF CockpitInv, OnlyOf
  <1>3. /\ pc'[p] = "idle" /\ page'[p] = "none" /\ engine'[p] = NoEngine
        /\ view'[p].shows = "error"
    BY <1>1 DEF CockpitInv
  <1> QED
    BY <1>2, <1>3, AtRest, NoEngineRuns DEF Readings, Active

(* What an engine reads of the whole file.                                 *)
LEMMA ReadsTheFile ==
  ASSUME FileInv, Readable(lines)
  PROVE  StoredHashes \in Seq(Hashes) /\ ReadFrom(StoredHashes, Len(StoredHashes))
  <1>1. PICK T : StoredHashes \in Seq(T)
    BY StoredHashesOf
  <1>2. /\ DOMAIN lines = 1 .. Len(lines) /\ Len(lines) \in Nat
        /\ Len(StoredHashes) = Len(lines)
        /\ \A i \in 1 .. Len(lines) : StoredHashes[i] = lines[i].stored_hash
    BY StoredHashesOf
  <1>3. \A i \in 1 .. Len(lines) : lines[i] # TornLine /\ StoredHashes[i] \in Hashes
    <2> SUFFICES ASSUME NEW i \in 1 .. Len(lines)
                 PROVE  lines[i] # TornLine /\ StoredHashes[i] \in Hashes
      OBVIOUS
    <2>1. i \in DOMAIN lines /\ lines[i] # TornLine
      BY <1>2, ReadableLines
    <2>2. PICK w \in written : ComesFrom(lines[i], w)
      BY <2>1, ReadableLines
    <2>3. lines[i].stored_hash = w.line.stored_hash
      BY <2>2, DamagedFacts
    <2> QED
      BY <1>2, <2>1, <2>3 DEF Hashes
  <1>4. StoredHashes \in Seq(Hashes)
    BY <1>1, <1>2, <1>3
  <1>5. SubSeq(StoredHashes, 1, Len(StoredHashes)) = StoredHashes
    BY <1>4, SubSeqFull
  <1> QED
    BY <1>2, <1>3, <1>4, <1>5 DEF ReadFrom

LEMMA BuildStep ==
  ASSUME CockpitInv, NEW p \in Scripts, NEW key, NEW on \in {"cockpit", "comparison"},
         BuildEngine(p, key, on)
  PROVE  CockpitInv'
  <1>1. /\ pc[p] = "idle" /\ key \in Offered
        /\ drawn + Cardinality(Built) < MaxCycles
        /\ UNCHANGED fileVars /\ drawn' = drawn /\ kept' = kept
    BY DEF BuildEngine, Built
  <1>2. FileInv /\ FileInv' /\ FileStep(0) /\ drawn \in Nat
    BY <1>1, NothingWritten DEF CockpitInv, FileInv
  <1>3. \A q \in Scripts : Active(q) => Number(q) # 0
    BY <1>2 DEF CockpitInv, ScriptInv
  <1>4. CASE Readable(lines)
    <2>1. /\ pc' = [pc EXCEPT ![p] = "built"]
          /\ page' = [page EXCEPT ![p] = on]
          /\ engine' = [engine EXCEPT ![p] =
               [spec |-> scenario_by_key(key), head |-> StoredHashes]]
          /\ view' = [view EXCEPT ![p] = Blank]
          /\ outcome' = outcome
      BY <1>4 DEF BuildEngine
    <2>2. OnlyOf(p)
      BY <2>1 DEF CockpitInv, OnlyOf
    <2>3. /\ pc'[p] = "built" /\ page'[p] = on
          /\ engine'[p].spec = scenario_by_key(key) /\ engine'[p].head = StoredHashes
          /\ view'[p].shows = "nothing"
      BY <2>1 DEF CockpitInv, Blank
    <2>4. HeadRead(p)'
      <3>1. PICK head : head = StoredHashes
        OBVIOUS
      <3>2. head \in Seq(Hashes) /\ ReadFrom(head, Len(head))
        BY <1>2, <1>4, <3>1, ReadsTheFile
      <3>3. Hashes' = Hashes /\ ReadFrom(head, Len(head))'
        BY <1>1, <1>2, <3>2, FileUnchanged
      <3>4. engine'[p].head = head
        BY <2>3, <3>1
      <3> QED
        BY <3>2, <3>3, <3>4 DEF HeadRead
    <2>5. ScriptInv(p)'
      BY <1>1, <2>3, <2>4, ScenarioByKey DEF ScriptInv, Active, Readings
    <2>6. Cardinality(Built') = Cardinality(Built) + 1 /\ Cardinality(Built) \in Nat
      BY <1>1, <2>2, <2>3, BuiltCount
    <2>7. drawn' + Cardinality(Built') <= MaxCycles
      BY <1>1, <1>2, <2>6, CockpitAssumption
    <2> QED
      BY <1>1, <1>2, <1>3, <2>2, <2>3, <2>5, <2>7, ScriptStep DEF CockpitInv, Active
  <1>5. CASE ~Readable(lines)
    <2>1. RaisesInThePage(p)
      BY <1>5 DEF BuildEngine
    <2>2. OnlyOf(p) /\ ScriptInv(p)' /\ pc'[p] = "idle" /\ ~Active(p)'
      BY <2>1, RaisesInThePageStep
    <2>3. Built' = Built
      BY <1>1, <2>2, BuiltCount
    <2> QED
      BY <1>1, <1>2, <1>3, <2>2, <2>3, ScriptStep DEF CockpitInv
  <1> QED
    BY <1>4, <1>5

LEMMA LiveRejectionStep ==
  ASSUME CockpitInv, NEW p \in Scripts, DrawLiveRejection(p)
  PROVE  CockpitInv'
  <1>1. /\ pc[p] = "idle" /\ view' = [view EXCEPT ![p] = [shows |-> "refused"]]
        /\ UNCHANGED fileVars /\ UNCHANGED <<drawn, pc, page, engine, outcome, kept>>
    BY DEF DrawLiveRejection
  <1>2. FileInv' /\ FileStep(0) /\ drawn \in Nat
    BY <1>1, NothingWritten DEF CockpitInv, FileInv
  <1>3. \A q \in Scripts : Active(q) => Number(q) # 0
    BY <1>2 DEF CockpitInv, ScriptInv
  <1>4. OnlyOf(p) /\ pc'[p] = "idle" /\ view'[p].shows = "refused"
    BY <1>1 DEF CockpitInv, OnlyOf
  <1>5. ScriptInv(p)'
    BY <1>1, <1>4, AtRest DEF CockpitInv, ScriptInv, Readings
  <1>6. Built' = Built
    BY <1>1, <1>4, BuiltCount
  <1> QED
    BY <1>1, <1>2, <1>3, <1>4, <1>5, <1>6, ScriptStep DEF CockpitInv, Active

LEMMA ReplayStep ==
  ASSUME CockpitInv, NEW p \in Scripts, Replay(p)
  PROVE  CockpitInv'
  <1>1. /\ pc[p] = "idle"
        /\ UNCHANGED fileVars /\ UNCHANGED <<drawn, pc, page, engine, outcome, kept>>
        /\ \E shown : shown.shows \in {"replay", "error"} /\ view' = [view EXCEPT ![p] = shown]
    <2>1. PICK cycle \in kept :
            view' = [view EXCEPT ![p] =
              IF Readable(lines)
              THEN [shows |-> "replay", cycle |-> cycle, found |-> Has(lines, cycle),
                    verdict |-> replay_deterministic(lines, cycle)]
              ELSE [shows |-> "error"]]
      BY DEF Replay
    <2> DEFINE told == [shows |-> "replay", cycle |-> cycle, found |-> Has(lines, cycle),
                        verdict |-> replay_deterministic(lines, cycle)]
               error == [shows |-> "error"]
    <2>2. told.shows = "replay" /\ error.shows = "error"
      OBVIOUS
    <2>3. /\ pc[p] = "idle" /\ UNCHANGED fileVars
          /\ UNCHANGED <<drawn, pc, page, engine, outcome, kept>>
      BY DEF Replay
    <2>4. view' = [view EXCEPT ![p] = told] \/ view' = [view EXCEPT ![p] = error]
      BY <2>1
    <2> HIDE DEF told, error
    <2> QED
      BY <2>2, <2>3, <2>4
  <1>2. FileInv' /\ FileStep(0) /\ drawn \in Nat
    BY <1>1, NothingWritten DEF CockpitInv, FileInv
  <1>3. \A q \in Scripts : Active(q) => Number(q) # 0
    BY <1>2 DEF CockpitInv, ScriptInv
  <1>4. OnlyOf(p) /\ pc'[p] = "idle" /\ view'[p].shows \in {"replay", "error"}
    BY <1>1 DEF CockpitInv, OnlyOf
  <1>5. ScriptInv(p)'
    BY <1>1, <1>4, AtRest DEF CockpitInv, ScriptInv, Readings
  <1>6. Built' = Built
    BY <1>1, <1>4, BuiltCount
  <1> QED
    BY <1>1, <1>2, <1>3, <1>4, <1>5, <1>6, ScriptStep DEF CockpitInv, Active

LEMMA FreshNumber ==
  ASSUME CockpitInv
  PROVE  /\ drawn \in Nat /\ drawn + 1 \in 1 .. drawn + 1
         /\ \A w \in written : w.line.receipt.cycle # drawn + 1
         /\ \A q \in Scripts : Active(q) => Number(q) # drawn + 1
  <1>1. drawn \in Nat
    BY DEF CockpitInv, FileInv
  <1>2. \A w \in written : w.line.receipt.cycle \in 1 .. drawn
    BY <1>1, WrittenFacts DEF CockpitInv, FileInv
  <1>3. \A q \in Scripts : Active(q) => Number(q) \in 1 .. drawn
    BY DEF CockpitInv, ScriptInv
  <1> QED
    BY <1>1, <1>2, <1>3

LEMMA DeferredStep ==
  ASSUME CockpitInv, NEW p \in Scripts, RunCycleDeferred(p)
  PROVE  CockpitInv'
  <1> DEFINE receipt == ReceiptOf(p, drawn + 1)
             result == Outcome(engine[p].spec, receipt, "PROVEN")
  <1>1. /\ pc[p] = "built" /\ pc' = [pc EXCEPT ![p] = "ran"]
        /\ outcome' = [outcome EXCEPT ![p] = result]
        /\ drawn' = drawn + 1
        /\ UNCHANGED fileVars /\ UNCHANGED <<page, engine, view, kept>>
    BY DEF RunCycleDeferred
  <1>2. FileInv' /\ FileStep(0) /\ Hashes' = Hashes /\ written' = written /\ damaged' = damaged
    BY <1>1, NothingWritten, FileUnchanged DEF CockpitInv, fileVars
  <1>3. OnlyOf(p) /\ pc'[p] = "ran" /\ outcome'[p] = result
    BY <1>1 DEF CockpitInv, OnlyOf
  <1>4. ScriptInv(p)
    BY DEF CockpitInv
  <1>5. receipt.cycle = drawn + 1 /\ result.receipt = receipt
    <2>1. engine[p].spec \in SCENARIOS
      BY <1>4 DEF ScriptInv
    <2>2. PICK authority \in Authorities, executed \in BOOLEAN :
            receipt = Receipt(drawn + 1, authority, executed, HeadOf(engine[p].head), NoExtension)
      BY <2>1, ReceiptFacts
    <2>3. receipt.cycle = drawn + 1
      BY <2>2, ReceiptCycle
    <2> HIDE DEF receipt
    <2> QED
      BY <2>3 DEF Outcome
  <1>6. Number(p)' = drawn + 1
    BY <1>3, <1>5 DEF Number
  <1>7. HeadRead(p)'
    <2>1. HeadRead(p) /\ engine' = engine
      BY <1>1, <1>4 DEF ScriptInv
    <2>2. PICK head : head = engine[p].head
      OBVIOUS
    <2>3. ReadFrom(head, Len(head)) => ReadFrom(head, Len(head))'
      BY <1>1, FileUnchanged DEF CockpitInv
    <2>4. engine'[p].head = head
      BY <2>1, <2>2
    <2> QED
      BY <1>2, <2>1, <2>2, <2>3, <2>4 DEF HeadRead
  <1>8. outcome'[p] = Outcome(engine'[p].spec, ReceiptOf(p, Number(p))', "PROVEN")
    BY <1>1, <1>3, <1>6 DEF ReceiptOf
  <1>9. ScriptInv(p)'
    <2>1. view'[p].shows = "cycle" /\ damaged' = 0 =>
            SaysRight(view'[p]) /\ view'[p].audit = view'[p].raw
      BY <1>1, <1>2, <1>4 DEF ScriptInv
    <2>2. /\ Number(p)' \in 1 .. drawn'
          /\ \A w \in written' : w.line.receipt.cycle # Number(p)'
      BY <1>1, <1>2, <1>6, FreshNumber
    <2>3. /\ page'[p] \in {"none", "cockpit", "comparison"}
          /\ engine'[p].spec \in SCENARIOS
          /\ view'[p].shows \in Readings
      BY <1>1, <1>4 DEF ScriptInv
    <2> QED
      BY <1>3, <1>7, <1>8, <2>1, <2>2, <2>3 DEF ScriptInv
  <1>10. \A q \in Scripts : Active(q) => Number(q) # 0 /\ Number(q) # Number(p)'
    BY <1>6, FreshNumber DEF CockpitInv, ScriptInv
  <1>11. kept' \subseteq 1 .. drawn'
    BY <1>1, FreshNumber DEF CockpitInv
  <1>12. drawn' + Cardinality(Built') <= MaxCycles
    <2>1. Cardinality(Built') = Cardinality(Built) - 1 /\ Cardinality(Built) \in Nat
      BY <1>1, <1>3, BuiltCount
    <2> QED
      BY <1>1, <2>1, FreshNumber, CockpitAssumption DEF CockpitInv
  <1> QED
    BY <1>2, <1>3, <1>9, <1>10, <1>11, <1>12, ScriptStep

(* The outcome a run returns: what is written of its cycle is its receipt. *)
LEMMA ReturnedScript ==
  ASSUME CockpitInv, FileInv', NEW p \in Scripts, NEW result, NEW cycle,
         Returns(p, result), page' = page, view' = view, damaged' = damaged,
         result.receipt.cycle = cycle, cycle \in 1 .. drawn',
         \A w \in written' : w.line.receipt.cycle = cycle =>
           w.line.receipt = result.receipt,
         result.proof = "PROVEN" =>
           \E w \in written' : w.line.receipt = result.receipt
  PROVE  OnlyOf(p) /\ ScriptInv(p)' /\ pc'[p] = "returned" /\ Number(p)' = cycle
  <1>1. /\ pc' = [pc EXCEPT ![p] = "returned"]
        /\ engine' = [engine EXCEPT ![p] = NoEngine]
        /\ outcome' = [outcome EXCEPT ![p] = result]
    BY DEF Returns
  <1>2. OnlyOf(p)
    BY <1>1 DEF CockpitInv, OnlyOf
  <1>3. pc'[p] = "returned" /\ engine'[p] = NoEngine /\ outcome'[p] = result
    BY <1>1 DEF CockpitInv
  <1>4. Number(p)' = cycle
    BY <1>3 DEF Number
  <1>5. /\ page'[p] \in {"none", "cockpit", "comparison"}
        /\ view'[p].shows \in Readings
        /\ view'[p].shows = "cycle" /\ damaged' = 0 =>
             SaysRight(view'[p]) /\ view'[p].audit = view'[p].raw
    BY DEF CockpitInv, ScriptInv
  <1>6. engine'[p].spec \in SCENARIOS
    BY <1>3, NoEngineRuns
  <1> QED
    BY <1>2, <1>3, <1>4, <1>5, <1>6 DEF ScriptInv, Recorded

(* A record of p, whose engine read before and whose cycle is not written. *)
LEMMA RecordStep ==
  ASSUME CockpitInv, NEW p \in Scripts, HeadRead(p),
         drawn' \in {drawn, drawn + 1}, damaged' = damaged,
         NEW cycle \in 1 .. drawn', \A w \in written : w.line.receipt.cycle # cycle,
         NEW authority \in Authorities, NEW executed \in BOOLEAN,
         NEW extension \in {NoExtension, Evidence}, NEW receipt,
         receipt = Receipt(cycle, authority, executed, HeadOf(engine[p].head), extension),
         RecordReturns(receipt, engine[p].head)
  PROVE  /\ FileInv' /\ FileStep(cycle)
         /\ \A w \in written' : w.line.receipt.cycle = cycle => w.line.receipt = receipt
         /\ \E w \in written' : w.line.receipt = receipt
  <1>1. FileInv /\ engine[p].head \in Seq(Hashes)
        /\ (damaged = 0 => ReadFrom(engine[p].head, Len(engine[p].head)))
    BY DEF CockpitInv, HeadRead
  <1>2. FileInv'
    BY <1>1, FileRecords
  <1>3. /\ lines' = Append(lines, Line(receipt))
        /\ written' = written \cup {[line |-> Line(receipt), before |-> engine[p].head]}
    BY DEF RecordReturns, Writes
  <1>4. [line |-> Line(receipt), before |-> engine[p].head].line.receipt = receipt
    BY DEF Line
  <1>5. receipt.cycle = cycle
    BY ReceiptCycle
  <1>6. \A h : \A n \in Nat : ReadFrom(h, n) => ReadFrom(h, n)'
    BY <1>1, <1>3, AppendedFile
  <1>7. FileStep(cycle)
    BY <1>3, <1>4, <1>5, <1>6 DEF FileStep
  <1> QED
    BY <1>2, <1>3, <1>4, <1>5, <1>7

LEMMA NotWrittenStep ==
  ASSUME CockpitInv, drawn' \in {drawn, drawn + 1}, damaged' = damaged,
         NEW cycle, NotWritten
  PROVE  FileInv' /\ FileStep(cycle) /\ written' = written
  <1>1. FileInv /\ FileInv' /\ written' = written
    BY FileRaises DEF CockpitInv, NotWritten
  <1>2. \A h : \A n \in Nat : ReadFrom(h, n) => ReadFrom(h, n)'
    <2>1. CASE lines' = lines
      BY <2>1 DEF ReadFrom, StoredHashes
    <2>2. CASE lines' = Append(lines, TornLine)
      BY <1>1, <2>2, AppendedFile
    <2> QED
      BY <2>1, <2>2 DEF NotWritten
  <1> QED
    BY <1>1, <1>2 DEF FileStep

(* A record of p that raises, with or without its line.                    *)
LEMMA RaisesStep ==
  ASSUME CockpitInv, NEW p \in Scripts, HeadRead(p),
         drawn' \in {drawn, drawn + 1}, damaged' = damaged,
         NEW cycle \in 1 .. drawn', \A w \in written : w.line.receipt.cycle # cycle,
         NEW authority \in Authorities, NEW executed \in BOOLEAN,
         NEW extension \in {NoExtension, Evidence}, NEW receipt,
         receipt = Receipt(cycle, authority, executed, HeadOf(engine[p].head), extension),
         RecordRaises(receipt, engine[p].head)
  PROVE  /\ FileInv' /\ FileStep(cycle)
         /\ \A w \in written' : w.line.receipt.cycle = cycle => w.line.receipt = receipt
  <1>1. CASE NotWritten
    BY <1>1, NotWrittenStep
  <1>2. CASE RecordReturns(receipt, engine[p].head)
    BY <1>2, RecordStep
  <1> QED
    BY <1>1, <1>2, RaisesMeans

LEMMA RunStep ==
  ASSUME CockpitInv, NEW p \in Scripts, RunCycle(p)
  PROVE  CockpitInv'
  <1> DEFINE receipt == ReceiptOf(p, drawn + 1)
             s == engine[p].spec
             proven == Outcome(s, receipt, "PROVEN")
             missed == Outcome(s, receipt, Incomplete(receipt))
  <1>1. /\ pc[p] = "built" /\ drawn' = drawn + 1
        /\ damaged' = damaged /\ page' = page /\ view' = view /\ kept' = kept
        /\ \/ RecordReturns(receipt, engine[p].head) /\ Returns(p, proven)
           \/ RecordRaises(receipt, engine[p].head) /\ Returns(p, missed)
    BY DEF RunCycle
  <1>2. s \in SCENARIOS /\ HeadRead(p)
    BY <1>1 DEF CockpitInv, ScriptInv
  <1>3. PICK authority \in Authorities, executed \in BOOLEAN :
          receipt = Receipt(drawn + 1, authority, executed, HeadOf(engine[p].head), NoExtension)
    BY <1>2, ReceiptFacts
  <1>4. receipt.cycle = drawn + 1
    BY <1>3, ReceiptCycle
  <1>5. /\ proven.receipt = receipt /\ proven.proof = "PROVEN"
        /\ missed.receipt = receipt /\ missed.proof # "PROVEN"
    BY DEF Outcome, Incomplete
  <1>6. /\ drawn \in Nat /\ drawn + 1 \in 1 .. drawn'
        /\ \A w \in written : w.line.receipt.cycle # drawn + 1
        /\ \A q \in Scripts : Active(q) => Number(q) # drawn + 1
    BY <1>1, FreshNumber
  <1>7. /\ FileInv' /\ FileStep(drawn + 1)
        /\ OnlyOf(p) /\ ScriptInv(p)' /\ pc'[p] = "returned" /\ Number(p)' = drawn + 1
    <2>1. CASE RecordReturns(receipt, engine[p].head) /\ Returns(p, proven)
      <3>1. /\ FileInv' /\ FileStep(drawn + 1)
            /\ \A w \in written' : w.line.receipt.cycle = drawn + 1 => w.line.receipt = receipt
            /\ \E w \in written' : w.line.receipt = receipt
        <4> HIDE DEF receipt
        <4> QED
          BY <1>1, <1>2, <1>3, <1>6, <2>1, RecordStep
      <3> HIDE DEF receipt, proven, missed
      <3> QED
        BY <1>1, <1>4, <1>5, <1>6, <2>1, <3>1, ReturnedScript
    <2>2. CASE RecordRaises(receipt, engine[p].head) /\ Returns(p, missed)
      <3>1. /\ FileInv' /\ FileStep(drawn + 1)
            /\ \A w \in written' : w.line.receipt.cycle = drawn + 1 => w.line.receipt = receipt
        <4> HIDE DEF receipt
        <4> QED
          BY <1>1, <1>2, <1>3, <1>6, <2>2, RaisesStep
      <3> HIDE DEF receipt, proven, missed
      <3> QED
        BY <1>1, <1>4, <1>5, <1>6, <2>2, <3>1, ReturnedScript
    <2> QED
      BY <1>1, <2>1, <2>2
  <1>8. kept' \subseteq 1 .. drawn'
    BY <1>1, <1>6 DEF CockpitInv
  <1>9. drawn' + Cardinality(Built') <= MaxCycles
    <2>1. Cardinality(Built') = Cardinality(Built) - 1 /\ Cardinality(Built) \in Nat
      BY <1>1, <1>7, BuiltCount
    <2> QED
      BY <1>1, <1>6, <2>1, CockpitAssumption DEF CockpitInv
  <1> QED
    BY <1>6, <1>7, <1>8, <1>9, ScriptStep

LEMMA AttachStep ==
  ASSUME CockpitInv, NEW p \in Scripts, AttachSimulation(p)
  PROVE  CockpitInv'
  <1> DEFINE s == engine[p].spec
             receipt == Attached(p)
             result == Outcome(s, receipt, "PROVEN")
             number == Number(p)
  <1>1. /\ pc[p] = "ran" /\ damaged' = damaged /\ drawn' = drawn /\ kept' = kept
        /\ \/ /\ RecordReturns(receipt, engine[p].head) /\ Returns(p, result)
              /\ page' = page /\ view' = view
           \/ RecordRaises(receipt, engine[p].head) /\ RaisesInThePage(p)
    BY DEF AttachSimulation
  <1>2. /\ s \in SCENARIOS /\ HeadRead(p) /\ number \in 1 .. drawn
        /\ \A w \in written : w.line.receipt.cycle # number
        /\ outcome[p].receipt = ReceiptOf(p, number)
    BY <1>1 DEF CockpitInv, ScriptInv, Active, Outcome
  <1>3. PICK authority \in Authorities, executed \in BOOLEAN :
          receipt = Receipt(number, authority, executed, HeadOf(engine[p].head), Evidence)
    BY <1>2, ReceiptFacts DEF Attached, Evidence
  <1>4. receipt.cycle = number
    BY <1>3, ReceiptCycle
  <1>5. result.receipt = receipt
    BY DEF Outcome
  <1>6. \A q \in Scripts : q # p /\ Active(q) => Number(q) # number
    BY <1>1 DEF CockpitInv, Active
  <1>7. /\ FileInv' /\ FileStep(number) /\ OnlyOf(p) /\ ScriptInv(p)'
        /\ pc'[p] # "built" /\ (Active(p)' => Number(p)' = number)
    <2>1. CASE /\ RecordReturns(receipt, engine[p].head) /\ Returns(p, result)
               /\ page' = page /\ view' = view
      <3>1. /\ FileInv' /\ FileStep(number)
            /\ \A w \in written' : w.line.receipt.cycle = number => w.line.receipt = receipt
            /\ \E w \in written' : w.line.receipt = receipt
        <4> HIDE DEF receipt, number
        <4> QED
          BY <1>1, <1>2, <1>3, <2>1, RecordStep
      <3> HIDE DEF receipt, result, number
      <3> QED
        BY <1>1, <1>2, <1>4, <1>5, <2>1, <3>1, ReturnedScript
    <2>2. CASE RecordRaises(receipt, engine[p].head) /\ RaisesInThePage(p)
      <3>1. FileInv' /\ FileStep(number)
        <4> HIDE DEF receipt, number
        <4> QED
          BY <1>1, <1>2, <1>3, <2>2, RaisesStep
      <3> QED
        BY <2>2, <3>1, RaisesInThePageStep
    <2> QED
      BY <1>1, <2>1, <2>2
  <1>8. Built' = Built
    BY <1>1, <1>7, BuiltCount
  <1> HIDE DEF number
  <1> QED
    BY <1>1, <1>6, <1>7, <1>8, ScriptStep DEF CockpitInv

(* On a file nobody damaged the cycle of p is there if its record wrote    *)
(* it, and what is found is the line of its receipt.                       *)
LEMMA FindsItsReceipt ==
  ASSUME CockpitInv, NEW p \in Scripts, pc[p] \in {"returned", "verified"},
         damaged = 0, Readable(lines)
  PROVE  /\ Has(lines, Number(p)) <=> Recorded(p)
         /\ Has(lines, Number(p)) =>
              find_by_cycle_id(lines, Number(p)) = Line(outcome[p].receipt)
  <1>1. /\ FileInv /\ Undamaged
        /\ \A w \in written : w.line.receipt.cycle = Number(p) =>
             w.line.receipt = outcome[p].receipt
    BY DEF CockpitInv, FileInv, ScriptInv
  <1>2. \A i \in DOMAIN lines : \E w \in written :
          lines[i] = w.line /\ w.line = Line(w.line.receipt)
    <2>1. \A i \in DOMAIN lines : \E w \in written : lines[i] = w.line
      BY <1>1, ReadableLines
    <2>2. \A w \in written : w.line = Line(w.line.receipt)
      BY <1>1, WrittenFacts DEF FileInv
    <2> QED
      BY <2>1, <2>2
  <1>3. Has(lines, Number(p)) => Recorded(p)
    BY <1>1, <1>2 DEF Has, Recorded
  <1>4. Recorded(p) => Has(lines, Number(p))
    BY <1>1 DEF Undamaged, Has, Recorded, Number
  <1>5. ASSUME Has(lines, Number(p))
        PROVE  find_by_cycle_id(lines, Number(p)) = Line(outcome[p].receipt)
    <2>1. PICK i \in DOMAIN lines :
            /\ lines[i].receipt.cycle = Number(p)
            /\ find_by_cycle_id(lines, Number(p)) = lines[i]
      BY <1>1, <1>5, FoundLine
    <2> QED
      BY <1>1, <1>2, <2>1
  <1> QED
    BY <1>3, <1>4, <1>5

LEMMA SectionReceiptStep ==
  ASSUME CockpitInv, NEW p \in Scripts, SectionReceipt(p)
  PROVE  CockpitInv'
  <1>1. /\ pc[p] = "returned" /\ UNCHANGED fileVars /\ drawn' = drawn /\ kept' = kept
        /\ lines' = lines /\ damaged' = damaged /\ written' = written
    BY DEF SectionReceipt, fileVars
  <1>2. /\ FileInv' /\ FileStep(0) /\ drawn \in Nat
        /\ \A q \in Scripts : Active(q) => Number(q) # 0
    BY <1>1, NothingWritten, NumbersFromOne DEF CockpitInv
  <1>3. /\ OnlyOf(p) /\ ScriptInv(p)' /\ pc'[p] # "built"
        /\ Active(p)' => Number(p)' = Number(p)
    <2>1. CASE Readable(lines)
      <3> DEFINE found == Has(lines, Number(p))
                 raw == IF found THEN find_by_cycle_id(lines, Number(p)) ELSE Genesis
                 shown == [shows |-> "partly", outcome |-> outcome[p], persisted |-> found,
                           raw |-> raw, chain_integrity |-> verify_store(lines),
                           audit |-> Genesis]
      <3>1. /\ pc' = [pc EXCEPT ![p] = "verified"]
            /\ view' = [view EXCEPT ![p] = shown]
            /\ page' = page /\ engine' = engine /\ outcome' = outcome
        BY <2>1 DEF SectionReceipt, Number
      <3>2. OnlyOf(p) /\ pc'[p] = "verified" /\ view'[p] = shown
        BY <3>1 DEF CockpitInv, OnlyOf
      <3>3. /\ shown.shows = "partly" /\ shown.outcome = outcome[p]
            /\ shown.persisted = found /\ shown.raw = raw
            /\ shown = [shows |-> "partly", outcome |-> shown.outcome,
                 persisted |-> shown.persisted, raw |-> shown.raw,
                 chain_integrity |-> shown.chain_integrity, audit |-> shown.audit]
        OBVIOUS
      <3>4. damaged = 0 =>
              /\ found <=> Recorded(p)
              /\ found => raw = Line(outcome[p].receipt)
              /\ ~found => raw = Genesis /\ outcome[p].proof # "PROVEN"
        <4>1. ~Recorded(p) => outcome[p].proof # "PROVEN"
          BY <1>1 DEF CockpitInv, ScriptInv
        <4> QED
          BY <1>1, <2>1, <4>1, FindsItsReceipt
      <3>5. /\ page[p] \in {"none", "cockpit", "comparison"}
            /\ engine[p].spec \in SCENARIOS
            /\ Number(p) \in 1 .. drawn
            /\ \A w \in written : w.line.receipt.cycle = Number(p) =>
                 w.line.receipt = outcome[p].receipt
        BY <1>1 DEF CockpitInv, ScriptInv, Active
      <3>6. Number(p)' = Number(p) /\ (Recorded(p)' <=> Recorded(p))
        BY <1>1, <3>1 DEF Number, Recorded
      <3> HIDE DEF found, raw, shown
      <3>7. damaged = 0 => SaysRight(shown) /\ (shown.persisted <=> Recorded(p))
        BY <3>3, <3>4, <3>5 DEF SaysRight
      <3>8. ScriptInv(p)'
        BY <1>1, <3>1, <3>2, <3>3, <3>5, <3>6, <3>7 DEF ScriptInv, Readings
      <3> QED
        BY <3>2, <3>6, <3>8
    <2>2. CASE ~Readable(lines)
      <3>1. RaisesInThePage(p)
        BY <2>2 DEF SectionReceipt
      <3> QED
        BY <3>1, RaisesInThePageStep
    <2> QED
      BY <2>1, <2>2
  <1>4. Built' = Built
    BY <1>1, <1>3, BuiltCount
  <1>5. \A q \in Scripts : q # p /\ Active(q) => Number(q) # Number(p)
    BY <1>1 DEF CockpitInv, Active
  <1> QED
    BY <1>1, <1>2, <1>3, <1>4, <1>5, ScriptStep DEF CockpitInv

LEMMA SectionReplayStep ==
  ASSUME CockpitInv, NEW p \in Scripts, SectionReplay(p)
  PROVE  CockpitInv'
  <1>1. /\ pc[p] = "verified" /\ UNCHANGED fileVars /\ drawn' = drawn
        /\ lines' = lines /\ damaged' = damaged /\ written' = written
        /\ kept' \subseteq kept \cup {Number(p)}
    BY DEF SectionReplay, fileVars, Number
  <1>2. /\ FileInv' /\ FileStep(0) /\ drawn \in Nat
        /\ \A q \in Scripts : Active(q) => Number(q) # 0
    BY <1>1, NothingWritten, NumbersFromOne DEF CockpitInv
  <1>3. OnlyOf(p) /\ ScriptInv(p)' /\ pc'[p] = "idle"
    <2>1. CASE Readable(lines)
      <3> DEFINE audit == IF Has(lines, Number(p))
                          THEN find_by_cycle_id(lines, Number(p)) ELSE Genesis
      <3>1. /\ pc' = [pc EXCEPT ![p] = "idle"]
            /\ page' = [page EXCEPT ![p] = "none"]
            /\ view' = [view EXCEPT ![p].shows = "cycle", ![p].audit = audit]
            /\ outcome' = [outcome EXCEPT ![p] = NoOutcome]
            /\ engine' = engine
        BY <2>1 DEF SectionReplay, Number
      <3>2. OnlyOf(p) /\ pc'[p] = "idle" /\ page'[p] = "none"
        BY <3>1 DEF CockpitInv, OnlyOf
      <3>3. /\ engine[p].spec \in SCENARIOS
            /\ view[p] = [shows |-> "partly", outcome |-> outcome[p],
                 persisted |-> view[p].persisted, raw |-> view[p].raw,
                 chain_integrity |-> view[p].chain_integrity, audit |-> view[p].audit]
            /\ damaged = 0 => (view[p].persisted <=> Recorded(p)) /\ SaysRight(view[p])
        BY <1>1 DEF CockpitInv, ScriptInv
      <3>4. damaged = 0 => audit = view[p].raw
        <4>1. damaged = 0 =>
                /\ Has(lines, Number(p)) <=> Recorded(p)
                /\ Has(lines, Number(p)) => audit = Line(outcome[p].receipt)
          BY <1>1, <2>1, FindsItsReceipt
        <4>2. view[p].outcome = outcome[p]
          BY <3>3
        <4> QED
          BY <3>3, <4>1, <4>2 DEF SaysRight
      <3> HIDE DEF audit
      <3>5. view'[p] = [view[p] EXCEPT !.shows = "cycle", !.audit = audit]
        BY <3>1 DEF CockpitInv
      <3>6. /\ view'[p].shows = "cycle" /\ view'[p].audit = audit
            /\ view'[p].persisted = view[p].persisted /\ view'[p].raw = view[p].raw
            /\ view'[p].outcome = view[p].outcome
        BY <3>3, <3>5
      <3>7. damaged' = 0 => SaysRight(view'[p]) /\ view'[p].audit = view'[p].raw
        BY <1>1, <3>3, <3>4, <3>6 DEF SaysRight
      <3>8. ScriptInv(p)'
        BY <3>1, <3>2, <3>3, <3>6, <3>7 DEF ScriptInv, Active, Readings
      <3> QED
        BY <3>2, <3>8
    <2>2. CASE ~Readable(lines)
      <3>1. RaisesInThePage(p)
        BY <2>2 DEF SectionReplay
      <3> QED
        BY <3>1, RaisesInThePageStep
    <2> QED
      BY <2>1, <2>2
  <1>4. Built' = Built
    BY <1>1, <1>3, BuiltCount
  <1>5. kept' \subseteq 1 .. drawn'
    BY <1>1 DEF CockpitInv, ScriptInv, Active
  <1> QED
    BY <1>1, <1>2, <1>3, <1>4, <1>5, ScriptStep DEF CockpitInv, Active

LEMMA SupersededStep ==
  ASSUME CockpitInv, NEW p \in Scripts, Superseded(p)
  PROVE  CockpitInv'
  <1>1. /\ pc[p] = "verified" /\ pc' = [pc EXCEPT ![p] = "idle"]
        /\ page' = [page EXCEPT ![p] = "none"]
        /\ view' = [view EXCEPT ![p] = Blank]
        /\ outcome' = [outcome EXCEPT ![p] = NoOutcome]
        /\ UNCHANGED fileVars /\ drawn' = drawn /\ engine' = engine /\ kept' = kept
    BY DEF Superseded
  <1>2. /\ FileInv' /\ FileStep(0) /\ drawn \in Nat
        /\ \A q \in Scripts : Active(q) => Number(q) # 0
    BY <1>1, NothingWritten, NumbersFromOne DEF CockpitInv
  <1>3. /\ OnlyOf(p) /\ pc'[p] = "idle" /\ page'[p] = "none"
        /\ view'[p].shows = "nothing"
    BY <1>1 DEF CockpitInv, OnlyOf, Blank
  <1>4. ScriptInv(p)'
    BY <1>1, <1>3, AtRest DEF CockpitInv, ScriptInv, Readings
  <1>5. Built' = Built
    BY <1>1, <1>3, BuiltCount
  <1> QED
    BY <1>1, <1>2, <1>3, <1>4, <1>5, ScriptStep DEF CockpitInv, Active

LEMMA DamageStep ==
  ASSUME CockpitInv, Damage
  PROVE  CockpitInv'
  <1>1. /\ damaged' = damaged + 1 /\ drawn' = drawn /\ written' = written
        /\ pc' = pc /\ page' = page /\ engine' = engine /\ outcome' = outcome
        /\ view' = view /\ kept' = kept
    BY DEF Damage, sessionVars
  <1>2. FileInv' /\ damaged' # 0
    BY <1>1, FileDamaged DEF CockpitInv, FileInv
  <1>3. FileStep(0)
    BY <1>1, <1>2 DEF FileStep
  <1>4. \A q \in Scripts : Active(q) => Number(q) # 0
    BY DEF CockpitInv, ScriptInv, FileInv
  <1>5. \A q \in Scripts : ScriptInv(q)'
    BY <1>1, <1>2, <1>3, <1>4, OtherScript
  <1>6. /\ Built' = Built
        /\ \A q \in Scripts : (Active(q)' <=> Active(q)) /\ Number(q)' = Number(q)
    BY <1>1 DEF Built, Active, Number
  <1> QED
    BY <1>1, <1>2, <1>5, <1>6 DEF CockpitInv

LEMMA StutterStep ==
  ASSUME CockpitInv, UNCHANGED vars
  PROVE  CockpitInv'
  <1>1. /\ UNCHANGED fileVars /\ drawn' = drawn /\ kept' = kept
        /\ pc' = pc /\ page' = page /\ engine' = engine /\ outcome' = outcome
        /\ view' = view
    BY DEF vars, fileVars, sessionVars
  <1>2. FileInv' /\ FileStep(0)
    BY <1>1, NothingWritten DEF CockpitInv
  <1>3. \A q \in Scripts : Active(q) => Number(q) # 0
    BY DEF CockpitInv, ScriptInv, FileInv
  <1>4. \A q \in Scripts : ScriptInv(q)'
    BY <1>1, <1>2, <1>3, OtherScript
  <1>5. /\ Built' = Built
        /\ \A q \in Scripts : (Active(q)' <=> Active(q)) /\ Number(q)' = Number(q)
    BY <1>1 DEF Built, Active, Number
  <1> QED
    BY <1>1, <1>2, <1>4, <1>5 DEF CockpitInv

LEMMA CockpitInvInit == Init => CockpitInv
  <1> SUFFICES ASSUME Init PROVE CockpitInv
    OBVIOUS
  <1>1. /\ lines = <<>> /\ drawn = 0 /\ damaged = 0 /\ written = {} /\ kept = {}
        /\ pc = [p \in Scripts |-> "idle"]
        /\ page = [p \in Scripts |-> "none"]
        /\ engine = [p \in Scripts |-> NoEngine]
        /\ outcome = [p \in Scripts |-> NoOutcome]
        /\ view = [p \in Scripts |-> Blank]
    BY DEF Init
  <1>2. FileInv
    BY <1>1, CockpitAssumption DEF FileInv, Undamaged
  <1>3. ASSUME NEW p \in Scripts PROVE ScriptInv(p) /\ ~Active(p)
    BY <1>1, NoEngineRuns DEF ScriptInv, Active, Blank, Readings
  <1>4. Built = {}
    BY <1>1 DEF Built
  <1>5. Cardinality(Built) = 0
    BY <1>4, FS_EmptySet
  <1> QED
    BY <1>1, <1>2, <1>3, <1>5, CockpitAssumption DEF CockpitInv

LEMMA CockpitInvStep == CockpitInv /\ [Next]_vars => CockpitInv'
  <1> SUFFICES ASSUME CockpitInv, [Next]_vars PROVE CockpitInv'
    OBVIOUS
  <1>1. ASSUME NEW p \in Scripts, PressRun(p) PROVE CockpitInv'
    BY <1>1, BuildStep DEF PressRun
  <1>2. ASSUME NEW p \in Scripts, DrawComparison(p) PROVE CockpitInv'
    BY <1>2, BuildStep DEF DrawComparison
  <1> QED
    BY <1>1, <1>2, LiveRejectionStep, DeferredStep, RunStep, AttachStep,
       SectionReceiptStep, SectionReplayStep, SupersededStep, ReplayStep,
       DamageStep, StutterStep DEF Next

LEMMA CockpitInvHolds == CockpitSpec => []CockpitInv
  BY CockpitInvInit, CockpitInvStep, PTL DEF CockpitSpec

------------------------------------------------------------------------------
(* Every script and every file keeps its type.                             *)
THEOREM CockpitTypes == CockpitSpec => []TypeOK
  BY CockpitInvHolds, TypesHold, PTL

(* ReceiptChainVerifier.verify_store is right about what is hashed in every*)
(* file, whatever the damages and however many scripts wrote it.           *)
THEOREM VerdictsAreRight == CockpitSpec => []VerdictIsRight
  <1>1. CockpitInv => VerdictIsRight
    BY VerdictHolds DEF CockpitInv
  <1> QED
    BY <1>1, CockpitInvHolds, PTL

(* A file nobody damaged is called corrupted exactly when two engines had  *)
(* read the same file before they recorded.                                *)
THEOREM ForksAloneCorrupt == CockpitSpec => []OnlyForksCorrupt
  <1>1. CockpitInv => OnlyForksCorrupt
    BY OnlyForks DEF CockpitInv
  <1> QED
    BY <1>1, CockpitInvHolds, PTL

(* The sections of a view, which read the file one after the other, agree  *)
(* on their cycle while other scripts append to it.                        *)
THEOREM ViewsAreRight == CockpitSpec => []ViewsTellTheTruth
  BY CockpitInvHolds, ViewsHold, PTL

(* The replay, which checks no hash, matches only parameters that still    *)
(* give the path a cycle was written with, and matches on every file that  *)
(* verifies.                                                               *)
THEOREM ReplaysAgree == CockpitSpec => []ReplayAgreesWithTheChain
  <1>1. CockpitInv => ReplayAgreesWithTheChain
    BY ReplayHolds DEF CockpitInv
  <1> QED
    BY <1>1, CockpitInvHolds, PTL
==============================================================================
