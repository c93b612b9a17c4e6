-------------------------- MODULE CollectionProofs --------------------------
(***************************************************************************)
(* One collection, for every roster of sub-collectors, whatever the        *)
(* provider lists and however many of its calls fail.                      *)
(*                                                                         *)
(* The rosters are arbitrary and the services are not: a first part shows  *)
(* of each of the twenty-one that it is Orderly, and nothing later looks   *)
(* into one.  Then the walk (Walked), on which the others rest: what the   *)
(* resources say (TruthInv), what is missing (GapInv), what was counted    *)
(* (BookInv) and what the gate let through (GateInv).                      *)
(***************************************************************************)
EXTENDS Collection, FiniteSetTheorems, TLAPS

(***************************************************************************)
(* The induction hypotheses, in the order of their proofs.                 *)
(***************************************************************************)

Accounts == {NoAccount} \union {known.account : known \in Identities}
Ids      == Items \union {"the account"}

\* What a sub-collector can have normalized.
Found ==
    [pos : Nat, item : Nat, id : Ids, account : Accounts,
     marks : UNION {[Attributes(Services[name]) -> Marks] :
                        name \in DOMAIN Services}]

\* Where the walk is, and that what it has found came from what was listed.
WalkInv ==
    /\ roster \in Rosters /\ identity \in Identities
    /\ bindings \subseteq Bindings
    /\ resources \in Seq(Found) /\ kept \in Seq(Found)
    /\ phase \in {"label", "gate"} => pos = 1 /\ resources = <<>>
    /\ phase \notin {"call", "done"} => kept = <<>> /\ Len(listings) = pos - 1
    /\ phase = "done" => Len(listings) >= pos - 1
    /\ phase = "call" /\ item = 0 => at <= FirstItemCall
    /\ \A r \in ToSet(kept) :
        /\ r.pos = pos /\ r.item \in 1 .. (item - 1)
        /\ r.item \in DOMAIN listings[pos] /\ r.id = listings[pos][r.item]
    /\ \A r \in ToSet(resources) :
        /\ r.pos \in 1 .. (pos - 1)
        /\ r.item \in DOMAIN listings[r.pos]
        /\ r.id = listings[r.pos][r.item]

ServiceAt(p) == Services[roster[p]]

\* A call that feeds this attribute of this item failed, and not in a way that
\* its collector passes over.
Blamed(noted, p, i, a) ==
    \E f \in noted :
        /\ f.pos = p /\ f.item \in {0, i}
        /\ ~PassedOver(roster[p], f.op, f.answer)
        /\ \E c \in DOMAIN ServiceAt(p).calls :
            /\ a \in ServiceAt(p).calls[c].feeds
            /\ ServiceAt(p).calls[c].op = f.op

Unfounded(p, i, a) == Blamed(refusals, p, i, a)

\* What is remembered of a failure, and that the draft is honest as well.
TruthInv ==
    /\ \A f \in refusals :
        /\ f.pos \in 1 .. pos /\ f.item \in Nat
        /\ f.pos = pos => phase \in {"call", "done"} /\ f.item <= item
        /\ f.item = 0 => \E c \in ListCalls(ServiceAt(f.pos)) :
                            ServiceAt(f.pos).calls[c].op = f.op
    /\ \A r \in ToSet(resources) \union ToSet(kept) : \A a \in DOMAIN r.marks :
        r.marks[a] = "plain" => ~Unfounded(r.pos, r.item, a)
    /\ phase = "call" =>
        \A a \in DOMAIN draft : draft[a] = "plain" => ~Unfounded(pos, item, a)

RefusedIn(noted, p, i) ==
    \E f \in noted :
        f.pos = p /\ (ServiceAt(p).each => f.item \in {0, i})

Explained(p, i) ==
    \/ IsKept(p, i)
    \/ ServiceAt(p).needs_account /\ account = NoAccount
    \/ RefusedIn(refusals, p, i)

\* What these describe, and the failures noted, account for the items so far.
Accounted(found, noted, last) ==
    \A i \in 1 .. last :
        \/ \E r \in found : r.id = listings[pos][i]
        \/ RefusedIn(noted, pos, i)

\* Everything listed so far is kept, or a failure explains why it is not.
GapInv ==
    /\ \A p \in 1 .. (pos - 1) : \A i \in DOMAIN listings[p] : Explained(p, i)
    /\ phase = "call" => Accounted(ToSet(kept), refusals, item - 1)
    /\ phase = "graph" => pos = Len(roster) + 1
    /\ outcome = "completed" => phase = "done" /\ pos = Len(roster) + 1

\* The items up to n that none of these describes.
Missing(found, p, n) ==
    {i \in 1 .. n : ~\E r \in found : r.pos = p /\ r.item = i}

\* A call about this item was answered with a failure.
Wanting(noted, p, i) == \E f \in noted : f.pos = p /\ f.item = i

Lacking(noted, found, p) ==
    \E r \in found : r.pos = p /\ Wanting(noted, p, r.item)

\* The books of the sub-collector that is running, as far as it has come.
BookInv ==
    /\ \A p \in DOMAIN roster :
        p > pos \/ (p = pos /\ phase \notin {"call", "done"}) => skipped[p] = 0
    /\ phase = "call" /\ Service.each =>
        /\ skipped[pos] = Cardinality(Missing(ToSet(kept), pos, item - 1))
        /\ (Wanting(refusals, pos, item)
           \/ Lacking(refusals, ToSet(kept), pos)) =>
                denials[pos] > 0
    /\ LossIsCounted

\* The gate has let the collection through.
GateInv ==
    phase \in {"begin", "call", "graph"} \/ resources # <<>> \/ kept # <<>> =>
        \E binding \in bindings :
            /\ binding.provider = identity.provider
            /\ binding.account = identity.account
            /\ binding.provider = "azure" =>
                  binding.directory = identity.directory

-----------------------------------------------------------------------------
(***************************************************************************)
(* The services.  What the proofs need of a service, and that each has it. *)
(***************************************************************************)

Fields == {"op", "per", "feeds", "optional", "may_be_absent", "retried",
           "tolerates", "leaves"}

\* What a call tolerates are failures, and they leave a mark.
Made(call) ==
    /\ DOMAIN call = Fields
    /\ call.tolerates \subseteq Failures /\ call.leaves \in Marks

\* A failure that a call tolerates without a trace is one of those listed.
Frank(name, call) ==
    call.leaves = "plain" =>
        \A answer \in call.tolerates : PassedOver(name, call.op, answer)

AllFrank(name, service) ==
    \A i \in DOMAIN service.calls : Frank(name, service.calls[i])

\* The listing calls come first.
Leading(calls, n) ==
    /\ n \in 0 .. Len(calls)
    /\ \A i \in 1 .. Len(calls) : calls[i].per = "list" <=> i <= n

\* A service makes each of its calls in one place.
Distinct(calls) ==
    \A i, j \in 1 .. Len(calls) : calls[i].op = calls[j].op => i = j

\* A failure that this call tolerates is a denial that the retries count.
Accountable(call) ==
    call.tolerates # {} => call.retried /\ call.tolerates = {"denied"}

Ordered(calls) ==
    /\ Len(calls) \in Nat /\ DOMAIN calls = 1 .. Len(calls)
    /\ \A i \in 1 .. Len(calls) : Made(calls[i])
    /\ \E n \in Nat : Leading(calls, n)
    /\ Distinct(calls)

\* A service that counts its items loses them in no other way.
Orderly(service) ==
    /\ Ordered(service.calls)
    /\ service.each =>
        /\ ~service.dedups /\ ~service.needs_account
        /\ \A i \in 1 .. Len(service.calls) : Accountable(service.calls[i])

LEMMA MustMade ==
    ASSUME NEW op, NEW feeds
    PROVE  LET call == Must(op, feeds) IN
           /\ Made(call)
           /\ call.op = op /\ call.per = "item" /\ call.tolerates = {}
BY DEF Must, Made, Fields, Failures, Marks

LEMMA ListingMade ==
    ASSUME NEW op
    PROVE  LET call == Listing(op) IN
           /\ Made(call)
           /\ call.op = op /\ call.per = "list" /\ call.tolerates = {}
BY DEF Listing, Must, Made, Fields, Failures, Marks

LEMMA Adorned ==
    ASSUME NEW call, Made(call)
    PROVE  /\ Made(Retried(call)) /\ Made(Optional(call)) /\ Made(MayBeAbsent(call))
           /\ Retried(call).op = call.op
           /\ Optional(call).op = call.op
           /\ MayBeAbsent(call).op = call.op
           /\ Retried(call).per = call.per
           /\ Optional(call).per = call.per
           /\ MayBeAbsent(call).per = call.per
           /\ Retried(call).tolerates = call.tolerates
           /\ Optional(call).tolerates = call.tolerates
           /\ MayBeAbsent(call).tolerates = call.tolerates
           /\ Retried(call).leaves = call.leaves
           /\ Optional(call).leaves = call.leaves
           /\ MayBeAbsent(call).leaves = call.leaves
           /\ Retried(call).retried
           /\ Optional(call).retried = call.retried
BY DEF Retried, Optional, MayBeAbsent, Made, Fields

LEMMA TolerantMade ==
    ASSUME NEW call, Made(call), NEW failures \in SUBSET Failures,
           NEW mark \in Marks
    PROVE  LET made == Tolerant(call, failures, mark) IN
           /\ Made(made)
           /\ made.op = call.op /\ made.per = call.per
           /\ made.retried = call.retried /\ made.tolerates = failures
           /\ made.leaves = mark
BY DEF Tolerant, Made, Fields

LEMMA PlainServices ==
    ASSUME NEW calls, Ordered(calls)
    PROVE  /\ Orderly(AwsService(calls)) /\ Orderly(AzureService(calls))
           /\ Orderly([AwsService(calls) EXCEPT !.needs_account = TRUE])
           /\ Orderly([AzureService(calls) EXCEPT !.dedups = TRUE])
PROOF
<1>1. Orderly(AwsService(calls))
  BY DEF AwsService, Orderly
<1>2. Orderly(AzureService(calls))
  BY DEF AwsService, AzureService, Orderly
<1>3. Orderly([AwsService(calls) EXCEPT !.needs_account = TRUE])
  BY DEF AwsService, Orderly
<1>4. Orderly([AzureService(calls) EXCEPT !.dedups = TRUE])
  BY DEF AwsService, AzureService, Orderly
<1> QED
  BY <1>1, <1>2, <1>3, <1>4

LEMMA OneListing ==
    ASSUME NEW op
    PROVE  /\ Ordered(<<Listing(op)>>)
           /\ \A i \in DOMAIN <<Listing(op)>> :
                <<Listing(op)>>[i].tolerates = {}
PROOF
<1> DEFINE calls == <<Listing(op)>>
<1>1. Len(calls) = 1 /\ DOMAIN calls = 1 .. 1 /\ calls[1] = Listing(op)
  OBVIOUS
<1> HIDE DEF calls
<1>2. \A i \in 1 .. 1 : Made(calls[i]) /\ (calls[i].per = "list" <=> i <= 1)
  BY <1>1, ListingMade
<1>3. \A i, j \in 1 .. 1 : calls[i].op = calls[j].op => i = j
  OBVIOUS
<1>4. Leading(calls, 1)
  BY <1>1, <1>2 DEF Leading
<1>5. Ordered(calls)
  BY <1>1, <1>2, <1>3, <1>4 DEF Ordered, Distinct
<1>6. \A i \in DOMAIN calls : calls[i].tolerates = {}
  BY <1>1, ListingMade
<1> QED
  BY <1>5, <1>6 DEF calls

LEMMA S3Orderly ==
    Orderly(S3Collector) /\ AllFrank("S3", S3Collector)
PROOF
<1> DEFINE calls == S3Collector.calls
<1>1. Len(calls) = 9 /\ DOMAIN calls = 1 .. 9
  BY DEF S3Collector, AwsService
<1>2. \A i \in 1 .. 9 : Made(calls[i]) /\ (calls[i].per = "list" <=> i <= 1)
  BY MustMade, ListingMade, Adorned DEF S3Collector, AwsService
<1>3. \A i, j \in 1 .. 9 : calls[i].op = calls[j].op => i = j
  BY MustMade, ListingMade, Adorned DEF S3Collector, AwsService
<1>6. \A i \in 1 .. 9 : calls[i].tolerates = {}
  BY MustMade, ListingMade, Adorned DEF S3Collector, AwsService
<1> HIDE DEF calls
<1>4. Leading(calls, 1)
  BY <1>1, <1>2 DEF Leading
<1>5. Ordered(calls)
  BY <1>1, <1>2, <1>3, <1>4 DEF Ordered, Distinct
<1>7. \A i \in DOMAIN calls : Frank("S3", calls[i])
  BY <1>1, <1>6 DEF Frank
<1> QED
  BY <1>5, <1>7, PlainServices DEF calls, AllFrank, S3Collector, AwsService

LEMMA IamOrderly ==
    Orderly(IamCollector) /\ AllFrank("Iam", IamCollector)
PROOF
<1> DEFINE calls == IamCollector.calls
<1>1. Len(calls) = 6 /\ DOMAIN calls = 1 .. 6
  BY DEF IamCollector, AwsService
<1>2. \A i \in 1 .. 6 : Made(calls[i]) /\ (calls[i].per = "list" <=> i <= 1)
  BY MustMade, ListingMade, Adorned DEF IamCollector, AwsService
<1>3. \A i, j \in 1 .. 6 : calls[i].op = calls[j].op => i = j
  BY MustMade, ListingMade, Adorned DEF IamCollector, AwsService
<1>6. \A i \in 1 .. 6 : calls[i].tolerates = {}
  BY MustMade, ListingMade, Adorned DEF IamCollector, AwsService
<1> HIDE DEF calls
<1>4. Leading(calls, 1)
  BY <1>1, <1>2 DEF Leading
<1>5. Ordered(calls)
  BY <1>1, <1>2, <1>3, <1>4 DEF Ordered, Distinct
<1>7. \A i \in DOMAIN calls : Frank("Iam", calls[i])
  BY <1>1, <1>6 DEF Frank
<1> QED
  BY <1>5, <1>7, PlainServices DEF calls, AllFrank, IamCollector, AwsService

LEMMA IamAccountOrderly ==
    Orderly(IamAccountCollector) /\ AllFrank("IamAccount", IamAccountCollector)
PROOF
<1> DEFINE calls == IamAccountCollector.calls
<1>1. Len(calls) = 2 /\ DOMAIN calls = 1 .. 2
  BY DEF IamAccountCollector, AwsService
<1>2. \A i \in 1 .. 2 : Made(calls[i]) /\ (calls[i].per = "list" <=> i <= 0)
  BY MustMade, ListingMade, Adorned DEF IamAccountCollector, AwsService
<1>3. \A i, j \in 1 .. 2 : calls[i].op = calls[j].op => i = j
  BY MustMade, ListingMade, Adorned DEF IamAccountCollector, AwsService
<1>6. \A i \in 1 .. 2 : calls[i].tolerates = {}
  BY MustMade, ListingMade, Adorned DEF IamAccountCollector, AwsService
<1> HIDE DEF calls
<1>4. Leading(calls, 0)
  BY <1>1, <1>2 DEF Leading
<1>5. Ordered(calls)
  BY <1>1, <1>2, <1>3, <1>4 DEF Ordered, Distinct
<1>7. \A i \in DOMAIN calls : Frank("IamAccount", calls[i])
  BY <1>1, <1>6 DEF Frank
<1> QED
  BY <1>5, <1>7, PlainServices DEF calls, AllFrank, IamAccountCollector, AwsService

LEMMA Ec2Orderly ==
    Orderly(Ec2Collector) /\ AllFrank("Ec2", Ec2Collector)
PROOF
<1> DEFINE calls == Ec2Collector.calls
<1>1. Len(calls) = 3 /\ DOMAIN calls = 1 .. 3
  BY DEF Ec2Collector, AwsService, InstanceProfileCall, Failures, Marks
<1>2. \A i \in 1 .. 3 : Made(calls[i]) /\ (calls[i].per = "list" <=> i <= 1)
  BY MustMade, ListingMade, Adorned, TolerantMade DEF Ec2Collector, AwsService, InstanceProfileCall, Failures, Marks
<1>3. \A i, j \in 1 .. 3 : calls[i].op = calls[j].op => i = j
  BY MustMade, ListingMade, Adorned, TolerantMade DEF Ec2Collector, AwsService, InstanceProfileCall, Failures, Marks
<1>6. \A i \in 1 .. 3 : Frank("Ec2", calls[i])
  BY MustMade, ListingMade, Adorned, TolerantMade DEF Ec2Collector, AwsService, InstanceProfileCall, Failures, Marks, Frank, PassedOver
<1> HIDE DEF calls
<1>4. Leading(calls, 1)
  BY <1>1, <1>2 DEF Leading
<1>5. Ordered(calls)
  BY <1>1, <1>2, <1>3, <1>4 DEF Ordered, Distinct
<1>7. \A i \in DOMAIN calls : Frank("Ec2", calls[i])
  BY <1>1, <1>6
<1> QED
  BY <1>5, <1>7, PlainServices DEF calls, AllFrank, Ec2Collector, AwsService, InstanceProfileCall, Failures, Marks

LEMMA SubnetsCallMade ==
    /\ Made(SubnetsOfVpcsCall)
    /\ SubnetsOfVpcsCall.tolerates = Failures \ {"offline"}
    /\ SubnetsOfVpcsCall.op = "DescribeSubnets"
    /\ SubnetsOfVpcsCall.per = "list"
PROOF
<1> DEFINE call == Tolerant(Must("DescribeSubnets", {"contains"}),
                            Failures \ {"offline"}, "plain")
<1>1. /\ Made(call) /\ call.op = "DescribeSubnets"
      /\ call.tolerates = Failures \ {"offline"}
  BY MustMade, TolerantMade DEF Marks
<1> HIDE DEF call
<1>2. SubnetsOfVpcsCall = [call EXCEPT !.per = "list"]
  BY DEF SubnetsOfVpcsCall, call
<1> QED
  BY <1>1, <1>2 DEF Made, Fields

LEMMA VpcOrderly ==
    Orderly(VpcCollector) /\ AllFrank("Vpc", VpcCollector)
PROOF
<1> DEFINE calls == VpcCollector.calls
<1>1. Len(calls) = 2 /\ DOMAIN calls = 1 .. 2
  BY DEF VpcCollector, AwsService
<1>2. \A i \in 1 .. 2 : Made(calls[i]) /\ (calls[i].per = "list" <=> i <= 2)
  BY MustMade, ListingMade, Adorned, SubnetsCallMade DEF VpcCollector, AwsService
<1>3. \A i, j \in 1 .. 2 : calls[i].op = calls[j].op => i = j
  BY MustMade, ListingMade, Adorned, SubnetsCallMade DEF VpcCollector, AwsService
<1>6. \A i \in 1 .. 2 : Frank("Vpc", calls[i])
  BY MustMade, ListingMade, Adorned, SubnetsCallMade DEF VpcCollector, AwsService, Frank, PassedOver
<1> HIDE DEF calls
<1>4. Leading(calls, 2)
  BY <1>1, <1>2 DEF Leading
<1>5. Ordered(calls)
  BY <1>1, <1>2, <1>3, <1>4 DEF Ordered, Distinct
<1>7. \A i \in DOMAIN calls : Frank("Vpc", calls[i])
  BY <1>1, <1>6
<1> QED
  BY <1>5, <1>7, PlainServices DEF calls, AllFrank, VpcCollector, AwsService

LEMMA CloudTrailOrderly ==
    Orderly(CloudTrailCollector) /\ AllFrank("CloudTrail", CloudTrailCollector)
PROOF
<1> DEFINE calls == CloudTrailCollector.calls
<1>1. Len(calls) = 2 /\ DOMAIN calls = 1 .. 2
  BY DEF CloudTrailCollector, AwsService
<1>2. \A i \in 1 .. 2 : Made(calls[i]) /\ (calls[i].per = "list" <=> i <= 1)
  BY MustMade, ListingMade, Adorned DEF CloudTrailCollector, AwsService
<1>3. \A i, j \in 1 .. 2 : calls[i].op = calls[j].op => i = j
  BY MustMade, ListingMade, Adorned DEF CloudTrailCollector, AwsService
<1>6. \A i \in 1 .. 2 : calls[i].tolerates = {}
  BY MustMade, ListingMade, Adorned DEF CloudTrailCollector, AwsService
<1> HIDE DEF calls
<1>4. Leading(calls, 1)
  BY <1>1, <1>2 DEF Leading
<1>5. Ordered(calls)
  BY <1>1, <1>2, <1>3, <1>4 DEF Ordered, Distinct
<1>7. \A i \in DOMAIN calls : Frank("CloudTrail", calls[i])
  BY <1>1, <1>6 DEF Frank
<1> QED
  BY <1>5, <1>7, PlainServices DEF calls, AllFrank, CloudTrailCollector, AwsService

LEMMA KmsOrderly ==
    Orderly(KmsCollector) /\ AllFrank("Kms", KmsCollector)
PROOF
<1> DEFINE calls == KmsCollector.calls
<1>1. Len(calls) = 4 /\ DOMAIN calls = 1 .. 4
  BY DEF KmsCollector, AwsService
<1>2. \A i \in 1 .. 4 : Made(calls[i]) /\ (calls[i].per = "list" <=> i <= 1)
  BY MustMade, ListingMade, Adorned DEF KmsCollector, AwsService
<1>3. \A i, j \in 1 .. 4 : calls[i].op = calls[j].op => i = j
  BY MustMade, ListingMade, Adorned DEF KmsCollector, AwsService
<1>6. \A i \in 1 .. 4 : calls[i].tolerates = {}
  BY MustMade, ListingMade, Adorned DEF KmsCollector, AwsService
<1> HIDE DEF calls
<1>4. Leading(calls, 1)
  BY <1>1, <1>2 DEF Leading
<1>5. Ordered(calls)
  BY <1>1, <1>2, <1>3, <1>4 DEF Ordered, Distinct
<1>7. \A i \in DOMAIN calls : Frank("Kms", calls[i])
  BY <1>1, <1>6 DEF Frank
<1> QED
  BY <1>5, <1>7, PlainServices DEF calls, AllFrank, KmsCollector, AwsService

LEMMA StorageAccountOrderly ==
    Orderly(StorageAccountCollector) /\ AllFrank("StorageAccount", StorageAccountCollector)
PROOF
<1> DEFINE calls == StorageAccountCollector.calls
<1>1. Len(calls) = 2 /\ DOMAIN calls = 1 .. 2
  BY DEF StorageAccountCollector, AwsService, AzureService, Failures, Marks
<1>2. \A i \in 1 .. 2 : Made(calls[i]) /\ (calls[i].per = "list" <=> i <= 1)
  BY MustMade, ListingMade, Adorned, TolerantMade DEF StorageAccountCollector, AwsService, AzureService, Failures, Marks
<1>3. \A i, j \in 1 .. 2 : calls[i].op = calls[j].op => i = j
  BY MustMade, ListingMade, Adorned, TolerantMade DEF StorageAccountCollector, AwsService, AzureService, Failures, Marks
<1>6. \A i \in 1 .. 2 : Frank("StorageAccount", calls[i])
  BY MustMade, ListingMade, Adorned, TolerantMade DEF StorageAccountCollector, AwsService, AzureService, Failures, Marks, Frank, PassedOver
<1> HIDE DEF calls
<1>4. Leading(calls, 1)
  BY <1>1, <1>2 DEF Leading
<1>5. Ordered(calls)
  BY <1>1, <1>2, <1>3, <1>4 DEF Ordered, Distinct
<1>7. \A i \in DOMAIN calls : Frank("StorageAccount", calls[i])
  BY <1>1, <1>6
<1> QED
  BY <1>5, <1>7, PlainServices DEF calls, AllFrank, StorageAccountCollector, AwsService, AzureService, Failures, Marks

LEMMA VirtualMachineOrderly ==
    Orderly(VirtualMachineCollector) /\ AllFrank("VirtualMachine", VirtualMachineCollector)
PROOF
<1> DEFINE calls == VirtualMachineCollector.calls
<1>1. Len(calls) = 4 /\ DOMAIN calls = 1 .. 4
  BY DEF VirtualMachineCollector, AwsService, AzureService, NetworkCalls, Failures, Marks
<1>2. \A i \in 1 .. 4 : Made(calls[i]) /\ (calls[i].per = "list" <=> i <= 1)
  BY MustMade, ListingMade, Adorned, TolerantMade DEF VirtualMachineCollector, AwsService, AzureService, NetworkCalls, Failures, Marks
<1>3. \A i, j \in 1 .. 4 : calls[i].op = calls[j].op => i = j
  BY MustMade, ListingMade, Adorned, TolerantMade DEF VirtualMachineCollector, AwsService, AzureService, NetworkCalls, Failures, Marks
<1>6. \A i \in 1 .. 4 : Frank("VirtualMachine", calls[i])
  BY MustMade, ListingMade, Adorned, TolerantMade DEF VirtualMachineCollector, AwsService, AzureService, NetworkCalls, Failures, Marks, Frank, PassedOver
<1> HIDE DEF calls
<1>4. Leading(calls, 1)
  BY <1>1, <1>2 DEF Leading
<1>5. Ordered(calls)
  BY <1>1, <1>2, <1>3, <1>4 DEF Ordered, Distinct
<1>7. \A i \in DOMAIN calls : Frank("VirtualMachine", calls[i])
  BY <1>1, <1>6
<1> QED
  BY <1>5, <1>7, PlainServices DEF calls, AllFrank, VirtualMachineCollector, AwsService, AzureService, NetworkCalls, Failures, Marks

LEMMA KeyVaultOrderly ==
    Orderly(KeyVaultCollector) /\ AllFrank("KeyVault", KeyVaultCollector)
PROOF
<1> DEFINE calls == KeyVaultCollector.calls
<1>1. Len(calls) = 2 /\ DOMAIN calls = 1 .. 2
  BY DEF KeyVaultCollector, AwsService, AzureService, Failures, Marks
<1>2. \A i \in 1 .. 2 : Made(calls[i]) /\ (calls[i].per = "list" <=> i <= 1)
  BY MustMade, ListingMade, Adorned, TolerantMade DEF KeyVaultCollector, AwsService, AzureService, Failures, Marks
<1>3. \A i, j \in 1 .. 2 : calls[i].op = calls[j].op => i = j
  BY MustMade, ListingMade, Adorned, TolerantMade DEF KeyVaultCollector, AwsService, AzureService, Failures, Marks
<1>6. \A i \in 1 .. 2 : Frank("KeyVault", calls[i])
  BY MustMade, ListingMade, Adorned, TolerantMade DEF KeyVaultCollector, AwsService, AzureService, Failures, Marks, Frank, PassedOver
<1> HIDE DEF calls
<1>4. Leading(calls, 1)
  BY <1>1, <1>2 DEF Leading
<1>5. Ordered(calls)
  BY <1>1, <1>2, <1>3, <1>4 DEF Ordered, Distinct
<1>7. \A i \in DOMAIN calls : Frank("KeyVault", calls[i])
  BY <1>1, <1>6
<1> QED
  BY <1>5, <1>7, PlainServices DEF calls, AllFrank, KeyVaultCollector, AwsService, AzureService, Failures, Marks

\* The calls about a role are put together from three parts.
LEMMA SevenCalls ==
    ASSUME NEW a, NEW b, NEW c, NEW d, NEW e, NEW f, NEW g
    PROVE  LET calls == <<a>> \o <<b, c, d, e, f>> \o <<g>> IN
           /\ Len(calls) = 7 /\ DOMAIN calls = 1 .. 7
           /\ calls[1] = a /\ calls[2] = b /\ calls[3] = c /\ calls[4] = d
           /\ calls[5] = e /\ calls[6] = f /\ calls[7] = g
OBVIOUS

LEMMA IamRoleOrderly ==
    Orderly(IamRoleCollector) /\ AllFrank("IamRole", IamRoleCollector)
PROOF
<1> DEFINE calls    == IamRoleCollector.calls
           policies == {"policy_analysis", "access_grants"}
           unknown(op) ==
               Tolerant(Retried(Must(op, policies)), {"denied"}, "unknown")
<1> HIDE DEF policies
<1>1. ASSUME NEW op
      PROVE  /\ Made(unknown(op)) /\ Accountable(unknown(op))
             /\ unknown(op).op = op /\ unknown(op).per = "item"
             /\ unknown(op).retried /\ unknown(op).tolerates = {"denied"}
             /\ unknown(op).leaves = "unknown"
  <2>1. Made(Retried(Must(op, policies)))
    BY MustMade, Adorned
  <2>2. {"denied"} \in SUBSET Failures /\ "unknown" \in Marks
    BY DEF Failures, Marks
  <2> QED
    BY <2>1, <2>2, MustMade, Adorned, TolerantMade DEF Accountable
<1>2. ASSUME NEW op
      PROVE  LET call == ManagedPolicyCall(op, policies) IN
             /\ Made(call) /\ Accountable(call)
             /\ call.op = op /\ call.per = "item"
             /\ call.tolerates = {"denied"}
  <2>1. Made(Retried(Must(op, policies)))
    BY MustMade, Adorned
  <2>2. {"denied"} \in SUBSET Failures /\ "plain" \in Marks
    BY DEF Failures, Marks
  <2> QED
    BY <2>1, <2>2, MustMade, Adorned, TolerantMade
    DEF Accountable, ManagedPolicyCall
<1>3. /\ Made(LastUsedCall) /\ Accountable(LastUsedCall)
      /\ LastUsedCall.op = "GetRole" /\ LastUsedCall.per = "item"
      /\ LastUsedCall.leaves = "unknown"
  <2>1. Made(Retried(Must("GetRole", {"last_used"})))
    BY MustMade, Adorned
  <2>2. {"denied"} \in SUBSET Failures /\ "unknown" \in Marks
    BY DEF Failures, Marks
  <2> QED
    BY <2>1, <2>2, MustMade, Adorned, TolerantMade
    DEF Accountable, LastUsedCall
<1>4. LET call == Optional(unknown("GetRolePolicy")) IN
      /\ Made(call) /\ Accountable(call)
      /\ call.op = "GetRolePolicy" /\ call.per = "item"
      /\ call.leaves = "unknown"
  BY <1>1, Adorned DEF Accountable
<1>5. LET call == Retried(Listing("ListRoles")) IN
      /\ Made(call) /\ Accountable(call)
      /\ call.op = "ListRoles" /\ call.per = "list" /\ call.tolerates = {}
  BY ListingMade, Adorned DEF Accountable
<1>6. RolePolicyCalls = <<unknown("ListAttachedRolePolicies"),
                          ManagedPolicyCall("GetPolicy", policies),
                          ManagedPolicyCall("GetPolicyVersion", policies),
                          unknown("ListRolePolicies"),
                          Optional(unknown("GetRolePolicy"))>>
  BY DEF RolePolicyCalls, policies
<1> HIDE DEF unknown
<1>7. calls = <<Retried(Listing("ListRoles"))>> \o RolePolicyCalls
              \o <<LastUsedCall>>
  BY DEF IamRoleCollector, AwsService
<1> HIDE DEF calls
<1>8. /\ Len(calls) = 7 /\ DOMAIN calls = 1 .. 7
      /\ calls[1] = Retried(Listing("ListRoles"))
      /\ calls[2] = unknown("ListAttachedRolePolicies")
      /\ calls[3] = ManagedPolicyCall("GetPolicy", policies)
      /\ calls[4] = ManagedPolicyCall("GetPolicyVersion", policies)
      /\ calls[5] = unknown("ListRolePolicies")
      /\ calls[6] = Optional(unknown("GetRolePolicy"))
      /\ calls[7] = LastUsedCall
  BY <1>6, <1>7, SevenCalls
<1>9. \A i \in 1 .. 7 : /\ Made(calls[i]) /\ Accountable(calls[i])
                        /\ calls[i].per = "list" <=> i <= 1
  BY <1>1, <1>2, <1>3, <1>4, <1>5, <1>8
<1>10. \A i, j \in 1 .. 7 : calls[i].op = calls[j].op => i = j
  BY <1>1, <1>2, <1>3, <1>4, <1>5, <1>8
<1>11. Leading(calls, 1)
  BY <1>8, <1>9 DEF Leading
<1>12. Ordered(calls)
  BY <1>8, <1>9, <1>10, <1>11 DEF Ordered, Distinct
<1>13. ~IamRoleCollector.dedups /\ ~IamRoleCollector.needs_account
  BY DEF IamRoleCollector, AwsService
<1>14. \A i \in 1 .. 7 : Frank("IamRole", calls[i])
  <2>1. \A i \in {1, 2, 5, 6, 7} : Frank("IamRole", calls[i])
    BY <1>1, <1>3, <1>4, <1>5, <1>8 DEF Frank
  <2>2. \A i \in {3, 4} : Frank("IamRole", calls[i])
    BY <1>2, <1>8 DEF Frank, PassedOver
  <2> QED
    BY <2>1, <2>2
<1> QED
  BY <1>8, <1>9, <1>12, <1>13, <1>14 DEF Orderly, AllFrank, calls

LEMMA ServicesOrderly ==
    ASSUME NEW name \in DOMAIN Services
    PROVE  Orderly(Services[name]) /\ AllFrank(name, Services[name])
PROOF
<1>1. /\ Orderly(SecurityGroupCollector) /\ Orderly(RdsInstanceCollector)
      /\ Orderly(SubnetCollector) /\ Orderly(RouteTableCollector)
      /\ Orderly(InternetGatewayCollector) /\ Orderly(NetworkAclCollector)
  BY OneListing, PlainServices
  DEF SecurityGroupCollector, RdsInstanceCollector, SubnetCollector,
      RouteTableCollector, InternetGatewayCollector, NetworkAclCollector
<1>2. /\ Orderly(NetworkSecurityGroupCollector)
      /\ Orderly(ActivityLogSettingCollector)
      /\ Orderly(RoleDefinitionCollector) /\ Orderly(RoleAssignmentCollector)
  BY OneListing, PlainServices
  DEF NetworkSecurityGroupCollector, ActivityLogSettingCollector,
      RoleDefinitionCollector, RoleAssignmentCollector
<1>3. /\ AllFrank("SecurityGroup", SecurityGroupCollector)
      /\ AllFrank("RdsInstance", RdsInstanceCollector)
      /\ AllFrank("Subnet", SubnetCollector)
      /\ AllFrank("RouteTable", RouteTableCollector)
      /\ AllFrank("InternetGateway", InternetGatewayCollector)
      /\ AllFrank("NetworkAcl", NetworkAclCollector)
  BY OneListing
  DEF SecurityGroupCollector, RdsInstanceCollector, SubnetCollector,
      RouteTableCollector, InternetGatewayCollector, NetworkAclCollector,
      AwsService, AllFrank, Frank
<1>4. /\ AllFrank("NetworkSecurityGroup", NetworkSecurityGroupCollector)
      /\ AllFrank("ActivityLogSetting", ActivityLogSettingCollector)
      /\ AllFrank("RoleDefinition", RoleDefinitionCollector)
      /\ AllFrank("RoleAssignment", RoleAssignmentCollector)
  BY OneListing
  DEF NetworkSecurityGroupCollector, ActivityLogSettingCollector,
      RoleDefinitionCollector, RoleAssignmentCollector, AwsService,
      AzureService, AllFrank, Frank
<1> QED
  BY <1>1, <1>2, <1>3, <1>4, S3Orderly, IamOrderly, IamAccountOrderly, IamRoleOrderly,
     Ec2Orderly, CloudTrailOrderly, KmsOrderly, VpcOrderly,
     StorageAccountOrderly, VirtualMachineOrderly, KeyVaultOrderly
  DEF Services
-----------------------------------------------------------------------------
(***************************************************************************)
(* Sequences and what they hold; the calls that come before the items.     *)
(***************************************************************************)

LEMMA ToSetOfAppend ==
    ASSUME NEW S, NEW s \in Seq(S), NEW x \in S
    PROVE  ToSet(Append(s, x)) = ToSet(s) \union {x}
PROOF
<1>1. /\ Len(Append(s, x)) = Len(s) + 1 /\ Len(s) \in Nat
      /\ DOMAIN s = 1 .. Len(s) /\ Append(s, x) \in Seq(S)
      /\ DOMAIN Append(s, x) = 1 .. Len(Append(s, x))
      /\ \A i \in 1 .. Len(s) : Append(s, x)[i] = s[i]
      /\ Append(s, x)[Len(s) + 1] = x
  OBVIOUS
<1>2. \A i \in 1 .. Len(s) + 1 : i \in 1 .. Len(s) \/ i = Len(s) + 1
  BY <1>1
<1> QED
  BY <1>1, <1>2 DEF ToSet

LEMMA ToSetOfConcat ==
    ASSUME NEW S, NEW s \in Seq(S), NEW t \in Seq(S)
    PROVE  ToSet(s \o t) = ToSet(s) \union ToSet(t)
PROOF
<1>1. /\ Len(s \o t) = Len(s) + Len(t) /\ Len(s) \in Nat /\ Len(t) \in Nat
      /\ DOMAIN s = 1 .. Len(s) /\ DOMAIN t = 1 .. Len(t)
      /\ s \o t \in Seq(S) /\ DOMAIN (s \o t) = 1 .. Len(s \o t)
      /\ \A i \in 1 .. Len(s) : (s \o t)[i] = s[i]
      /\ \A i \in 1 .. Len(t) : (s \o t)[Len(s) + i] = t[i]
  OBVIOUS
<1>2. ASSUME NEW x \in ToSet(s \o t) PROVE x \in ToSet(s) \union ToSet(t)
  <2>1. PICK i \in 1 .. Len(s) + Len(t) : (s \o t)[i] = x
    BY <1>1, <1>2 DEF ToSet
  <2>2. CASE i <= Len(s)
    BY <1>1, <2>1, <2>2 DEF ToSet
  <2>3. CASE i > Len(s)
    <3>1. i - Len(s) \in 1 .. Len(t) /\ i = Len(s) + (i - Len(s))
      BY <1>1, <2>1, <2>3
    <3>2. t[i - Len(s)] = x
      BY <1>1, <2>1, <3>1
    <3> QED
      BY <1>1, <3>1, <3>2 DEF ToSet
  <2> QED
    BY <1>1, <2>1, <2>2, <2>3
<1>3. ASSUME NEW x \in ToSet(s) PROVE x \in ToSet(s \o t)
  <2>1. PICK i \in 1 .. Len(s) : s[i] = x
    BY <1>1, <1>3 DEF ToSet
  <2> QED
    BY <1>1, <2>1 DEF ToSet
<1>4. ASSUME NEW x \in ToSet(t) PROVE x \in ToSet(s \o t)
  <2>1. PICK i \in 1 .. Len(t) : t[i] = x
    BY <1>1, <1>4 DEF ToSet
  <2>2. Len(s) + i \in 1 .. Len(s \o t) /\ (s \o t)[Len(s) + i] = x
    BY <1>1, <2>1
  <2> QED
    BY <1>1, <2>2 DEF ToSet
<1> QED
  BY <1>2, <1>3, <1>4

LEMMA ToSetOfEmpty == ToSet(<<>>) = {}
BY DEF ToSet

LEMMA ShortSequence ==
    ASSUME NEW S, NEW s \in SeqOf(S, 2)
    PROVE  /\ s \in Seq(S) /\ Len(s) \in Nat /\ DOMAIN s = 1 .. Len(s)
           /\ \A i \in 1 .. Len(s) : s[i] \in S
PROOF
<1>1. PICK m \in 0 .. 2 : s \in [1 .. m -> S]
  BY DEF SeqOf
<1>2. s \in Seq(S)
  BY <1>1
<1> QED
  BY <1>2

LEMMA Alone ==
    ASSUME NEW S, NEW x \in S
    PROVE  Len(<<x>>) = 1 /\ <<x>> \in Seq(S)
OBVIOUS

LEMMA ListingsTyped ==
    ASSUME NEW service, NEW listing \in Listings(service)
    PROVE  listing \in SeqOf(Ids, 2)
PROOF
<1>1. CASE ListCalls(service) = {}
  <2>1. listing = <<"the account">> /\ "the account" \in Ids
    BY <1>1 DEF Listings, Ids
  <2>2. Len(listing) = 1 /\ listing \in Seq(Ids)
    BY <2>1, Alone
  <2>3. listing \in [1 .. 1 -> Ids] /\ 1 \in 0 .. 2
    BY <2>2
  <2> QED
    BY <2>3 DEF SeqOf
<1>2. CASE ListCalls(service) # {}
  <2>1. PICK m \in 0 .. 2 : listing \in [1 .. m -> Items]
    BY <1>2 DEF Listings, SeqOf
  <2>2. listing \in [1 .. m -> Ids]
    BY <2>1 DEF Ids
  <2> QED
    BY <2>2 DEF SeqOf
<1> QED
  BY <1>1, <1>2

LEMMA LeadingCalls ==
    ASSUME NEW service, Ordered(service.calls)
    PROVE  \E n \in 0 .. Len(service.calls) :
                /\ ListCalls(service) = 1 .. n
                /\ Cardinality(ListCalls(service)) = n
PROOF
<1>1. PICK n \in Nat : Leading(service.calls, n)
  BY DEF Ordered
<1>2. ListCalls(service) = 1 .. n /\ n \in 0 .. Len(service.calls)
  BY <1>1 DEF Ordered, Leading, ListCalls
<1>3. Cardinality(1 .. n) = n
  BY <1>2, FS_Interval
<1> QED
  BY <1>2, <1>3

\* What every other induction starts from.
Walked == TypeOK /\ WalkInv

LEMMA Sizes ==
    ASSUME Walked
    PROVE  /\ roster \in Seq(DOMAIN Services) /\ Len(roster) \in Nat
           /\ DOMAIN roster = 1 .. Len(roster)
           /\ pos \in Nat \ {0} /\ pos <= Len(roster) + 1
           /\ listings \in Seq(SeqOf(Ids, 2)) /\ Len(listings) \in Nat
           /\ DOMAIN listings = 1 .. Len(listings)
PROOF
<1>1. roster \in Seq(DOMAIN Services)
  BY CollectionConstants DEF Walked, WalkInv
<1>2. Len(roster) \in Nat /\ DOMAIN roster = 1 .. Len(roster)
  BY <1>1
<1>3. pos \in 1 .. (Len(roster) + 1) /\ listings \in Seq(SeqOf(Ids, 2))
  BY DEF Walked, TypeOK, Ids
<1>4. Len(listings) \in Nat /\ DOMAIN listings = 1 .. Len(listings)
  BY <1>3
<1> QED
  BY <1>1, <1>2, <1>3, <1>4

LEMMA ServiceHere ==
    ASSUME Walked, pos <= Len(roster)
    PROVE  /\ pos \in DOMAIN roster /\ pos \in 1 .. Len(roster)
           /\ Orderly(Service) /\ Len(Calls) \in Nat
           /\ DOMAIN Calls = 1 .. Len(Calls)
           /\ \A i \in 1 .. Len(Calls) :
                Made(Calls[i]) /\ Frank(roster[pos], Calls[i])
           /\ FirstItemCall \in 1 .. (Len(Calls) + 1)
           /\ ListCalls(Service) = 1 .. (FirstItemCall - 1)
PROOF
<1>1. pos \in 1 .. Len(roster) /\ pos \in DOMAIN roster
  BY Sizes
<1>2. roster[pos] \in DOMAIN Services
  BY <1>1, Sizes
<1>3. Orderly(Service) /\ AllFrank(roster[pos], Service)
  BY <1>2, ServicesOrderly DEF Service
<1>4. Ordered(Service.calls)
  BY <1>3 DEF Orderly
<1>5. \E n \in 0 .. Len(Calls) :
        ListCalls(Service) = 1 .. n /\ Cardinality(ListCalls(Service)) = n
  BY <1>4, LeadingCalls DEF Calls
<1> QED
  BY <1>1, <1>3, <1>4, <1>5 DEF Ordered, AllFrank, Calls, FirstItemCall

LEMMA Unmoved ==
    ASSUME roster' = roster, pos' = pos
    PROVE  /\ Service' = Service /\ Calls' = Calls
           /\ FirstItemCall' = FirstItemCall
           /\ Attributes(Service)' = Attributes(Service)
BY DEF Service, Calls, FirstItemCall, ListCalls, Attributes
-----------------------------------------------------------------------------
(***************************************************************************)
(* The walk.                                                               *)
(***************************************************************************)

LEMMA RespondsCounts ==
    ASSUME faults \in 0 .. MaxFaults, NEW call, NEW answer,
           Responds(call, answer)
    PROVE  faults' \in 0 .. MaxFaults
BY CollectionConstants DEF Responds

LEMMA WalkInit == ASSUME Init PROVE Walked
PROOF
<1>1. roster \in Seq(DOMAIN Services) /\ MaxFaults \in Nat
  BY CollectionConstants DEF Init
<1>2. Len(roster) \in Nat /\ DOMAIN roster = 1 .. Len(roster)
  BY <1>1
<1>3. ToSet(kept) = {} /\ ToSet(resources) = {}
  BY ToSetOfEmpty DEF Init
<1>4. TypeOK
  BY <1>1, <1>2, <1>3 DEF Init, TypeOK
<1>5. WalkInv
  BY <1>3 DEF Init, WalkInv
<1> QED
  BY <1>4, <1>5 DEF Walked

LEMMA ResolveWalks ==
    ASSUME Walked, ResolveAccount
    PROVE  Walked'
PROOF
<1>1. /\ phase = "label" /\ phase' = "gate"
      /\ UNCHANGED <<config, walk, resources, tally, refusals, outcome>>
      /\ account' \in {NoAccount, identity.account}
  BY DEF ResolveAccount
<1>2. faults' \in 0 .. MaxFaults
  BY RespondsCounts DEF ResolveAccount, Walked, TypeOK
<1>3. ToSet(kept') = {} /\ ToSet(resources') = {}
  BY <1>1, ToSetOfEmpty DEF Walked, WalkInv, walk
<1>4. TypeOK'
  BY <1>1, <1>2, <1>3 DEF Walked, TypeOK, config, walk, tally
<1>5. WalkInv'
  BY <1>1, <1>3 DEF Walked, WalkInv, config, walk
<1> QED
  BY <1>4, <1>5 DEF Walked

\* The phases in which nothing is being normalized.
LEMMA PhaseWalks ==
    ASSUME Walked, phase \notin {"label", "call"},
           UNCHANGED <<config, account, walk, resources, tally>>,
           phase' \in {"begin", "graph", "done"},
           faults' \in 0 .. MaxFaults,
           outcome' \in {"none", "refused", "failed", "completed", "partial"},
           phase = "done" => phase' = "done"
    PROVE  Walked'
PROOF
<1>1. TypeOK'
  BY DEF Walked, TypeOK, config, walk, tally
<1>2. WalkInv'
  <2>1. Len(listings) \in Nat /\ pos \in Nat
    BY Sizes
  <2> QED
    BY <2>1 DEF Walked, WalkInv, config, walk
<1> QED
  BY <1>1, <1>2 DEF Walked

LEMMA SkipCallWalks ==
    ASSUME Walked, SkipCall
    PROVE  Walked'
PROOF
<1>1. /\ phase = "call" /\ phase' = "call" /\ ~AtBoundary /\ at' = at + 1
      /\ UNCHANGED <<config, account, pos, listings, item, draft, kept,
                     resources, tally, faults, outcome>>
  BY DEF SkipCall
<1>2. /\ roster' = roster /\ pos' = pos /\ item' = item /\ draft' = draft
      /\ listings' = listings
  BY <1>1 DEF config
<1>3. pos <= Len(roster) /\ at \in 1 .. (Len(Calls) + 1)
  BY <1>1 DEF Walked, TypeOK
<1>4. Len(Calls) \in Nat /\ FirstItemCall \in 1 .. (Len(Calls) + 1)
  BY <1>3, ServiceHere
<1>5. /\ at' \in 1 .. (Len(Calls) + 1)
      /\ item = 0 => at' <= FirstItemCall
  BY <1>1, <1>3, <1>4 DEF AtBoundary, Walked, WalkInv
<1>6. TypeOK'
  BY <1>1, <1>2, <1>5, Unmoved DEF Walked, TypeOK, config, tally
<1>7. WalkInv'
  BY <1>1, <1>2, <1>5, Unmoved DEF Walked, WalkInv, config
<1> QED
  BY <1>6, <1>7 DEF Walked

LEMMA BeginWalks ==
    ASSUME Walked, BeginService
    PROVE  Walked'
PROOF
<1>1. /\ phase = "begin" /\ pos <= Len(roster)
      /\ UNCHANGED <<config, account, resources, tally, faults, outcome>>
  BY DEF BeginService
<1>2. PICK listing \in Listings(Service) : listings' = Append(listings, listing)
  BY DEF BeginService
<1>3. kept = <<>> /\ Len(listings) = pos - 1
  BY <1>1 DEF Walked, WalkInv
<1>4. listing \in SeqOf(Ids, 2) /\ Len(listing) \in Nat
  BY <1>2, ListingsTyped, ShortSequence
<1>5. /\ listings' \in Seq(SeqOf(Ids, 2)) /\ Len(listings') = pos
      /\ listings'[pos] = listing
      /\ \A i \in 1 .. (pos - 1) : listings'[i] = listings[i]
  BY <1>2, <1>3, <1>4, Sizes
<1>6. \A r \in ToSet(resources') :
        /\ r.pos \in 1 .. (pos - 1)
        /\ r.item \in DOMAIN listings'[r.pos]
        /\ r.id = listings'[r.pos][r.item]
  BY <1>1, <1>5 DEF Walked, WalkInv
<1>7. CASE /\ pos' = pos + 1
           /\ UNCHANGED <<phase, item, at, draft, kept>>
  <2>1. ToSet(kept') = {}
    BY <1>3, <1>7, ToSetOfEmpty
  <2>2. TypeOK'
    <3>1. phase' = "begin" /\ pos' \in 1 .. (Len(roster') + 1)
      BY <1>1, <1>7, Sizes DEF config
    <3>2. listings' \in Seq(SeqOf(Items \union {"the account"}, 2))
      BY <1>5 DEF Ids
    <3>3. \A r \in ToSet(resources') \union ToSet(kept') :
            /\ r.account = account'
            /\ r.marks \in [Attributes(Services[roster'[r.pos]]) -> Marks]
      BY <1>1, <2>1 DEF Walked, TypeOK, config
    <3> QED
      BY <1>1, <3>1, <3>2, <3>3 DEF Walked, TypeOK, config, tally
  <2>3. WalkInv'
    BY <1>1, <1>3, <1>5, <1>6, <1>7, <2>1, Sizes
    DEF Walked, WalkInv, config
  <2> QED
    BY <2>2, <2>3 DEF Walked
<1>8. CASE /\ phase' = "call" /\ item' = 0 /\ at' = 1
           /\ draft' = Fresh(Service) /\ kept' = <<>> /\ pos' = pos
  <2>1. ToSet(kept') = {} /\ <<>> \in Seq(Found)
    BY <1>8, ToSetOfEmpty
  <2>2. draft' \in [Attributes(Service) -> Marks]
    BY <1>8 DEF Fresh, Marks
  <2>3. /\ Len(Calls) \in Nat /\ FirstItemCall \in 1 .. (Len(Calls) + 1)
        /\ Calls' = Calls /\ FirstItemCall' = FirstItemCall
        /\ Attributes(Service)' = Attributes(Service)
    BY <1>1, <1>8, ServiceHere, Unmoved DEF config
  <2>4. TypeOK'
    <3>1. /\ pos' \in 1 .. (Len(roster') + 1)
          /\ pos' <= Len(roster') /\ Len(listings') = pos'
          /\ item' \in 0 .. Len(listings'[pos'])
          /\ at' \in 1 .. (Len(Calls') + 1)
      BY <1>1, <1>4, <1>5, <1>8, <2>3, Sizes DEF config
    <3>2. listings' \in Seq(SeqOf(Items \union {"the account"}, 2))
      BY <1>5 DEF Ids
    <3>3. \A r \in ToSet(resources') \union ToSet(kept') :
            /\ r.account = account'
            /\ r.marks \in [Attributes(Services[roster'[r.pos]]) -> Marks]
      BY <1>1, <2>1 DEF Walked, TypeOK, config
    <3> QED
      BY <1>1, <1>8, <2>2, <2>3, <3>1, <3>2, <3>3
      DEF Walked, TypeOK, config, tally
  <2>5. WalkInv'
    BY <1>1, <1>5, <1>6, <1>8, <2>1, <2>3, Sizes DEF Walked, WalkInv, config
  <2> QED
    BY <2>4, <2>5 DEF Walked
<1> QED
  BY <1>7, <1>8 DEF BeginService

\* Where a batch that one sub-collector returns comes from.
Batch(batch, last) ==
    /\ batch \in Seq(Found)
    /\ \A r \in ToSet(batch) :
        /\ r.pos = pos /\ r.item \in 1 .. last
        /\ r.item \in DOMAIN listings[pos] /\ r.id = listings[pos][r.item]
        /\ r.account = account
        /\ r.marks \in [Attributes(Services[roster[r.pos]]) -> Marks]

LEMMA HereInCall ==
    ASSUME Walked, phase = "call"
    PROVE  /\ pos <= Len(roster) /\ Len(listings) = pos
           /\ listings[pos] \in SeqOf(Ids, 2) /\ Len(listings[pos]) \in Nat
           /\ DOMAIN listings[pos] = 1 .. Len(listings[pos])
           /\ item \in Nat /\ item <= Len(listings[pos])
           /\ at \in Nat \ {0} /\ at <= Len(Calls) + 1
           /\ draft \in [Attributes(Service) -> Marks]
PROOF
<1>1. /\ pos <= Len(roster) /\ Len(listings) = pos
      /\ item \in 0 .. Len(listings[pos]) /\ at \in 1 .. (Len(Calls) + 1)
      /\ draft \in [Attributes(Service) -> Marks]
  BY DEF Walked, TypeOK
<1>2. listings[pos] \in SeqOf(Ids, 2)
  BY <1>1, Sizes
<1>3. /\ Len(listings[pos]) \in Nat
      /\ DOMAIN listings[pos] = 1 .. Len(listings[pos])
  BY <1>2, ShortSequence
<1>4. Len(Calls) \in Nat
  BY <1>1, ServiceHere
<1> QED
  BY <1>1, <1>2, <1>3, <1>4

LEMMA KeptIsBatch ==
    ASSUME Walked, phase = "call"
    PROVE  Batch(kept, item - 1) /\ Batch(kept, item)
PROOF
<1>1. item \in Nat /\ kept \in Seq(Found)
  BY HereInCall DEF Walked, WalkInv
<1>2. \A r \in ToSet(kept) :
        /\ r.pos = pos /\ r.item \in 1 .. (item - 1)
        /\ r.item \in DOMAIN listings[pos] /\ r.id = listings[pos][r.item]
  BY DEF Walked, WalkInv
<1>3. \A r \in ToSet(kept) :
        /\ r.account = account
        /\ r.marks \in [Attributes(Services[roster[r.pos]]) -> Marks]
  BY DEF Walked, TypeOK
<1> QED
  BY <1>1, <1>2, <1>3 DEF Batch

\* Whatever becomes of an item, the walk goes on from a proper place.
LEMMA AdvanceWalks ==
    ASSUME Walked, phase = "call", NEW batch, Batch(batch, item),
           Advance(batch),
           UNCHANGED <<config, account, listings, failed, outcome>>,
           {skipped', denials'} \subseteq [DOMAIN roster -> Nat],
           faults' \in 0 .. MaxFaults
    PROVE  Walked'
PROOF
<1>1. /\ roster' = roster /\ identity' = identity /\ bindings' = bindings
      /\ listings' = listings /\ account' = account
  BY DEF config
<1>2. /\ pos <= Len(roster) /\ Len(Calls) \in Nat
      /\ FirstItemCall \in 1 .. (Len(Calls) + 1)
  BY HereInCall, ServiceHere
<1>3. CASE item < Len(listings[pos])
  <2>1. /\ item' = item + 1 /\ at' = FirstItemCall /\ draft' = NextDraft
        /\ kept' = batch /\ UNCHANGED <<phase, pos, resources>>
    BY <1>3 DEF Advance
  <2>2. draft' \in [Attributes(Service) -> Marks]
    BY <2>1, HereInCall DEF NextDraft, Marks
  <2>3. /\ Calls' = Calls /\ FirstItemCall' = FirstItemCall
        /\ Attributes(Service)' = Attributes(Service)
    BY <1>1, <2>1, Unmoved
  <2>4. TypeOK'
    <3>1. /\ pos' \in 1 .. (Len(roster') + 1)
          /\ pos' <= Len(roster') /\ Len(listings') = pos'
          /\ item' \in 0 .. Len(listings'[pos'])
          /\ at' \in 1 .. (Len(Calls') + 1)
      BY <1>1, <1>2, <1>3, <2>1, <2>3, HereInCall, Sizes, SMTT(30)
    <3>2. \A r \in ToSet(resources') \union ToSet(kept') :
            /\ r.account = account'
            /\ r.marks \in [Attributes(Services[roster'[r.pos]]) -> Marks]
      BY <1>1, <2>1 DEF Walked, TypeOK, Batch
    <3> QED
      BY <1>1, <2>1, <2>2, <2>3, <3>1, <3>2 DEF Walked, TypeOK
  <2>5. WalkInv'
    BY <1>1, <1>2, <2>1, <2>3, HereInCall, SMTT(30) DEF Walked, WalkInv, Batch
  <2> QED
    BY <2>4, <2>5 DEF Walked
<1>4. CASE ~(item < Len(listings[pos]))
  <2>1. /\ resources' = resources \o batch
        /\ pos' = pos + 1 /\ phase' = "begin"
        /\ item' = 0 /\ at' = 1 /\ draft' = <<>> /\ kept' = <<>>
    BY <1>4 DEF Advance
  <2>2. resources \in Seq(Found) /\ batch \in Seq(Found)
    BY DEF Walked, WalkInv, Batch
  <2>3. /\ ToSet(resources') = ToSet(resources) \union ToSet(batch)
        /\ resources' \in Seq(Found)
        /\ ToSet(kept') = {} /\ kept' \in Seq(Found)
    BY <2>1, <2>2, ToSetOfConcat, ToSetOfEmpty
  <2>4. TypeOK'
    <3>1. pos' \in 1 .. (Len(roster') + 1)
      BY <1>1, <2>1, HereInCall, Sizes
    <3>2. \A r \in ToSet(resources') \union ToSet(kept') :
            /\ r.account = account'
            /\ r.marks \in [Attributes(Services[roster'[r.pos]]) -> Marks]
      BY <1>1, <2>3 DEF Walked, TypeOK, Batch
    <3> QED
      BY <1>1, <2>1, <3>1, <3>2 DEF Walked, TypeOK
  <2>5. WalkInv'
    <3>1. \A r \in ToSet(resources') :
            /\ r.pos \in 1 .. (pos' - 1)
            /\ r.item \in DOMAIN listings'[r.pos]
            /\ r.id = listings'[r.pos][r.item]
      <4>1. \A r \in ToSet(resources) :
              /\ r.pos \in 1 .. (pos - 1)
              /\ r.item \in DOMAIN listings[r.pos]
              /\ r.id = listings[r.pos][r.item]
        BY DEF Walked, WalkInv
      <4>2. \A r \in ToSet(batch) :
              /\ r.pos = pos /\ r.item \in DOMAIN listings[pos]
              /\ r.id = listings[pos][r.item]
        BY DEF Batch
      <4>3. pos \in Nat \ {0} /\ pos' - 1 = pos
        BY <2>1, Sizes
      <4> QED
        BY <1>1, <2>3, <4>1, <4>2, <4>3
    <3>2. /\ roster' \in Rosters /\ identity' \in Identities
          /\ bindings' \subseteq Bindings
      BY <1>1 DEF Walked, WalkInv
    <3>3. Len(listings') = pos' - 1
      BY <1>1, <2>1, HereInCall, Sizes
    <3> QED
      BY <2>1, <2>3, <3>1, <3>2, <3>3 DEF WalkInv
  <2> QED
    BY <2>4, <2>5 DEF Walked
<1> QED
  BY <1>3, <1>4

LEMMA ResourceTyped ==
    ASSUME Walked, phase = "call", item # 0
    PROVE  /\ Resource \in Found
           /\ Resource.pos = pos /\ Resource.item = item
           /\ Resource.id = listings[pos][item]
           /\ Resource.account = account /\ Resource.marks = draft
           /\ item \in DOMAIN listings[pos]
PROOF
<1>1. /\ item \in DOMAIN listings[pos] /\ item \in Nat /\ pos \in Nat
      /\ listings[pos] \in SeqOf(Ids, 2)
  BY HereInCall, Sizes
<1>2. listings[pos][item] \in Ids
  BY <1>1, ShortSequence
<1>3. account \in Accounts
  BY DEF Walked, TypeOK, WalkInv, Accounts
<1>4. draft \in UNION {[Attributes(Services[name]) -> Marks] :
                           name \in DOMAIN Services}
  <2>1. roster[pos] \in DOMAIN Services
    BY HereInCall, Sizes
  <2>2. draft \in [Attributes(Services[roster[pos]]) -> Marks]
    BY HereInCall DEF Service
  <2> QED
    BY <2>1, <2>2
<1> QED
  BY <1>1, <1>2, <1>3, <1>4 DEF Resource, Found

LEMMA KeepingIsBatch ==
    ASSUME Walked, phase = "call"
    PROVE  Batch(Keeping, item)
PROOF
<1>1. CASE item = 0 \/ Listed(Service, kept)
  BY <1>1, KeptIsBatch DEF Keeping
<1>2. CASE item # 0 /\ ~Listed(Service, kept)
  <2>1. Keeping = Append(kept, Resource)
    BY <1>2 DEF Keeping
  <2>2. kept \in Seq(Found) /\ Batch(kept, item)
    BY KeptIsBatch DEF Batch
  <2>3. ToSet(Keeping) = ToSet(kept) \union {Resource}
    BY <1>2, <2>1, <2>2, ResourceTyped, ToSetOfAppend
  <2>4. Keeping \in Seq(Found)
    BY <1>2, <2>1, <2>2, ResourceTyped
  <2>5. Resource.marks \in [Attributes(Services[roster[Resource.pos]]) -> Marks]
    BY <1>2, ResourceTyped, HereInCall DEF Service
  <2>6. Resource.item \in 1 .. item
    BY <1>2, ResourceTyped, HereInCall
  <2> QED
    BY <1>2, <2>2, <2>3, <2>4, <2>5, <2>6, ResourceTyped DEF Batch
<1> QED
  BY <1>1, <1>2

LEMMA NextItemWalks ==
    ASSUME Walked, NextItem
    PROVE  Walked'
PROOF
<1>1. /\ phase = "call" /\ Advance(Keeping)
      /\ UNCHANGED <<config, account, listings, tally, faults, outcome>>
  BY DEF NextItem
<1>2. /\ {skipped', denials'} \subseteq [DOMAIN roster -> Nat]
      /\ faults' \in 0 .. MaxFaults
  BY <1>1 DEF Walked, TypeOK, tally
<1> QED
  BY <1>1, <1>2, KeepingIsBatch, AdvanceWalks DEF tally

LEMMA FailServiceWalks ==
    ASSUME Walked, phase = "call", FailService, UNCHANGED <<config, account>>,
           denials' \in [DOMAIN roster -> Nat], faults' \in 0 .. MaxFaults
    PROVE  Walked'
PROOF
<1>1. /\ failed' = failed \union {pos}
      /\ pos' = pos + 1 /\ phase' = "begin"
      /\ item' = 0 /\ at' = 1 /\ draft' = <<>> /\ kept' = <<>>
      /\ UNCHANGED <<listings, resources, skipped, outcome>>
      /\ UNCHANGED <<roster, identity, bindings, account>>
  BY DEF FailService, config
<1>2. /\ pos \in DOMAIN roster /\ pos' \in 1 .. (Len(roster) + 1)
      /\ Len(listings') = pos' - 1 /\ pos \in Nat
  BY <1>1, HereInCall, Sizes, SMTT(30)
<1>3. ToSet(kept') = {} /\ kept' \in Seq(Found)
  BY <1>1, ToSetOfEmpty
<1>4. TypeOK'
  BY <1>1, <1>2, <1>3 DEF Walked, TypeOK
<1>5. \A r \in ToSet(resources') :
        /\ r.pos \in 1 .. (pos' - 1)
        /\ r.item \in DOMAIN listings'[r.pos]
        /\ r.id = listings'[r.pos][r.item]
  BY <1>1, <1>2 DEF Walked, WalkInv
<1>6. WalkInv'
  BY <1>1, <1>2, <1>3, <1>5 DEF Walked, WalkInv
<1> QED
  BY <1>4, <1>6 DEF Walked

LEMMA EscapeWalks ==
    ASSUME Walked, phase = "call", Escape, UNCHANGED <<config, account>>,
           denials' \in [DOMAIN roster -> Nat], faults' \in 0 .. MaxFaults
    PROVE  Walked'
PROOF
<1>1. /\ phase' = "done" /\ outcome' = "failed"
      /\ UNCHANGED <<pos, listings, item, at, draft, kept, resources, failed,
                     skipped, roster, identity, bindings, account>>
  BY DEF Escape, Ends, walk, config
<1>2. Len(listings) >= pos - 1
  BY HereInCall, Sizes
<1>3. TypeOK'
  BY <1>1 DEF Walked, TypeOK
<1>4. WalkInv'
  BY <1>1, <1>2 DEF Walked, WalkInv
<1> QED
  BY <1>3, <1>4 DEF Walked

\* The call that is made before the items is a listing.
LEMMA CallHere ==
    ASSUME Walked, phase = "call", ~AtBoundary
    PROVE  /\ at \in 1 .. Len(Calls) /\ Made(Call)
           /\ Frank(roster[pos], Call)
           /\ item = 0 => at \in ListCalls(Service)
PROOF
<1>1. /\ Len(Calls) \in Nat /\ FirstItemCall \in 1 .. (Len(Calls) + 1)
      /\ ListCalls(Service) = 1 .. (FirstItemCall - 1)
      /\ \A i \in 1 .. Len(Calls) :
            Made(Calls[i]) /\ Frank(roster[pos], Calls[i])
  BY HereInCall, ServiceHere
<1>2. at \in Nat \ {0} /\ at <= Len(Calls) + 1 /\ item \in Nat
  BY HereInCall
<1>3. CASE item = 0
  <2>1. at <= FirstItemCall
    BY <1>3 DEF Walked, WalkInv
  <2>2. at # FirstItemCall
    BY <1>3 DEF AtBoundary
  <2>3. at \in 1 .. Len(Calls) /\ at \in 1 .. (FirstItemCall - 1)
    BY <1>1, <1>2, <2>1, <2>2
  <2> QED
    BY <1>1, <2>3 DEF Call
<1>4. CASE item # 0
  <2>1. at # Len(Calls) + 1
    BY <1>4 DEF AtBoundary
  <2> QED
    BY <1>1, <1>2, <1>4, <2>1 DEF Call
<1> QED
  BY <1>3, <1>4

LEMMA ProceedWalks ==
    ASSUME Walked, phase = "call", ~AtBoundary, NEW answer, Proceed(answer),
           UNCHANGED <<config, account>>,
           denials' \in [DOMAIN roster -> Nat], faults' \in 0 .. MaxFaults
    PROVE  Walked'
PROOF
<1>1. /\ draft' = Marked(Call, answer) /\ at' = at + 1
      /\ UNCHANGED <<phase, pos, listings, item, kept, resources, failed,
                     skipped, outcome, roster, identity, bindings, account>>
  BY DEF Proceed, config
<1>2. Len(Calls) \in Nat /\ FirstItemCall \in 1 .. (Len(Calls) + 1)
  BY HereInCall, ServiceHere
<1>3. /\ at' \in 1 .. (Len(Calls) + 1)
      /\ item = 0 => at' <= FirstItemCall
  <2>1. item = 0 => at <= FirstItemCall
    BY DEF Walked, WalkInv
  <2> QED
    BY <1>1, <1>2, <2>1, HereInCall DEF AtBoundary
<1>4. draft' \in [Attributes(Service) -> Marks]
  <2>1. Call.leaves \in Marks
    BY CallHere DEF Made
  <2> QED
    BY <1>1, <2>1, HereInCall DEF Marked
<1>5. /\ Calls' = Calls /\ FirstItemCall' = FirstItemCall
      /\ Attributes(Service)' = Attributes(Service)
  BY <1>1, Unmoved
<1>6. TypeOK'
  BY <1>1, <1>3, <1>4, <1>5 DEF Walked, TypeOK
<1>7. WalkInv'
  BY <1>1, <1>3, <1>5 DEF Walked, WalkInv
<1> QED
  BY <1>6, <1>7 DEF Walked

LEMMA SkipItemWalks ==
    ASSUME Walked, phase = "call", SkipItem, UNCHANGED <<config, account>>,
           denials' \in [DOMAIN roster -> Nat], faults' \in 0 .. MaxFaults
    PROVE  Walked'
PROOF
<1>1. /\ skipped' = [skipped EXCEPT ![pos] = @ + 1] /\ Advance(kept)
      /\ UNCHANGED <<failed, outcome, listings>>
  BY DEF SkipItem
<1>2. skipped' \in [DOMAIN roster -> Nat]
  <2>1. skipped \in [DOMAIN roster -> Nat]
    BY DEF Walked, TypeOK
  <2>2. pos \in DOMAIN roster
    BY HereInCall, ServiceHere
  <2> QED
    BY <1>1, <2>1, <2>2
<1> QED
  BY <1>1, <1>2, KeptIsBatch, AdvanceWalks

\* What an answer does: it is noted, and then one of four things happens.
LEMMA CallOutcomes ==
    ASSUME MakeCall
    PROVE  \E answer \in Answers :
            /\ Responds(Call, answer)
            /\ denials' = [denials EXCEPT ![pos] = @ + Denials(Call, answer)]
            /\ refusals' =
                IF answer \notin Failures THEN refusals
                ELSE refusals \union {[pos |-> pos, item |-> item,
                                       op |-> Call.op, answer |-> answer]}
            /\ \/ /\ answer \in {"ok", "absent"} \union Call.tolerates
                  /\ Proceed(answer)
               \/ /\ answer \in Failures /\ Service.each /\ item # 0
                  /\ SkipItem
               \/ /\ answer \in Failures /\ (Service.each => item = 0)
                  /\ FailService
               \/ Escape
PROOF
<1>1. PICK answer \in Answers :
        /\ Responds(Call, answer)
        /\ denials' = [denials EXCEPT ![pos] = @ + Denials(Call, answer)]
        /\ refusals' =
            IF answer \notin Failures THEN refusals
            ELSE refusals \union {[pos |-> pos, item |-> item, op |-> Call.op,
                                   answer |-> answer]}
        /\ CASE answer \in {"ok", "absent"} \union Call.tolerates ->
                    Proceed(answer)
             [] answer \in Failures \ Call.tolerates
                  /\ Service.each /\ item # 0 -> SkipItem
             [] answer \in Failures \ Call.tolerates
                  /\ ~(Service.each /\ item # 0)
                  /\ RaisedAs(Call, answer) \in Service.catches -> FailService
             [] OTHER -> Escape
  BY DEF MakeCall
<1> QED
  BY <1>1

LEMMA MakeCallWalks ==
    ASSUME Walked, MakeCall
    PROVE  Walked'
PROOF
<1>1. /\ phase = "call" /\ ~AtBoundary /\ UNCHANGED <<config, account>>
  BY DEF MakeCall
<1>2. PICK answer \in Answers :
        /\ Responds(Call, answer)
        /\ denials' = [denials EXCEPT ![pos] = @ + Denials(Call, answer)]
        /\ Proceed(answer) \/ SkipItem \/ FailService \/ Escape
  BY CallOutcomes
<1>3. Denials(Call, answer) \in Nat
  BY DEF Denials
<1>4. denials' \in [DOMAIN roster -> Nat]
  <2>1. denials \in [DOMAIN roster -> Nat]
    BY DEF Walked, TypeOK
  <2>2. pos \in DOMAIN roster
    BY <1>1, HereInCall, ServiceHere
  <2> QED
    BY <1>2, <1>3, <2>1, <2>2
<1>5. faults' \in 0 .. MaxFaults
  BY <1>2, RespondsCounts DEF Walked, TypeOK
<1> QED
  BY <1>1, <1>2, <1>4, <1>5, ProceedWalks, SkipItemWalks, FailServiceWalks,
     EscapeWalks

LEMMA GateWalks ==
    ASSUME Walked, VerifyIdentity
    PROVE  Walked'
PROOF
<1>1. /\ phase = "gate" /\ phase' \in {"begin", "done"}
      /\ outcome' \in {outcome, "refused"}
      /\ UNCHANGED <<config, account, walk, resources, tally>>
  BY DEF VerifyIdentity, Ends
<1>2. faults' \in 0 .. MaxFaults
  BY RespondsCounts DEF VerifyIdentity, Walked, TypeOK
<1>3. outcome' \in {"none", "refused", "failed", "completed", "partial"}
  BY <1>1 DEF Walked, TypeOK
<1> QED
  BY <1>1, <1>2, <1>3, PhaseWalks

LEMMA EndWalks ==
    ASSUME Walked, EndCollection \/ Conclude
    PROVE  Walked'
PROOF
<1>1. /\ phase \in {"begin", "graph"} /\ phase' \in {"graph", "done"}
      /\ outcome' \in {outcome, "failed", "completed", "partial"}
      /\ UNCHANGED <<config, account, walk, resources, tally, faults>>
  BY DEF EndCollection, Conclude, Ends
<1>2. outcome' \in {"none", "refused", "failed", "completed", "partial"}
  BY <1>1 DEF Walked, TypeOK
<1>3. faults' \in 0 .. MaxFaults
  BY <1>1 DEF Walked, TypeOK
<1> QED
  BY <1>1, <1>2, <1>3, PhaseWalks

LEMMA WalkNext ==
    ASSUME Walked, [Next]_vars
    PROVE  Walked'
PROOF
<1>1. CASE UNCHANGED vars
  <2>1. /\ UNCHANGED <<roster, identity, bindings, phase, account, pos,
                       listings, item, at, draft, kept, resources, failed,
                       skipped, denials, faults, outcome>>
    BY <1>1 DEF vars, config, walk, tally
  <2>2. /\ Calls' = Calls /\ FirstItemCall' = FirstItemCall
        /\ Attributes(Service)' = Attributes(Service)
    BY <2>1, Unmoved
  <2>3. TypeOK' /\ WalkInv'
    BY <2>1, <2>2 DEF Walked, TypeOK, WalkInv
  <2> QED
    BY <2>3 DEF Walked
<1> QED
  BY <1>1, ResolveWalks, GateWalks, BeginWalks, SkipCallWalks, MakeCallWalks,
     NextItemWalks, EndWalks DEF Next

LEMMA WalkInvariant == Spec => []Walked
PROOF
<1> QED
  BY WalkInit, WalkNext, PTL DEF Spec

-----------------------------------------------------------------------------
(***************************************************************************)
(* What is presented as read.                                              *)
(***************************************************************************)

\* The failures remembered are of calls that have been made.
RefusalsPlaced(noted, last) ==
    \A f \in noted :
        /\ f.pos \in 1 .. pos /\ f.item \in Nat
        /\ f.pos = pos => f.item <= last
        /\ f.item = 0 => \E c \in ListCalls(ServiceAt(f.pos)) :
                            ServiceAt(f.pos).calls[c].op = f.op

LEMMA UnfoundedNext ==
    ASSUME roster' = roster
    PROVE  /\ \A p, i, a : Unfounded(p, i, a)' <=> Blamed(refusals', p, i, a)
           /\ \A a : Unfounded(pos, item, a)'
                        <=> Blamed(refusals', pos', item', a)
BY DEF Unfounded, Blamed, ServiceAt

\* Operations are named once per service: a failure blames what it feeds.
LEMMA Blame ==
    ASSUME Walked, phase = "call", ~AtBoundary, NEW answer,
           refusals' =
               IF answer \notin Failures THEN refusals
               ELSE refusals \union {[pos |-> pos, item |-> item,
                                      op |-> Call.op, answer |-> answer]},
           NEW p, NEW i, NEW a, Blamed(refusals', p, i, a),
           ~Unfounded(p, i, a)
    PROVE  /\ p = pos /\ item \in {0, i} /\ a \in Call.feeds
           /\ answer \in Failures /\ ~PassedOver(roster[pos], Call.op, answer)
PROOF
<1>1. PICK f \in refusals' :
        /\ f.pos = p /\ f.item \in {0, i}
        /\ ~PassedOver(roster[p], f.op, f.answer)
        /\ \E c \in DOMAIN ServiceAt(p).calls :
            /\ a \in ServiceAt(p).calls[c].feeds
            /\ ServiceAt(p).calls[c].op = f.op
  BY DEF Blamed
<1>2. f \notin refusals
  BY <1>1 DEF Unfounded, Blamed
<1>3. /\ answer \in Failures /\ f.pos = pos /\ f.item = item
      /\ f.op = Call.op /\ f.answer = answer
  BY <1>2
<1>4. PICK c \in DOMAIN Calls : a \in Calls[c].feeds /\ Calls[c].op = Call.op
  BY <1>1, <1>3 DEF ServiceAt, Service, Calls
<1>5. c = at
  BY <1>4, CallHere, HereInCall, ServiceHere
  DEF Orderly, Ordered, Distinct, Call, Calls
<1> QED
  BY <1>1, <1>3, <1>4, <1>5 DEF Call

LEMMA NotedPlaced ==
    ASSUME Walked, TruthInv, phase = "call", ~AtBoundary, NEW answer,
           refusals' =
               IF answer \notin Failures THEN refusals
               ELSE refusals \union {[pos |-> pos, item |-> item,
                                      op |-> Call.op, answer |-> answer]}
    PROVE  RefusalsPlaced(refusals', item)
PROOF
<1>1. RefusalsPlaced(refusals, item)
  BY DEF TruthInv, RefusalsPlaced
<1>2. pos \in 1 .. pos /\ item \in Nat /\ item <= item
  BY HereInCall, Sizes
<1>3. item = 0 => \E c \in ListCalls(ServiceAt(pos)) :
                    ServiceAt(pos).calls[c].op = Call.op
  BY CallHere DEF ServiceAt, Service, Call, Calls
<1> QED
  BY <1>1, <1>2, <1>3 DEF RefusalsPlaced

LEMMA AdvanceTruth ==
    ASSUME Walked, phase = "call", NEW batch, Batch(batch, item),
           Advance(batch), roster' = roster,
           RefusalsPlaced(refusals', item),
           \A r \in ToSet(resources) \union ToSet(batch) :
             \A a \in DOMAIN r.marks :
               r.marks[a] = "plain" => ~Blamed(refusals', r.pos, r.item, a),
           \A a \in DOMAIN draft :
               draft[a] = "plain" => ~Blamed(refusals', pos, 0, a)
    PROVE  TruthInv'
PROOF
<1>1. \A f \in refusals' :
        /\ f.pos \in 1 .. pos /\ f.item \in Nat
        /\ f.pos = pos => f.item <= item
        /\ f.item = 0 => \E c \in ListCalls(ServiceAt(f.pos))' :
                            (ServiceAt(f.pos).calls[c].op)' = f.op
  BY DEF RefusalsPlaced, ServiceAt, ListCalls
<1>2. item \in Nat /\ pos \in Nat \ {0}
  BY HereInCall, Sizes
<1>3. CASE item < Len(listings[pos])
  <2>1. /\ item' = item + 1 /\ draft' = NextDraft /\ kept' = batch
        /\ UNCHANGED <<phase, pos, resources>>
    BY <1>3 DEF Advance
  <2>2. ASSUME NEW a \in DOMAIN draft', draft'[a] = "plain",
               Blamed(refusals', pos, item + 1, a)
        PROVE  FALSE
    <3>1. PICK f \in refusals' :
            /\ f.pos = pos /\ f.item \in {0, item + 1}
            /\ ~PassedOver(roster[pos], f.op, f.answer)
            /\ \E c \in DOMAIN ServiceAt(pos).calls :
                /\ a \in ServiceAt(pos).calls[c].feeds
                /\ ServiceAt(pos).calls[c].op = f.op
      BY <2>2 DEF Blamed
    <3>2. f.item = 0
      BY <1>1, <1>2, <3>1
    <3>3. Blamed(refusals', pos, 0, a)
      BY <3>1, <3>2 DEF Blamed
    <3>4. ~\E i \in ListCalls(Service) : a \in Calls[i].feeds
      BY <2>1, <2>2, <3>3 DEF NextDraft
    <3>5. PICK l \in ListCalls(Service) : Calls[l].op = f.op
      BY <3>1, <3>2 DEF RefusalsPlaced, ServiceAt, Service, Calls
    <3>6. PICK c \in DOMAIN Calls : a \in Calls[c].feeds /\ Calls[c].op = f.op
      BY <3>1 DEF ServiceAt, Service, Calls
    <3>7. l = c
      BY <3>5, <3>6, HereInCall, ServiceHere
      DEF Orderly, Ordered, Distinct, Calls, ListCalls
    <3> QED
      BY <3>4, <3>5, <3>6, <3>7
  <2>3. \A a \in DOMAIN draft' :
            draft'[a] = "plain" => ~Unfounded(pos, item, a)'
    BY <2>1, <2>2, UnfoundedNext
  <2> QED
    BY <1>1, <1>2, <2>1, <2>3, UnfoundedNext DEF TruthInv
<1>4. CASE ~(item < Len(listings[pos]))
  <2>1. /\ resources' = resources \o batch
        /\ pos' = pos + 1 /\ phase' = "begin" /\ kept' = <<>>
    BY <1>4 DEF Advance
  <2>2. /\ ToSet(resources') = ToSet(resources) \union ToSet(batch)
        /\ ToSet(kept') = {}
    BY <2>1, ToSetOfConcat, ToSetOfEmpty DEF Walked, WalkInv, Batch
  <2> QED
    BY <1>1, <1>2, <2>1, <2>2, UnfoundedNext DEF TruthInv
<1> QED
  BY <1>3, <1>4

LEMMA TruthInit == ASSUME Init PROVE TruthInv
BY ToSetOfEmpty DEF Init, TruthInv

\* Outside a sub-collector there is nothing new to be honest about.
LEMMA QuietTruth ==
    ASSUME TruthInv, phase # "call", phase' # "call",
           phase = "done" => phase' = "done",
           UNCHANGED <<roster, pos, item, kept, resources, refusals>>
    PROVE  TruthInv'
PROOF
<1>1. \A f \in refusals' :
        /\ f.pos \in 1 .. pos' /\ f.item \in Nat
        /\ f.pos = pos' => phase' \in {"call", "done"} /\ f.item <= item'
        /\ f.item = 0 => \E c \in ListCalls(ServiceAt(f.pos))' :
                            (ServiceAt(f.pos).calls[c].op)' = f.op
  BY DEF TruthInv, ServiceAt, ListCalls
<1>2. \A r \in ToSet(resources') \union ToSet(kept') : \A a \in DOMAIN r.marks :
        r.marks[a] = "plain" => ~Unfounded(r.pos, r.item, a)'
  BY UnfoundedNext DEF TruthInv, Unfounded
<1> QED
  BY <1>1, <1>2 DEF TruthInv

LEMMA BeginTruth ==
    ASSUME Walked, TruthInv, BeginService
    PROVE  TruthInv'
PROOF
<1>1. /\ phase = "begin" /\ pos \in Nat \ {0} /\ kept = <<>>
      /\ UNCHANGED <<roster, resources, refusals>>
  BY Sizes DEF BeginService, config, Walked, WalkInv
<1>2. /\ kept' = <<>>
      /\ \/ pos' = pos + 1 /\ phase' = "begin"
         \/ /\ pos' = pos /\ phase' = "call" /\ item' = 0
            /\ draft' = Fresh(Service)
  BY <1>1 DEF BeginService
<1>3. \A f \in refusals' :
        /\ f.pos \in 1 .. (pos - 1) /\ f.item \in Nat
        /\ f.item = 0 => \E c \in ListCalls(ServiceAt(f.pos))' :
                            (ServiceAt(f.pos).calls[c].op)' = f.op
  BY <1>1 DEF TruthInv, ServiceAt, ListCalls
<1>4. \A r \in ToSet(resources') \union ToSet(kept') : \A a \in DOMAIN r.marks :
        r.marks[a] = "plain" => ~Unfounded(r.pos, r.item, a)'
  BY <1>1, <1>2, UnfoundedNext DEF TruthInv, Unfounded
<1>5. phase' = "call" => \A a : ~Unfounded(pos, item, a)'
  BY <1>1, <1>2, <1>3, UnfoundedNext DEF Blamed
<1> QED
  BY <1>1, <1>2, <1>3, <1>4, <1>5 DEF TruthInv

LEMMA SkipCallTruth ==
    ASSUME Walked, TruthInv, SkipCall
    PROVE  TruthInv'
PROOF
<1>1. UNCHANGED <<roster, phase, pos, item, draft, kept, resources, refusals>>
  BY DEF SkipCall, config
<1> QED
  BY <1>1, UnfoundedNext DEF TruthInv, Unfounded, ServiceAt, ListCalls

LEMMA NextItemTruth ==
    ASSUME Walked, TruthInv, NextItem
    PROVE  TruthInv'
PROOF
<1>1. /\ phase = "call" /\ Advance(Keeping) /\ UNCHANGED <<roster, refusals>>
  BY DEF NextItem, config
<1>2. Batch(Keeping, item)
  BY <1>1, KeepingIsBatch
<1>3. RefusalsPlaced(refusals', item)
  BY <1>1 DEF TruthInv, RefusalsPlaced
<1>4. \A a \in DOMAIN draft : draft[a] = "plain" =>
            ~Blamed(refusals', pos, 0, a) /\ ~Blamed(refusals', pos, item, a)
  BY <1>1 DEF TruthInv, Unfounded, Blamed
<1>5. ToSet(Keeping) \subseteq ToSet(kept) \union
        (IF item # 0 THEN {Resource} ELSE {})
  <2>1. CASE item = 0 \/ Listed(Service, kept)
    BY <2>1 DEF Keeping
  <2>2. CASE item # 0 /\ ~Listed(Service, kept)
    BY <1>1, <2>2, KeptIsBatch, ResourceTyped, ToSetOfAppend
    DEF Keeping, Batch
  <2> QED
    BY <2>1, <2>2
<1>6. ASSUME NEW r \in ToSet(resources) \union ToSet(Keeping),
             NEW a \in DOMAIN r.marks, r.marks[a] = "plain"
      PROVE  ~Blamed(refusals', r.pos, r.item, a)
  <2>1. CASE r \in ToSet(resources) \union ToSet(kept)
    BY <1>1, <1>6, <2>1 DEF TruthInv, Unfounded
  <2>2. CASE item # 0 /\ r = Resource
    BY <1>1, <1>4, <1>6, <2>2, ResourceTyped
  <2> QED
    BY <1>5, <1>6, <2>1, <2>2
<1> QED
  BY <1>1, <1>2, <1>3, <1>4, <1>6, AdvanceTruth

\* A call's answer is put down to it.
Noted(answer) ==
    refusals' = IF answer \notin Failures THEN refusals
                ELSE refusals \union {[pos |-> pos, item |-> item,
                                       op |-> Call.op, answer |-> answer]}

\* A failure never bears on what is already described.
LEMMA DescribedStands ==
    ASSUME Walked, TruthInv, phase = "call", ~AtBoundary, NEW answer,
           Noted(answer),
           NEW r \in ToSet(resources) \union ToSet(kept),
           NEW a \in DOMAIN r.marks, r.marks[a] = "plain"
    PROVE  ~Blamed(refusals', r.pos, r.item, a)
PROOF
<1> SUFFICES ASSUME Blamed(refusals', r.pos, r.item, a) PROVE FALSE
  OBVIOUS
<1>1. ~Unfounded(r.pos, r.item, a)
  BY DEF TruthInv
<1>2. r.pos = pos /\ item \in {0, r.item}
  BY <1>1, Blame, SMTT(30) DEF Noted
<1>3. r \in ToSet(kept)
  BY <1>2, Sizes DEF Walked, WalkInv
<1>4. r.item \in 1 .. (item - 1) /\ item \in Nat
  BY <1>3, HereInCall DEF Walked, WalkInv
<1> QED
  BY <1>2, <1>4

LEMMA SkipItemTruth ==
    ASSUME Walked, TruthInv, phase = "call", ~AtBoundary, NEW answer,
           Noted(answer), item # 0, SkipItem, roster' = roster
    PROVE  TruthInv'
PROOF
<1>1. Advance(kept) /\ Batch(kept, item)
  BY KeptIsBatch DEF SkipItem
<1>2. RefusalsPlaced(refusals', item)
  BY NotedPlaced DEF Noted
<1>3. \A r \in ToSet(resources) \union ToSet(kept) : \A a \in DOMAIN r.marks :
        r.marks[a] = "plain" => ~Blamed(refusals', r.pos, r.item, a)
  BY DescribedStands
<1>4. ASSUME NEW a \in DOMAIN draft, draft[a] = "plain",
             Blamed(refusals', pos, 0, a)
      PROVE  FALSE
  <2>1. ~Unfounded(pos, 0, a)
    BY <1>4 DEF TruthInv, Unfounded, Blamed
  <2>2. \E f \in refusals' : f \notin refusals /\ f.item = 0
    BY <1>4, <2>1 DEF Unfounded, Blamed
  <2> QED
    BY <2>2 DEF Noted
<1> QED
  BY <1>1, <1>2, <1>3, <1>4, AdvanceTruth

LEMMA ProceedTruth ==
    ASSUME Walked, TruthInv, phase = "call", ~AtBoundary, NEW answer,
           Noted(answer), Proceed(answer), roster' = roster,
           answer \in {"ok", "absent"} \union Call.tolerates
    PROVE  TruthInv'
PROOF
<1>1. /\ draft' = Marked(Call, answer)
      /\ UNCHANGED <<phase, pos, item, kept, resources>>
  BY DEF Proceed
<1>2. RefusalsPlaced(refusals', item)
  BY NotedPlaced DEF Noted
<1>3. \A r \in ToSet(resources) \union ToSet(kept) : \A a \in DOMAIN r.marks :
        r.marks[a] = "plain" => ~Blamed(refusals', r.pos, r.item, a)
  BY DescribedStands
<1>4. ASSUME NEW a \in DOMAIN draft', draft'[a] = "plain",
             Blamed(refusals', pos, item, a)
      PROVE  FALSE
  <2>1. a \in DOMAIN draft /\ draft[a] = "plain"
    BY <1>1, <1>4, HereInCall DEF Marked, Marks
  <2>2. ~Unfounded(pos, item, a)
    BY <2>1 DEF TruthInv
  <2>3. /\ a \in Call.feeds /\ answer \in Failures
        /\ ~PassedOver(roster[pos], Call.op, answer)
    BY <1>4, <2>2, Blame DEF Noted
  <2>4. answer \in Call.tolerates
    BY <2>3 DEF Failures
  <2>5. Call.leaves = "plain"
    BY <1>1, <1>4, <2>1, <2>3, <2>4 DEF Marked
  <2> QED
    BY <2>3, <2>4, <2>5, CallHere DEF Frank
<1>5. \A a \in DOMAIN draft' : draft'[a] = "plain" => ~Unfounded(pos, item, a)'
  BY <1>1, <1>4, UnfoundedNext
<1> QED
  BY <1>1, <1>2, <1>3, <1>5, UnfoundedNext
  DEF TruthInv, RefusalsPlaced, ServiceAt, ListCalls

LEMMA LeaveTruth ==
    ASSUME Walked, TruthInv, phase = "call", ~AtBoundary, NEW answer,
           Noted(answer), FailService \/ Escape, roster' = roster
    PROVE  TruthInv'
PROOF
<1>1. /\ resources' = resources /\ phase' # "call"
      /\ \/ pos' = pos + 1 /\ kept' = <<>>
         \/ phase' = "done" /\ UNCHANGED <<pos, item, kept>>
  BY DEF FailService, Escape, Ends, walk
<1>2. RefusalsPlaced(refusals', item) /\ pos \in Nat
  BY NotedPlaced, Sizes DEF Noted
<1>3. \A f \in refusals' :
        /\ f.pos \in 1 .. pos' /\ f.item \in Nat
        /\ f.pos = pos' => phase' = "done" /\ f.item <= item'
        /\ f.item = 0 => \E c \in ListCalls(ServiceAt(f.pos))' :
                            (ServiceAt(f.pos).calls[c].op)' = f.op
  BY <1>1, <1>2 DEF RefusalsPlaced, ServiceAt, ListCalls
<1>4. ToSet(kept') \subseteq ToSet(kept)
  BY <1>1, ToSetOfEmpty
<1>5. \A r \in ToSet(resources) \union ToSet(kept) : \A a \in DOMAIN r.marks :
        r.marks[a] = "plain" => ~Blamed(refusals', r.pos, r.item, a)
  BY DescribedStands
<1> QED
  BY <1>1, <1>3, <1>4, <1>5, UnfoundedNext DEF TruthInv

LEMMA TruthNext ==
    ASSUME Walked, TruthInv, [Next]_vars
    PROVE  TruthInv'
PROOF
<1>1. CASE UNCHANGED vars
  <2>1. UNCHANGED <<roster, phase, pos, item, draft, kept, resources, refusals>>
    BY <1>1 DEF vars, config, walk
  <2> QED
    BY <2>1, UnfoundedNext DEF TruthInv, Unfounded, ServiceAt, ListCalls
<1>2. CASE ResolveAccount \/ VerifyIdentity \/ EndCollection \/ Conclude
  <2>1. /\ phase \notin {"call", "done"} /\ phase' # "call"
        /\ UNCHANGED <<roster, pos, item, kept, resources, refusals>>
    BY <1>2 DEF ResolveAccount, VerifyIdentity, EndCollection, Conclude, Ends,
                config, walk
  <2> QED
    BY <2>1, QuietTruth
<1>3. CASE MakeCall
  <2>1. phase = "call" /\ ~AtBoundary /\ roster' = roster
    BY <1>3 DEF MakeCall, config
  <2>2. PICK answer \in Answers :
        /\ Noted(answer)
        /\ \/ /\ answer \in {"ok", "absent"} \union Call.tolerates
              /\ Proceed(answer)
           \/ item # 0 /\ SkipItem
           \/ FailService
           \/ Escape
    BY <1>3, CallOutcomes DEF Noted
  <2> QED
    BY <2>1, <2>2, ProceedTruth, SkipItemTruth, LeaveTruth
<1> QED
  BY <1>1, <1>2, <1>3, BeginTruth, SkipCallTruth, NextItemTruth DEF Next

LEMMA TruthIsEnough ==
    ASSUME TruthInv
    PROVE  OnlyPassedOverMislead
BY DEF TruthInv, OnlyPassedOverMislead, Deprives, Unfounded, Blamed, ServiceAt

-----------------------------------------------------------------------------
(***************************************************************************)
(* What the gate let through.                                              *)
(***************************************************************************)

LEMMA GateInit == ASSUME Init PROVE GateInv
BY DEF Init, GateInv

LEMMA GateNext ==
    ASSUME Walked, GateInv, [Next]_vars
    PROVE  GateInv'
PROOF
<1> DEFINE bound == \E binding \in bindings :
                        /\ binding.provider = identity.provider
                        /\ binding.account = identity.account
                        /\ binding.provider = "azure" =>
                              binding.directory = identity.directory
<1>1. identity' = identity /\ bindings' = bindings
  BY DEF Next, vars, config, ResolveAccount, VerifyIdentity, BeginService,
         SkipCall, MakeCall, NextItem, EndCollection, Conclude
<1>2. CASE bound
  BY <1>1, <1>2 DEF GateInv
<1>3. CASE phase \in {"begin", "call", "graph"}
  BY <1>2, <1>3 DEF GateInv
<1>4. CASE ResolveAccount
  <2>1. phase = "label" /\ phase' = "gate" /\ UNCHANGED <<resources, kept>>
    BY <1>4 DEF ResolveAccount, walk
  <2> QED
    BY <1>1, <2>1 DEF GateInv
<1>5. CASE VerifyIdentity
  <2>1. UNCHANGED <<resources, kept>> /\ phase' \in {"begin", "done"}
    BY <1>5 DEF VerifyIdentity, Ends, walk
  <2>2. CASE phase' = "begin"
    <3>1. PICK binding \in bindings : Authorizes(binding, identity)
      BY <1>5, <2>2 DEF VerifyIdentity, Ends
    <3>2. ValidBinding(binding)
      BY CollectionConstants DEF Walked, WalkInv
    <3>3. bound
      BY <3>1, <3>2 DEF Authorizes, ValidBinding
    <3> QED
      BY <1>2, <3>3
  <2>3. CASE phase' = "done"
    BY <1>1, <2>1, <2>3 DEF GateInv
  <2> QED
    BY <2>1, <2>2, <2>3
<1>6. CASE UNCHANGED vars
  BY <1>1, <1>6 DEF GateInv, vars, walk
<1>7. BeginService \/ SkipCall \/ MakeCall \/ NextItem \/ EndCollection
        \/ Conclude => phase \in {"begin", "call", "graph"}
  BY DEF BeginService, SkipCall, MakeCall, NextItem, EndCollection, Conclude
<1> QED
  BY <1>3, <1>4, <1>5, <1>6, <1>7 DEF Next

-----------------------------------------------------------------------------
(***************************************************************************)
(* What is missing.                                                        *)
(***************************************************************************)

LEMMA GapInit == ASSUME Init PROVE GapInv
PROOF
<1>1. pos = 1 /\ phase = "label" /\ outcome = "none"
  BY DEF Init
<1> QED
  BY <1>1 DEF GapInv

\* What explains a gap goes on explaining it.
LEMMA ExplainedStays ==
    ASSUME Walked, GapInv, UNCHANGED <<roster, account>>,
           refusals \subseteq refusals', pos <= Len(listings) + 1,
           \A p \in 1 .. (pos - 1) : listings'[p] = listings[p],
           ToSet(resources) \subseteq ToSet(resources'),
           NEW p \in 1 .. (pos - 1), NEW i \in DOMAIN listings[p]
    PROVE  Explained(p, i)'
PROOF
<1>1. Explained(p, i)
  BY DEF GapInv
<1>2. CASE IsKept(p, i)
  BY <1>2 DEF IsKept, Explained
<1>3. CASE ServiceAt(p).needs_account /\ account = NoAccount
  BY <1>3 DEF Explained, ServiceAt
<1>4. CASE RefusedIn(refusals, p, i)
  BY <1>4 DEF RefusedIn, Explained, ServiceAt
<1> QED
  BY <1>1, <1>2, <1>3, <1>4 DEF Explained

LEMMA AdvanceGaps ==
    ASSUME Walked, GapInv, phase = "call", NEW batch, Batch(batch, item),
           Advance(batch), UNCHANGED <<roster, account, listings, outcome>>,
           refusals \subseteq refusals',
           Accounted(ToSet(batch), refusals', item)
    PROVE  GapInv'
PROOF
<1>1. /\ pos \in Nat \ {0} /\ Len(listings) = pos /\ item \in Nat
      /\ item <= Len(listings[pos])
      /\ DOMAIN listings[pos] = 1 .. Len(listings[pos])
      /\ Len(listings[pos]) \in Nat /\ outcome # "completed"
  BY HereInCall, Sizes DEF GapInv
<1>2. CASE item < Len(listings[pos])
  <2>1. /\ item' = item + 1 /\ kept' = batch
        /\ UNCHANGED <<phase, pos, resources>>
    BY <1>2 DEF Advance
  <2>2. \A p \in 1 .. (pos' - 1) : \A i \in DOMAIN listings'[p] :
            Explained(p, i)'
    BY <1>1, <2>1, ExplainedStays
  <2>3. Accounted(ToSet(kept), refusals, item - 1)'
    BY <1>1, <2>1 DEF Accounted, RefusedIn, ServiceAt
  <2> QED
    BY <1>1, <2>1, <2>2, <2>3 DEF GapInv
<1>3. CASE ~(item < Len(listings[pos]))
  <2>1. resources' = resources \o batch /\ pos' = pos + 1 /\ phase' = "begin"
    BY <1>3 DEF Advance
  <2>2. ToSet(resources') = ToSet(resources) \union ToSet(batch)
    BY <2>1, ToSetOfConcat DEF Walked, WalkInv, Batch
  <2>3. \A p \in 1 .. (pos - 1) : \A i \in DOMAIN listings'[p] :
            Explained(p, i)'
    BY <1>1, <2>2, ExplainedStays
  <2>4. ASSUME NEW p \in 1 .. pos, p = pos, NEW i \in DOMAIN listings'[p]
        PROVE  Explained(p, i)'
    <3>1. i \in 1 .. item
      BY <1>1, <1>3, <2>4
    <3>2. CASE \E r \in ToSet(batch) : r.id = listings[pos][i]
      BY <2>2, <2>4, <3>2 DEF Explained, IsKept, Batch
    <3>3. CASE RefusedIn(refusals', p, i)
      BY <3>3 DEF Explained, RefusedIn, ServiceAt
    <3> QED
      BY <2>4, <3>1, <3>2, <3>3 DEF Accounted
  <2> QED
    BY <1>1, <2>1, <2>3, <2>4 DEF GapInv
<1> QED
  BY <1>2, <1>3

LEMMA BeginGaps ==
    ASSUME Walked, GapInv, BeginService
    PROVE  GapInv'
PROOF
<1>1. /\ phase = "begin" /\ pos \in Nat \ {0} /\ Len(listings) = pos - 1
      /\ listings \in Seq(SeqOf(Ids, 2))
      /\ UNCHANGED <<roster, account, resources, refusals, outcome>>
  BY Sizes DEF BeginService, config, Walked, WalkInv
<1>2. PICK listing \in Listings(Service) : listings' = Append(listings, listing)
  BY DEF BeginService
<1>3. \A p \in 1 .. (pos - 1) : listings'[p] = listings[p]
  BY <1>1, <1>2, ListingsTyped
<1>4. \A p \in 1 .. (pos - 1) : \A i \in DOMAIN listings'[p] : Explained(p, i)'
  BY <1>1, <1>3, ExplainedStays
<1>5. outcome' # "completed"
  BY <1>1 DEF GapInv
<1>6. CASE /\ Service.needs_account /\ account = NoAccount
           /\ pos' = pos + 1 /\ phase' = phase
  <2>1. ASSUME NEW p \in 1 .. pos, p = pos, NEW i
        PROVE  Explained(p, i)'
    BY <1>1, <1>6, <2>1 DEF Explained, ServiceAt, Service
  <2> QED
    BY <1>1, <1>4, <1>5, <1>6, <2>1 DEF GapInv
<1>7. CASE pos' = pos /\ phase' = "call" /\ item' = 0
  <2>1. Accounted(ToSet(kept), refusals, item - 1)'
    BY <1>7 DEF Accounted
  <2> QED
    BY <1>1, <1>4, <1>5, <1>7, <2>1 DEF GapInv
<1> QED
  BY <1>6, <1>7 DEF BeginService

LEMMA NextItemGaps ==
    ASSUME Walked, GapInv, NextItem
    PROVE  GapInv'
PROOF
<1>1. /\ phase = "call" /\ Advance(Keeping) /\ item \in Nat
      /\ UNCHANGED <<roster, account, listings, refusals, outcome>>
  BY HereInCall DEF NextItem, config
<1>2. ASSUME NEW i \in 1 .. item
      PROVE  \/ \E r \in ToSet(Keeping) : r.id = listings[pos][i]
             \/ RefusedIn(refusals, pos, i)
  <2>1. CASE item # 0 /\ ~Listed(Service, kept)
    <3>1. ToSet(Keeping) = ToSet(kept) \union {Resource}
      BY <1>1, <2>1, KeptIsBatch, ResourceTyped, ToSetOfAppend
      DEF Keeping, Batch
    <3>2. CASE i = item
      BY <1>1, <2>1, <3>1, <3>2, ResourceTyped
    <3>3. CASE i # item
      <4>1. i \in 1 .. (item - 1)
        BY <1>1, <3>3
      <4> QED
        BY <1>1, <3>1, <4>1 DEF GapInv, Accounted
    <3> QED
      BY <3>2, <3>3
  <2>2. CASE Listed(Service, kept)
    <3>1. Keeping = kept
      BY <2>2 DEF Keeping
    <3>2. CASE i = item
      BY <2>2, <3>1, <3>2 DEF Listed, ToSet
    <3>3. CASE i # item
      <4>1. i \in 1 .. (item - 1)
        BY <1>1, <3>3
      <4> QED
        BY <1>1, <3>1, <4>1 DEF GapInv, Accounted
    <3> QED
      BY <3>2, <3>3
  <2> QED
    BY <1>1, <2>1, <2>2
<1>3. Accounted(ToSet(Keeping), refusals', item)
  BY <1>1, <1>2 DEF Accounted
<1> QED
  BY <1>1, <1>3, KeepingIsBatch, AdvanceGaps

\* The failure just noted refuses the item, or what its service was to list.
LEMMA RefusedHere ==
    ASSUME NEW answer \in Failures, Noted(answer), NEW i,
           Service.each => item \in {0, i}
    PROVE  RefusedIn(refusals', pos, i)
PROOF
<1> DEFINE f == [pos |-> pos, item |-> item, op |-> Call.op,
                 answer |-> answer]
<1>1. f \in refusals' /\ f.pos = pos /\ f.item = item
  BY DEF Noted
<1> HIDE DEF f
<1> QED
  BY <1>1 DEF RefusedIn, ServiceAt, Service

LEMMA SkipItemGaps ==
    ASSUME Walked, GapInv, phase = "call", NEW answer \in Failures,
           Noted(answer), item # 0, SkipItem, UNCHANGED <<roster, account>>
    PROVE  GapInv'
PROOF
<1>1. /\ Advance(kept) /\ Batch(kept, item) /\ item \in Nat
      /\ UNCHANGED <<listings, outcome>>
  BY KeptIsBatch, HereInCall DEF SkipItem
<1>2. refusals \subseteq refusals'
  BY DEF Noted
<1>3. RefusedIn(refusals', pos, item)
  BY RefusedHere
<1>4. Accounted(ToSet(kept), refusals, item - 1)
  BY DEF GapInv
<1>5. ASSUME NEW i \in 1 .. item
      PROVE  \/ \E r \in ToSet(kept) : r.id = listings[pos][i]
             \/ RefusedIn(refusals', pos, i)
  <2>1. CASE i = item
    BY <1>3, <2>1
  <2>2. CASE i # item
    <3>1. i \in 1 .. (item - 1)
      BY <1>1, <2>2
    <3> QED
      BY <1>2, <1>4, <3>1 DEF Accounted, RefusedIn
  <2> QED
    BY <2>1, <2>2
<1>6. Accounted(ToSet(kept), refusals', item)
  BY <1>5 DEF Accounted
<1> QED
  BY <1>1, <1>2, <1>6, AdvanceGaps

\* A sub-collector that fails leaves everything it listed to that failure.
LEMMA FailServiceGaps ==
    ASSUME Walked, GapInv, phase = "call", NEW answer \in Failures,
           Noted(answer), Service.each => item = 0, FailService,
           UNCHANGED <<roster, account>>
    PROVE  GapInv'
PROOF
<1>1. /\ pos' = pos + 1 /\ phase' = "begin"
      /\ UNCHANGED <<listings, resources, outcome>>
      /\ pos \in Nat \ {0} /\ Len(listings) = pos /\ outcome # "completed"
  BY HereInCall, Sizes DEF FailService, GapInv
<1>2. \A p \in 1 .. (pos - 1) : \A i \in DOMAIN listings'[p] : Explained(p, i)'
  BY <1>1, ExplainedStays DEF Noted
<1>3. ASSUME NEW p \in 1 .. pos, p = pos, NEW i
      PROVE  Explained(p, i)'
  <2>1. RefusedIn(refusals', p, i)
    BY <1>3, RefusedHere
  <2> QED
    BY <2>1 DEF Explained, RefusedIn, ServiceAt
<1> QED
  BY <1>1, <1>2, <1>3 DEF GapInv

LEMMA GapNext ==
    ASSUME Walked, GapInv, [Next]_vars
    PROVE  GapInv'
PROOF
<1>1. CASE UNCHANGED vars
  <2>1. UNCHANGED <<roster, account, phase, pos, listings, item, kept,
                    resources, refusals, outcome>>
    BY <1>1 DEF vars, config, walk
  <2> QED
    BY <2>1 DEF GapInv, Explained, IsKept, Accounted, RefusedIn, ServiceAt
<1>2. CASE ResolveAccount
  <2>1. /\ phase = "label" /\ phase' = "gate" /\ pos = 1
        /\ UNCHANGED <<roster, pos, listings, outcome>>
    BY <1>2 DEF ResolveAccount, walk, config, Walked, WalkInv
  <2> QED
    BY <2>1 DEF GapInv
<1>3. CASE VerifyIdentity \/ EndCollection \/ Conclude
  <2>1. /\ phase \in {"gate", "begin", "graph"} /\ phase' # "call"
        /\ UNCHANGED <<roster, account, pos, listings, kept, resources,
                       refusals>>
    BY <1>3 DEF VerifyIdentity, EndCollection, Conclude, Ends, config, walk
  <2>2. /\ pos <= Len(listings) + 1
        /\ \A p \in 1 .. (pos - 1) : \A i \in DOMAIN listings'[p] :
              Explained(p, i)'
    <3>1. pos <= Len(listings) + 1
      BY <2>1, Sizes DEF Walked, WalkInv
    <3> QED
      BY <2>1, <3>1, ExplainedStays
  <2>3. phase' = "graph" => pos = Len(roster) + 1
    BY <1>3, Sizes
    DEF VerifyIdentity, EndCollection, Conclude, Ends
  <2>4. outcome' = "completed" => phase' = "done" /\ pos = Len(roster) + 1
    BY <1>3 DEF VerifyIdentity, EndCollection, Conclude, Ends, GapInv
  <2> QED
    BY <2>1, <2>2, <2>3, <2>4 DEF GapInv
<1>4. CASE SkipCall
  <2>1. UNCHANGED <<roster, account, phase, pos, listings, item, kept,
                    resources, refusals, outcome>>
    BY <1>4 DEF SkipCall, config
  <2> QED
    BY <2>1 DEF GapInv, Explained, IsKept, Accounted, RefusedIn, ServiceAt
<1>5. CASE MakeCall
  <2>1. phase = "call" /\ ~AtBoundary /\ UNCHANGED <<roster, account>>
    BY <1>5 DEF MakeCall, config
  <2>2. PICK answer \in Answers :
        /\ Noted(answer)
        /\ \/ Proceed(answer)
           \/ answer \in Failures /\ item # 0 /\ SkipItem
           \/ answer \in Failures /\ (Service.each => item = 0) /\ FailService
           \/ Escape
    BY <1>5, CallOutcomes DEF Noted
  <2>3. CASE Proceed(answer) \/ Escape
    <3>1. /\ UNCHANGED <<pos, listings, item, kept, resources>>
          /\ \/ phase' = phase /\ outcome' = outcome
             \/ phase' = "done" /\ outcome' = "failed"
      BY <2>3 DEF Proceed, Escape, Ends, walk
    <3>2. refusals \subseteq refusals'
      BY <2>2 DEF Noted
    <3>3. \A p \in 1 .. (pos - 1) : \A i \in DOMAIN listings'[p] :
              Explained(p, i)'
      BY <2>1, <3>1, <3>2, HereInCall, Sizes, ExplainedStays
    <3>4. Accounted(ToSet(kept), refusals, item - 1)'
      BY <2>1, <3>1, <3>2 DEF GapInv, Accounted, RefusedIn, ServiceAt
    <3> QED
      BY <2>1, <3>1, <3>3, <3>4 DEF GapInv
  <2> QED
    BY <2>1, <2>2, <2>3, SkipItemGaps, FailServiceGaps
<1> QED
  BY <1>1, <1>2, <1>3, <1>4, <1>5, BeginGaps, NextItemGaps DEF Next

LEMMA GapIsEnough ==
    ASSUME Walked, GapInv
    PROVE  GapsStayLocal
BY Sizes DEF GapInv, GapsStayLocal, Explained, IsKept, RefusedIn, ServiceAt

-----------------------------------------------------------------------------
(***************************************************************************)
(* The books.                                                              *)
(***************************************************************************)

\* The two entries of a sub-collector that has ended.
Balanced(p) ==
    Services[roster[p]].each /\ p < pos /\ p \notin failed =>
        /\ skipped[p] = Cardinality({i \in DOMAIN listings[p] :
                ~\E r \in ToSet(resources) : r.pos = p /\ r.item = i})
        /\ Lacking(refusals, ToSet(resources), p) => denials[p] > 0

LEMMA BalancedIsCounted ==
    LossIsCounted <=> \A p \in DOMAIN roster : Balanced(p)
BY DEF LossIsCounted, Balanced, Lacking, Wanting

LEMMA BooksTyped ==
    ASSUME Walked
    PROVE  skipped \in [DOMAIN roster -> Nat] /\ denials \in [DOMAIN roster -> Nat]
BY DEF Walked, TypeOK

LEMMA BookInit == ASSUME Init PROVE BookInv
PROOF
<1>1. /\ pos = 1 /\ phase = "label" /\ skipped = [p \in DOMAIN roster |-> 0]
      /\ roster \in Seq(DOMAIN Services)
  BY CollectionConstants DEF Init
<1>2. \A p \in DOMAIN roster : ~(p < pos)
  BY <1>1
<1> QED
  BY <1>1, <1>2 DEF BookInv, LossIsCounted

\* What is noted from now on is about the item that is being normalized.
OnlyHere ==
    \A f \in refusals' : f \in refusals \/ (f.pos = pos /\ f.item = item)

LEMMA NotedHere ==
    ASSUME NEW answer, Noted(answer) PROVE OnlyHere
BY DEF Noted, OnlyHere

\* Nothing that comes later touches the books of one that has ended.
LEMMA BalanceStays ==
    ASSUME Walked, BookInv, NEW p \in DOMAIN roster, p < pos,
           roster' = roster, listings'[p] = listings[p],
           p \notin failed' => p \notin failed,
           skipped'[p] = skipped[p], denials'[p] = denials[p], OnlyHere,
           \A r \in ToSet(resources') : r.pos = p => r \in ToSet(resources),
           \A r \in ToSet(resources)  : r.pos = p => r \in ToSet(resources')
    PROVE  Balanced(p)'
PROOF
<1>1. Balanced(p) /\ p # pos
  BY BalancedIsCounted, Sizes DEF BookInv
<1>2. {i \in DOMAIN listings'[p] :
            ~\E r \in ToSet(resources') : r.pos = p /\ r.item = i}
      = {i \in DOMAIN listings[p] :
            ~\E r \in ToSet(resources) : r.pos = p /\ r.item = i}
  OBVIOUS
<1>3. Lacking(refusals', ToSet(resources'), p)
        => Lacking(refusals, ToSet(resources), p)
  BY <1>1 DEF Lacking, Wanting, OnlyHere
<1> QED
  BY <1>1, <1>2, <1>3 DEF Balanced

\* A step that ends nothing leaves all the ended books alone.
LEMMA BalancesStay ==
    ASSUME Walked, BookInv, UNCHANGED <<roster, resources>>, OnlyHere,
           \A p \in 1 .. (pos - 1) :
                /\ listings'[p] = listings[p] /\ skipped'[p] = skipped[p]
                /\ denials'[p] = denials[p],
           failed \subseteq failed',
           NEW p \in DOMAIN roster, p < pos
    PROVE  Balanced(p)'
BY BalanceStays, Sizes

LEMMA AdvanceBooks ==
    ASSUME Walked, BookInv, phase = "call", NEW batch, Batch(batch, item),
           Advance(batch), UNCHANGED <<roster, listings, failed>>, OnlyHere,
           RefusalsPlaced(refusals', item),
           \A p \in DOMAIN roster \ {pos} :
                skipped'[p] = skipped[p] /\ denials'[p] = denials[p],
           Service.each =>
                skipped'[pos] = Cardinality(Missing(ToSet(batch), pos, item)),
           Service.each /\ Lacking(refusals', ToSet(batch), pos) =>
                denials'[pos] > 0
    PROVE  BookInv'
PROOF
<1>1. /\ pos \in Nat \ {0} /\ item \in Nat /\ item <= Len(listings[pos])
      /\ Len(listings[pos]) \in Nat
      /\ DOMAIN listings[pos] = 1 .. Len(listings[pos])
      /\ pos \in DOMAIN roster /\ DOMAIN roster = 1 .. Len(roster)
      /\ Len(roster) \in Nat
  BY HereInCall, ServiceHere, Sizes
<1>2. \A r \in ToSet(batch) : r.pos = pos
  BY DEF Batch
<1>3. CASE item < Len(listings[pos])
  <2>1. /\ item' = item + 1 /\ draft' = NextDraft /\ kept' = batch
        /\ UNCHANGED <<phase, pos, resources>>
    BY <1>3 DEF Advance
  <2>2. \A p \in DOMAIN roster : p < pos => Balanced(p)'
    BY <1>1, <2>1, BalancesStay
  <2>3. Service' = Service /\ item' - 1 = item
    BY <1>1, <2>1, Unmoved
  <2>4. ~Wanting(refusals', pos', item')
    BY <1>1, <2>1 DEF Wanting, RefusalsPlaced
  <2>5. \A p \in DOMAIN roster' :
            p > pos' \/ (p = pos' /\ phase' \notin {"call", "done"}) =>
                skipped'[p] = 0
    BY <1>1, <2>1 DEF BookInv
  <2>6. LossIsCounted'
    BY <2>1, <2>2 DEF LossIsCounted, Balanced, Lacking, Wanting
  <2>7. Service'.each =>
            /\ skipped'[pos'] =
                  Cardinality(Missing(ToSet(kept'), pos', item' - 1))
            /\ (Wanting(refusals', pos', item')
               \/ Lacking(refusals', ToSet(kept'), pos')) =>
                    denials'[pos'] > 0
    BY <2>1, <2>3, <2>4
  <2> QED
    BY <2>5, <2>6, <2>7 DEF BookInv
<1>4. CASE ~(item < Len(listings[pos]))
  <2>1. resources' = resources \o batch /\ pos' = pos + 1 /\ phase' = "begin"
    BY <1>4 DEF Advance
  <2>2. ToSet(resources') = ToSet(resources) \union ToSet(batch)
    BY <2>1, ToSetOfConcat DEF Walked, WalkInv, Batch
  <2>3. \A r \in ToSet(resources) : r.pos \in 1 .. (pos - 1)
    BY DEF Walked, WalkInv
  <2>4. ASSUME NEW p \in DOMAIN roster, p < pos PROVE Balanced(p)'
    <3>1. p # pos
      BY <1>1, <2>4
    <3> QED
      BY <1>2, <2>2, <2>4, <3>1, BalanceStays
  <2>5. ASSUME NEW p \in DOMAIN roster, p = pos, Services[roster[p]].each
        PROVE  /\ skipped'[p] = Cardinality({i \in DOMAIN listings'[p] :
                    ~\E r \in ToSet(resources') : r.pos = p /\ r.item = i})
               /\ Lacking(refusals', ToSet(resources'), p) => denials'[p] > 0
    <3>1. \A r \in ToSet(resources') : r.pos = p <=> r \in ToSet(batch)
      BY <1>1, <1>2, <2>2, <2>3, <2>5
    <3>2. {i \in DOMAIN listings'[p] :
                ~\E r \in ToSet(resources') : r.pos = p /\ r.item = i}
          = Missing(ToSet(batch), pos, item)
      BY <1>1, <1>2, <1>4, <2>2, <2>5, <3>1 DEF Missing
    <3>3. Lacking(refusals', ToSet(resources'), p)
            => Lacking(refusals', ToSet(batch), pos)
      BY <2>5, <3>1 DEF Lacking
    <3> QED
      BY <2>5, <3>2, <3>3 DEF Service
  <2>6. \A p \in DOMAIN roster : p = pos => Balanced(p)'
    BY <2>5 DEF Balanced, Lacking, Wanting
  <2>7. \A p \in DOMAIN roster : p < pos' => p < pos \/ p = pos
    BY <1>1, <2>1
  <2>8. LossIsCounted'
    BY <2>4, <2>6, <2>7 DEF LossIsCounted, Balanced, Lacking, Wanting
  <2>9. \A p \in DOMAIN roster' :
            p > pos' \/ (p = pos' /\ phase' \notin {"call", "done"}) =>
                skipped'[p] = 0
    BY <1>1, <2>1 DEF BookInv
  <2> QED
    BY <2>1, <2>8, <2>9 DEF BookInv
<1> QED
  BY <1>3, <1>4

\* Before the first item nothing is missing.
LEMMA NoneMissing ==
    ASSUME NEW found, NEW p
    PROVE  /\ Cardinality(Missing(found, p, 0 - 1)) = 0
           /\ Cardinality(Missing(found, p, 0)) = 0
PROOF
<1>1. Missing(found, p, 0 - 1) = {} /\ Missing(found, p, 0) = {}
  BY DEF Missing
<1> QED
  BY <1>1, FS_EmptySet

LEMMA StillMissing ==
    ASSUME Walked, phase = "call", item # 0
    PROVE  /\ IsFiniteSet(Missing(ToSet(kept), pos, item - 1))
           /\ item \notin Missing(ToSet(kept), pos, item - 1)
           /\ Missing(ToSet(kept), pos, item)
                = Missing(ToSet(kept), pos, item - 1) \union {item}
           /\ Missing(ToSet(kept) \union {Resource}, pos, item)
                = Missing(ToSet(kept), pos, item - 1)
PROOF
<1>1. item \in Nat \ {0} /\ Resource.pos = pos /\ Resource.item = item
  BY HereInCall, ResourceTyped
<1>2. \A i \in 1 .. item : i \in 1 .. (item - 1) \/ i = item
  BY <1>1
<1>3. \A r \in ToSet(kept) : r.item \in 1 .. (item - 1)
  BY KeptIsBatch DEF Batch
<1>4. IsFiniteSet(1 .. (item - 1))
  BY <1>1, FS_Interval
<1>5. Missing(ToSet(kept), pos, item - 1) \subseteq 1 .. (item - 1)
  BY DEF Missing
<1> QED
  BY <1>1, <1>2, <1>3, <1>4, <1>5, FS_Subset DEF Missing

LEMMA NextItemBooks ==
    ASSUME Walked, TruthInv, BookInv, NextItem
    PROVE  BookInv'
PROOF
<1>1. /\ phase = "call" /\ Advance(Keeping) /\ item \in Nat
      /\ UNCHANGED <<roster, listings, failed, skipped, denials, refusals>>
      /\ OnlyHere /\ RefusalsPlaced(refusals', item)
  BY HereInCall
  DEF NextItem, config, tally, OnlyHere, TruthInv, RefusalsPlaced
<1>2. ASSUME Service.each
      PROVE  /\ skipped'[pos] = Cardinality(Missing(ToSet(Keeping), pos, item))
             /\ Lacking(refusals', ToSet(Keeping), pos) => denials'[pos] > 0
  <2>1. /\ skipped[pos] = Cardinality(Missing(ToSet(kept), pos, item - 1))
        /\ (Wanting(refusals, pos, item)
           \/ Lacking(refusals, ToSet(kept), pos)) =>
                denials[pos] > 0
    BY <1>1, <1>2 DEF BookInv
  <2>2. CASE item = 0
    BY <1>1, <2>1, <2>2, NoneMissing DEF Keeping
  <2>3. CASE item # 0
    <3>1. ~Service.dedups
      BY <1>1, <1>2, HereInCall, ServiceHere DEF Orderly
    <3>2. ToSet(Keeping) = ToSet(kept) \union {Resource}
      BY <1>1, <2>3, <3>1, KeptIsBatch, ResourceTyped, ToSetOfAppend
      DEF Keeping, Batch, Listed
    <3>3. Lacking(refusals, ToSet(Keeping), pos) =>
            \/ Wanting(refusals, pos, item)
            \/ Lacking(refusals, ToSet(kept), pos)
      BY <1>1, <2>3, <3>2, ResourceTyped DEF Lacking
    <3> QED
      BY <1>1, <2>1, <2>3, <3>2, <3>3, StillMissing
  <2> QED
    BY <2>2, <2>3
<1> QED
  BY <1>1, <1>2, KeepingIsBatch, AdvanceBooks

\* A denial is never forgotten, and another sub-collector's never touched.
Counts(answer) ==
    denials' = [denials EXCEPT ![pos] = @ + Denials(Call, answer)]

LEMMA CountsUp ==
    ASSUME Walked, phase = "call", NEW answer, Counts(answer)
    PROVE  /\ pos \in DOMAIN roster /\ denials[pos] \in Nat
           /\ denials'[pos] \in Nat /\ denials'[pos] >= denials[pos]
           /\ Call.retried /\ answer = "denied" => denials'[pos] > 0
           /\ \A p \in DOMAIN roster \ {pos} : denials'[p] = denials[p]
PROOF
<1>1. pos \in DOMAIN roster /\ denials \in [DOMAIN roster -> Nat]
  BY HereInCall, ServiceHere, BooksTyped
<1>2. /\ Denials(Call, answer) \in Nat
      /\ Call.retried /\ answer = "denied" => Denials(Call, answer) > 0
  BY DEF Denials
<1>3. denials'[pos] = denials[pos] + Denials(Call, answer)
  BY <1>1 DEF Counts
<1> QED
  BY <1>1, <1>2, <1>3 DEF Counts

\* A failure is never about an item that is done.
LEMMA KeptLacksNoMore ==
    ASSUME Walked, phase = "call", NEW answer, Noted(answer)
    PROVE  Lacking(refusals', ToSet(kept), pos)
            => Lacking(refusals, ToSet(kept), pos)
PROOF
<1>1. item \in Nat /\ \A r \in ToSet(kept) : r.item \in 1 .. (item - 1)
  BY HereInCall DEF Walked, WalkInv
<1>2. \A r \in ToSet(kept) : r.item # item
  BY <1>1
<1> QED
  BY <1>2, NotedHere DEF OnlyHere, Lacking, Wanting

LEMMA SkipItemBooks ==
    ASSUME Walked, TruthInv, BookInv, phase = "call", ~AtBoundary, NEW answer,
           Counts(answer), Noted(answer), item # 0, SkipItem, roster' = roster
    PROVE  BookInv'
PROOF
<1>1. /\ Advance(kept) /\ Batch(kept, item) /\ item \in Nat \ {0}
      /\ UNCHANGED <<listings, failed>>
      /\ skipped' = [skipped EXCEPT ![pos] = @ + 1]
  BY KeptIsBatch, HereInCall DEF SkipItem
<1>2. \A p \in DOMAIN roster \ {pos} :
        skipped'[p] = skipped[p] /\ denials'[p] = denials[p]
  BY <1>1, CountsUp, BooksTyped
<1>3. ASSUME Service.each
      PROVE  /\ skipped'[pos] = Cardinality(Missing(ToSet(kept), pos, item))
             /\ Lacking(refusals', ToSet(kept), pos) => denials'[pos] > 0
  <2>1. /\ skipped[pos] = Cardinality(Missing(ToSet(kept), pos, item - 1))
        /\ (Wanting(refusals, pos, item)
           \/ Lacking(refusals, ToSet(kept), pos)) =>
                denials[pos] > 0
    BY <1>3 DEF BookInv
  <2>2. skipped'[pos] = skipped[pos] + 1
    BY <1>1, CountsUp, BooksTyped
  <2>3. Cardinality(Missing(ToSet(kept), pos, item))
          = Cardinality(Missing(ToSet(kept), pos, item - 1)) + 1
    BY StillMissing, FS_AddElement
  <2> QED
    BY <2>1, <2>2, <2>3, CountsUp, KeptLacksNoMore
<1> QED
  BY <1>1, <1>2, <1>3, NotedHere, NotedPlaced, AdvanceBooks DEF Noted

LEMMA ProceedBooks ==
    ASSUME Walked, BookInv, phase = "call", ~AtBoundary, NEW answer,
           Counts(answer), Noted(answer), Proceed(answer), roster' = roster,
           answer \in {"ok", "absent"} \union Call.tolerates
    PROVE  BookInv'
PROOF
<1>1. /\ draft' = Marked(Call, answer)
      /\ UNCHANGED <<phase, pos, listings, item, kept, resources, failed,
                     skipped>>
  BY DEF Proceed
<1>2. \A p \in DOMAIN roster : p < pos => Balanced(p)'
  <2>1. \A p \in 1 .. (pos - 1) :
            /\ listings'[p] = listings[p] /\ skipped'[p] = skipped[p]
            /\ denials'[p] = denials[p]
    <3>1. 1 .. (pos - 1) \subseteq DOMAIN roster \ {pos}
      BY HereInCall, Sizes
    <3> QED
      BY <1>1, <3>1, CountsUp
  <2> QED
    BY <1>1, <2>1, NotedHere, BalancesStay
<1>3. LossIsCounted'
  BY <1>1, <1>2 DEF LossIsCounted, Balanced, Lacking, Wanting
<1>4. ASSUME Service.each
      PROVE  /\ skipped'[pos] = Cardinality(Missing(ToSet(kept), pos, item - 1))
             /\ (Wanting(refusals', pos, item)
                \/ Lacking(refusals', ToSet(kept), pos)) =>
                     denials'[pos] > 0
  <2>1. /\ skipped[pos] = Cardinality(Missing(ToSet(kept), pos, item - 1))
        /\ (Wanting(refusals, pos, item)
           \/ Lacking(refusals, ToSet(kept), pos)) =>
                denials[pos] > 0
    BY <1>4 DEF BookInv
  <2>2. Accountable(Call)
    BY <1>4, HereInCall, ServiceHere, CallHere DEF Orderly, Call, Calls
  <2>3. Wanting(refusals', pos, item) =>
            Wanting(refusals, pos, item) \/ answer \in Call.tolerates
    BY DEF Wanting, Noted, Failures
  <2>4. answer \in Call.tolerates => denials'[pos] > 0
    BY <2>2, CountsUp DEF Accountable
  <2> QED
    BY <1>1, <2>1, <2>3, <2>4, CountsUp, KeptLacksNoMore
<1>5. Service' = Service
  BY <1>1, Unmoved
<1>6. \A p \in DOMAIN roster' :
        p > pos' \/ (p = pos' /\ phase' \notin {"call", "done"}) =>
            skipped'[p] = 0
  BY <1>1 DEF BookInv
<1> QED
  BY <1>1, <1>3, <1>4, <1>5, <1>6 DEF BookInv

LEMMA LeaveBooks ==
    ASSUME Walked, BookInv, phase = "call", NEW answer, Counts(answer),
           Noted(answer), FailService \/ Escape, roster' = roster
    PROVE  BookInv'
PROOF
<1>1. /\ UNCHANGED <<listings, resources, skipped>> /\ failed \subseteq failed'
      /\ \/ pos' = pos + 1 /\ phase' = "begin" /\ failed' = failed \union {pos}
         \/ pos' = pos /\ phase' = "done" /\ failed' = failed
  BY DEF FailService, Escape, Ends, walk
<1>2. pos \in Nat \ {0} /\ DOMAIN roster \subseteq Nat
  BY Sizes
<1>3. \A p \in DOMAIN roster : p < pos => Balanced(p)'
  <2>1. \A p \in 1 .. (pos - 1) :
            /\ listings'[p] = listings[p] /\ skipped'[p] = skipped[p]
            /\ denials'[p] = denials[p]
    <3>1. 1 .. (pos - 1) \subseteq DOMAIN roster \ {pos}
      BY HereInCall, Sizes
    <3> QED
      BY <1>1, <3>1, CountsUp
  <2> QED
    BY <1>1, <2>1, NotedHere, BalancesStay
<1>4. \A p \in DOMAIN roster : p < pos' => p < pos \/ p \in failed'
  BY <1>1, <1>2
<1>5. LossIsCounted'
  BY <1>3, <1>4 DEF LossIsCounted, Balanced, Lacking, Wanting
<1>6. \A p \in DOMAIN roster' :
        p > pos' \/ (p = pos' /\ phase' \notin {"call", "done"}) =>
            skipped'[p] = 0
  BY <1>1, <1>2 DEF BookInv
<1> QED
  BY <1>1, <1>5, <1>6 DEF BookInv

LEMMA BeginBooks ==
    ASSUME Walked, TruthInv, BookInv, BeginService
    PROVE  BookInv'
PROOF
<1>1. /\ phase = "begin" /\ pos \in Nat \ {0} /\ Len(listings) = pos - 1
      /\ listings \in Seq(SeqOf(Ids, 2)) /\ pos \in DOMAIN roster
      /\ UNCHANGED <<roster, resources, failed, skipped, denials, refusals>>
      /\ OnlyHere /\ DOMAIN roster = 1 .. Len(roster) /\ Orderly(Service)
  BY Sizes, ServiceHere
  DEF BeginService, config, tally, Walked, WalkInv, OnlyHere
<1>2. PICK listing \in Listings(Service) : listings' = Append(listings, listing)
  BY DEF BeginService
<1>3. \A p \in 1 .. (pos - 1) : listings'[p] = listings[p]
  BY <1>1, <1>2, ListingsTyped
<1>4. \A p \in DOMAIN roster : p < pos => Balanced(p)'
  BY <1>1, <1>3, BalancesStay
<1>5. \A p \in DOMAIN roster : p >= pos => skipped[p] = 0
  BY <1>1 DEF BookInv
<1>6. CASE Service.needs_account /\ pos' = pos + 1 /\ phase' = phase
  <2>1. \A p \in DOMAIN roster :
            p < pos' => p < pos \/ (p = pos /\ ~Services[roster[p]].each)
    <3>1. ~Services[roster[pos]].each
      BY <1>1, <1>6 DEF Orderly, Service
    <3>2. \A p \in DOMAIN roster : p < pos' => p < pos \/ p = pos
      BY <1>1, <1>6, Sizes
    <3> QED
      BY <3>1, <3>2
  <2>2. LossIsCounted'
    BY <1>1, <1>4, <2>1, ZenonT(40) DEF LossIsCounted, Balanced, Lacking, Wanting
  <2> QED
    BY <1>1, <1>5, <1>6, <2>2 DEF BookInv
<1>7. CASE /\ pos' = pos /\ phase' = "call" /\ item' = 0 /\ kept' = <<>>
           /\ draft' = Fresh(Service)
  <2>1. LossIsCounted'
    BY <1>1, <1>4, <1>7 DEF LossIsCounted, Balanced, Lacking, Wanting
  <2>2. skipped'[pos'] = Cardinality(Missing(ToSet(kept'), pos', item' - 1))
    BY <1>1, <1>5, <1>7, NoneMissing
  <2>3. ~Wanting(refusals', pos', item') /\ ToSet(kept') = {}
    BY <1>1, <1>7, ToSetOfEmpty DEF TruthInv, Wanting
  <2> QED
    BY <1>1, <1>5, <1>7, <2>1, <2>2, <2>3 DEF BookInv, Lacking
<1> QED
  BY <1>6, <1>7 DEF BeginService

LEMMA BookNext ==
    ASSUME Walked, TruthInv, BookInv, [Next]_vars
    PROVE  BookInv'
PROOF
<1>1. CASE UNCHANGED vars \/ SkipCall
  <2>1. UNCHANGED <<roster, phase, pos, listings, item, draft, kept,
                    resources, failed, skipped, denials, refusals>>
    BY <1>1 DEF vars, config, walk, tally, SkipCall
  <2>2. Service' = Service
    BY <2>1, Unmoved
  <2> QED
    BY <2>1, <2>2 DEF BookInv, LossIsCounted
<1>2. CASE ResolveAccount \/ VerifyIdentity \/ EndCollection \/ Conclude
  <2>1. /\ phase \notin {"call", "done"} /\ phase' # "call"
        /\ UNCHANGED <<roster, pos, listings, resources, failed, skipped,
                       denials, refusals>>
    BY <1>2 DEF ResolveAccount, VerifyIdentity, EndCollection, Conclude, Ends,
                config, walk, tally
  <2> QED
    BY <2>1 DEF BookInv, LossIsCounted
<1>3. CASE MakeCall
  <2>1. phase = "call" /\ ~AtBoundary /\ roster' = roster
    BY <1>3 DEF MakeCall, config
  <2>2. PICK answer \in Answers :
        /\ Counts(answer) /\ Noted(answer)
        /\ \/ /\ answer \in {"ok", "absent"} \union Call.tolerates
              /\ Proceed(answer)
           \/ item # 0 /\ SkipItem
           \/ FailService
           \/ Escape
    BY <1>3, CallOutcomes DEF Counts, Noted
  <2> QED
    BY <2>1, <2>2, ProceedBooks, SkipItemBooks, LeaveBooks
<1> QED
  BY <1>1, <1>2, <1>3, BeginBooks, NextItemBooks DEF Next

-----------------------------------------------------------------------------
(***************************************************************************)
(* The theorems.                                                           *)
(***************************************************************************)

\* TypeOK: a collection's walk stays within its roster, its listings and its
\* calls, and all it holds carries the account it resolved (AwsCollector and
\* AzureCollector.collect).
THEOREM TypeCorrect == Spec => []TypeOK
PROOF
<1>1. Walked => TypeOK
  BY DEF Walked
<1> QED
  BY <1>1, WalkInvariant, PTL

\* OnlyPassedOverMislead: whatever calls fail, of whichever sub-collector of
\* either provider, the only ordinary values that stand where a failed call was
\* to supply one are those of the calls that five collectors pass over
\* (_managed_policy_document of iam_roles.py, the Vpc, StorageAccount, KeyVault and
\* VirtualMachine collectors).
THEOREM MisleadingValuesAreListed == Spec => []OnlyPassedOverMislead
PROOF
<1>1. Spec => []TruthInv
  BY TruthInit, TruthNext, WalkInvariant, PTL DEF Spec
<1> QED
  BY <1>1, TruthIsEnough, PTL

\* GapsStayLocal: what a completed scan lacks was lost to a call of the
\* sub-collector whose it was (AwsCollector.collect and AzureCollector.collect
\* isolate their sub-collectors), and for the
\* collectors that isolate their items to a call about that item.
THEOREM GapsAreLocal == Spec => []GapsStayLocal
PROOF
<1>1. Spec => []GapInv
  BY GapInit, GapNext, WalkInvariant, PTL DEF Spec
<1> QED
  BY <1>1, GapIsEnough, WalkInvariant, PTL

\* LossIsCounted: collect_each's skipped and the denials of call_with_retry
\* add up to what is missing from what the sub-collector returned.
THEOREM BooksBalance == Spec => []LossIsCounted
PROOF
<1>1. Spec => []TruthInv
  BY TruthInit, TruthNext, WalkInvariant, PTL DEF Spec
<1>2. Spec => []BookInv
  BY <1>1, BookInit, BookNext, WalkInvariant, PTL DEF Spec
<1>3. BookInv => LossIsCounted
  BY DEF BookInv
<1> QED
  BY <1>2, <1>3, PTL

\* CollectedIsBound: the identity gate lets nothing of an undeclared account
\* be collected, and on Azure nothing of an undeclared directory.
THEOREM GateHolds == Spec => []CollectedIsBound
PROOF
<1>1. Spec => []GateInv
  BY GateInit, GateNext, WalkInvariant, PTL DEF Spec
<1>2. GateInv => CollectedIsBound
  BY DEF GateInv, CollectedIsBound
<1> QED
  BY <1>1, <1>2, PTL
=============================================================================
