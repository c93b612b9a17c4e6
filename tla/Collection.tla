----------------------------- MODULE Collection -----------------------------
(***************************************************************************)
(* One scan's collection: the identity gate, the sub-collectors one after  *)
(* another with every provider call they make, and the graph that decides  *)
(* whether what came back can be used.  Any call may fail, MaxFaults times *)
(* in a scan; credentials that expired stay expired.                       *)
(*                                                                         *)
(* listings holds what the provider has to report to each sub-collector,   *)
(* whether or not the listing succeeds.  refusals remembers the failures.  *)
(***************************************************************************)
EXTENDS CloudServices, SequencesExt

CONSTANTS
    Rosters,      \* the sequences of sub-collectors a scan may run
    Items,        \* what a provider can list
    Identities,   \* [provider, account, directory]: who the credentials are
    Bindings,     \* [provider, account, directory]: what a tenant may scan
    MaxFaults     \* how many calls of one scan may fail afresh

\* AwsIdentityProvider asks STS; AzureIdentityProvider reads the directory
\* out of a token and reports the subscription it was configured with.
AwsIdentity(account) ==
    [provider |-> "aws", account |-> account, directory |-> "none"]
AzureIdentity(subscription, directory) ==
    [provider |-> "azure", account |-> subscription, directory |-> directory]

\* CloudAccountBinding refuses an Azure binding that names no directory.
ValidBinding(binding) ==
    binding.provider = "azure" => binding.directory # "none"

ASSUME CollectionConstants ==
    /\ \A binding \in Bindings : ValidBinding(binding)
    /\ \A roster \in Rosters : roster \in Seq(DOMAIN Services) /\ roster # <<>>
    /\ MaxFaults \in Nat

NoAccount == "unknown-account"

VARIABLES
    roster, identity, bindings,   \* what the scan was configured with
    phase,      \* "label", "gate", "begin", "call", "graph" or "done"
    account,    \* the account every resource is stamped with
    pos,        \* which sub-collector
    listings,   \* per sub-collector begun, what there is
    item, at,   \* the item (0: the listing) and the call it has reached
    draft,      \* attribute -> mark, of the item being normalized
    kept,       \* what this sub-collector has normalized
    resources,  \* what the finished ones returned
    failed,     \* the sub-collectors that raised
    skipped, denials,  \* CollectionStats, per sub-collector
    refusals,   \* [pos, item, op, answer] of every call that failed
    expired, faults, outcome

config == <<roster, identity, bindings>>
walk   == <<pos, listings, item, at, draft, kept>>
tally  == <<failed, skipped, denials>>
vars   == <<config, phase, account, walk, resources, tally, refusals, expired,
            faults, outcome>>

Service   == Services[roster[pos]]
Calls     == Service.calls
Call      == Calls[at]
Attributes(service) ==
    UNION {service.calls[i].feeds : i \in DOMAIN service.calls}
ListCalls(service)  ==
    {i \in DOMAIN service.calls : service.calls[i].per = "list"}
FirstItemCall == Cardinality(ListCalls(Service)) + 1

\* Two pages may repeat an item; the account has one summary.
Listings(service) ==
    IF ListCalls(service) = {} THEN {<<"the account">>}
    ELSE SeqOf(Items, 2)

Init ==
    /\ roster \in Rosters
    /\ identity \in Identities
    /\ bindings \in SUBSET Bindings
    /\ phase = "label" /\ account = NoAccount
    /\ pos = 1 /\ listings = <<>> /\ item = 0 /\ at = 1
    /\ draft = <<>> /\ kept = <<>> /\ resources = <<>>
    /\ failed = {} /\ refusals = {} /\ expired = FALSE /\ faults = 0
    /\ skipped = [p \in DOMAIN roster |-> 0]
    /\ denials = [p \in DOMAIN roster |-> 0]
    /\ outcome = "none"

(***************************************************************************)
(* What a call can come back with, and what that costs.                    *)
(***************************************************************************)
Responds(call, answer) ==
    /\ expired => answer = "expired"
    /\ answer = "absent" => call.may_be_absent
    /\ answer \in Failures /\ ~expired => faults < MaxFaults
    /\ faults' = IF answer \in Failures /\ ~expired THEN faults + 1 ELSE faults
    /\ expired' = (answer = "expired")

Ends(result) == phase' = "done" /\ outcome' = result

(***************************************************************************)
(* Before the first read.  A failing GetCallerIdentity only costs the      *)
(* label; AzureCollector takes the subscription from its clients.          *)
(***************************************************************************)
ResolveAccount ==
    /\ phase = "label" /\ phase' = "gate"
    /\ \/ /\ Service.provider = "azure"
          /\ account' = identity.account
          /\ UNCHANGED <<expired, faults>>
       \/ /\ Service.provider = "aws"
          /\ \E answer \in Answers :
                /\ Responds(Must("GetCallerIdentity", {}), answer)
                /\ account' = IF answer = "ok" THEN identity.account
                                               ELSE NoAccount
    /\ UNCHANGED <<config, walk, resources, tally, refusals, outcome>>

\* Variant: the directory is left to the subscription.
AuthorizesByAccount(binding, actual) ==
    /\ binding.provider = Service.provider
    /\ binding.account = actual.account

\* A binding without a directory does not ask for one; Azure's all have one.
Authorizes(binding, actual) ==
    /\ binding.provider = Service.provider
    /\ binding.provider = actual.provider
    /\ binding.account = actual.account
    /\ binding.directory \in {"none", actual.directory}

VerifyIdentity ==
    /\ phase = "gate"
    /\ \E answer \in Answers :
        /\ Responds(Must("AuthenticatedIdentity", {}), answer)
        /\ IF /\ answer = "ok"
              /\ \E binding \in bindings : Authorizes(binding, identity)
           THEN phase' = "begin" /\ UNCHANGED outcome
           ELSE Ends("refused")
    /\ UNCHANGED <<config, account, walk, resources, tally, refusals>>

(***************************************************************************)
(* One sub-collector.                                                      *)
(***************************************************************************)
Fresh(service) == [a \in Attributes(service) |-> "plain"]

BeginService ==
    /\ phase = "begin" /\ pos <= Len(roster)
    /\ \E listing \in Listings(Service) :
        listings' = Append(listings, listing)
    /\ IF Service.needs_account /\ account = NoAccount
       THEN pos' = pos + 1 /\ UNCHANGED <<phase, item, at, draft, kept>>
       ELSE /\ phase' = "call" /\ item' = 0 /\ at' = 1
            /\ draft' = Fresh(Service) /\ kept' = <<>>
            /\ UNCHANGED pos
    /\ UNCHANGED <<config, account, resources, tally, refusals, expired,
                   faults, outcome>>

AtBoundary ==
    at = IF item = 0 THEN FirstItemCall ELSE Len(Calls) + 1

\* Nothing is left to learn: the collector returned early.
Moot == Call.feeds # {} /\ \A a \in Call.feeds : draft[a] = "unknown"

SkipCall ==
    /\ phase = "call" /\ ~AtBoundary
    /\ Call.optional \/ Moot
    /\ at' = at + 1
    /\ UNCHANGED <<config, phase, account, pos, listings, item, draft, kept,
                   resources, tally, refusals, expired, faults, outcome>>

\* Variant: every failure that is not a denial is taken for "no such thing".
MarkedIfDenied(call, answer) ==
    [a \in DOMAIN draft |->
        IF a \in call.feeds /\ answer = "denied" /\ "denied" \in call.tolerates
           /\ draft[a] # "unknown"
        THEN call.leaves ELSE draft[a]]

\* Variant: the code of the error is kept as the value.
MarkedWithError(call, answer) ==
    [a \in DOMAIN draft |->
        IF a \in call.feeds /\ answer \in call.tolerates
        THEN answer ELSE draft[a]]

\* A contribution that was left out does not undo an unknown.
Marked(call, answer) ==
    [a \in DOMAIN draft |->
        IF a \in call.feeds /\ answer \in call.tolerates
           /\ draft[a] # "unknown"
        THEN call.leaves ELSE draft[a]]

\* call_with_retry counts a denial, and these callers count it once more.
CountedAgain == {"GetPolicy", "GetPolicyVersion", "GetInstanceProfile"}
Denials(call, answer) ==
    IF ~call.retried \/ answer # "denied" THEN 0
    ELSE IF call.op \in CountedAgain THEN 2 ELSE 1

Resource == [pos |-> pos, item |-> item, id |-> listings[pos][item],
             account |-> account, marks |-> draft]

Listed(service, sequence) ==
    service.dedups
    /\ \E i \in DOMAIN sequence : sequence[i].id = listings[pos][item]

Keeping == IF item = 0 \/ Listed(Service, kept) THEN kept
           ELSE Append(kept, Resource)

\* What every item of the listing shares stays, the rest starts again.
NextDraft ==
    [a \in DOMAIN draft |->
        IF \E i \in ListCalls(Service) : a \in Calls[i].feeds
        THEN draft[a] ELSE "plain"]

\* On to the next item, or back to the provider's collector with the batch.
Advance(batch) ==
    IF item < Len(listings[pos])
    THEN /\ item' = item + 1 /\ at' = FirstItemCall
         /\ draft' = NextDraft /\ kept' = batch
         /\ UNCHANGED <<phase, pos, resources>>
    ELSE /\ resources' = resources \o batch
         /\ pos' = pos + 1 /\ phase' = "begin"
         /\ item' = 0 /\ at' = 1 /\ draft' = <<>> /\ kept' = <<>>

NextItem ==
    /\ phase = "call" /\ AtBoundary
    /\ Advance(Keeping)
    /\ UNCHANGED <<config, account, listings, tally, refusals, expired,
                   faults, outcome>>

\* Variant: the loop of the other collectors, which count nothing.
SkipUncounted ==
    /\ Advance(kept)
    /\ UNCHANGED <<skipped, failed, outcome, listings>>

\* collect_each: the item is dropped and counted.
SkipItem ==
    /\ skipped' = [skipped EXCEPT ![pos] = @ + 1]
    /\ Advance(kept)
    /\ UNCHANGED <<failed, outcome, listings>>

\* Variant: the batch collected so far is lost with the failure.
FailServices ==
    /\ failed' = failed \union {pos}
    /\ pos' = pos + 1 /\ phase' = "begin"
    /\ item' = 0 /\ at' = 1 /\ draft' = <<>> /\ kept' = <<>>
    /\ resources' = <<>>
    /\ UNCHANGED <<listings, skipped, outcome>>

\* AwsCollector.collect and AzureCollector.collect isolate what they catch.
FailService ==
    /\ failed' = failed \union {pos}
    /\ pos' = pos + 1 /\ phase' = "begin"
    /\ item' = 0 /\ at' = 1 /\ draft' = <<>> /\ kept' = <<>>
    /\ UNCHANGED <<listings, resources, skipped, outcome>>

\* What no sub-collector translates ends the scan.
Escape ==
    /\ Ends("failed")
    /\ UNCHANGED <<walk, resources, failed, skipped>>

Proceed(answer) ==
    /\ draft' = Marked(Call, answer) /\ at' = at + 1
    /\ UNCHANGED <<phase, pos, listings, item, kept, resources, failed,
                   skipped, outcome>>

MakeCall ==
    /\ phase = "call" /\ ~AtBoundary /\ ~Moot
    /\ \E answer \in Answers :
        /\ Responds(Call, answer)
        /\ denials' = [denials EXCEPT ![pos] = @ + Denials(Call, answer)]
        /\ refusals' =
            IF answer \notin Failures THEN refusals
            ELSE refusals \union {[pos |-> pos, item |-> item, op |-> Call.op,
                                   answer |-> answer]}
        /\ CASE answer \in {"ok", "absent"} \union Call.tolerates ->
                    Proceed(answer)
             [] answer \in Failures \ Call.tolerates
                  /\ Service.each /\ item # 0 -> SkipItem
             [] answer \in Failures \ Call.tolerates
                  /\ ~(Service.each /\ item # 0)
                  /\ RaisedAs(Call, answer) \in Service.catches -> FailService
             [] OTHER -> Escape
    /\ UNCHANGED <<config, account>>

(***************************************************************************)
(* After the last one.                                                     *)
(***************************************************************************)
EndCollection ==
    /\ phase = "begin" /\ pos > Len(roster)
    /\ IF failed = DOMAIN roster THEN Ends("failed")
       ELSE phase' = "graph" /\ UNCHANGED outcome
    /\ UNCHANGED <<config, account, walk, resources, tally, refusals, expired,
                   faults>>

\* GraphIntegrityViolation
Duplicated ==
    \E i, j \in DOMAIN resources :
        /\ i # j
        /\ resources[i].pos = resources[j].pos
        /\ resources[i].id = resources[j].id

\* UnknownType has no JSON form, and no writer passes what it writes through
\* to_wire: a row that holds one cannot be bound, and the block rolls back.
Unstorable ==
    \E r \in ToSet(resources) : \E a \in DOMAIN r.marks : r.marks[a] = "unknown"

\* ScanWorker.run hands PersistScanResult no errors.
ReportedErrors == {}

Conclude ==
    /\ phase = "graph"
    /\ IF Duplicated \/ Unstorable THEN Ends("failed")
       ELSE Ends(IF ReportedErrors = {} THEN "completed" ELSE "partial")
    /\ UNCHANGED <<config, account, walk, resources, tally, refusals, expired,
                   faults>>

Next ==
    \/ ResolveAccount \/ VerifyIdentity
    \/ BeginService \/ SkipCall \/ MakeCall \/ NextItem
    \/ EndCollection \/ Conclude

Spec == Init /\ [][Next]_vars

-----------------------------------------------------------------------------
\* Where the walk and the books of a collection can be.
TypeOK ==
    /\ phase \in {"label", "gate", "begin", "call", "graph", "done"}
    /\ account \in {NoAccount, identity.account}
    /\ pos \in 1..(Len(roster) + 1)
    /\ listings \in Seq(SeqOf(Items \union {"the account"}, 2))
    /\ phase = "call" =>
        /\ pos <= Len(roster) /\ Len(listings) = pos
        /\ item \in 0..Len(listings[pos])
        /\ at \in 1..(Len(Calls) + 1)
        /\ draft \in [Attributes(Service) -> Marks]
    /\ \A r \in ToSet(resources) \union ToSet(kept) :
        r.account = account
        /\ r.marks \in [Attributes(Services[roster[r.pos]]) -> Marks]
    /\ failed \subseteq DOMAIN roster
    /\ {skipped, denials} \subseteq [DOMAIN roster -> Nat]
    /\ faults \in 0..MaxFaults
    /\ outcome \in {"none", "refused", "failed", "completed", "partial"}

IsKept(p, i) ==
    \E r \in ToSet(resources) : r.pos = p /\ r.id = listings[p][i]

\* What a scan did not get was lost to a call of the sub-collector whose it
\* is, and for roles to a call about that very role (or to the listing): the
\* failures of one service never cost another service's resources.  The
\* account's own entry also needs the account's number.
GapsStayLocal ==
    outcome = "completed" =>
        \A p \in DOMAIN roster : \A i \in DOMAIN listings[p] :
            LET service == Services[roster[p]] IN
            \/ IsKept(p, i)
            \/ service.needs_account /\ account = NoAccount
            \/ \E r \in refusals :
                  r.pos = p /\ (service.each => r.item \in {0, i})

(***************************************************************************)
(* The failures that five collectors pass over: the value they leave in    *)
(* place looks like any other.                                             *)
(***************************************************************************)
PassedOver(service, op, answer) ==
    \/ /\ service = "IamRole" /\ answer = "denied"
       /\ op \in {"GetPolicy", "GetPolicyVersion"}
    \/ service = "Vpc" /\ op = "DescribeSubnets" /\ answer # "offline"
    \/ service = "StorageAccount" /\ op = "blob_services.get_service_properties"
    \/ service = "KeyVault" /\ op = "vaults.get"
    \/ /\ service = "VirtualMachine"
       /\ op \in {"network_interfaces.get", "subnets.get",
                  "public_ip_addresses.get"}

\* This failed call was to supply this attribute of what was described.
Deprives(f, r, a) ==
    /\ f.pos = r.pos /\ f.item \in {0, r.item}
    /\ LET calls == Services[roster[r.pos]].calls IN
       \E i \in DOMAIN calls : a \in calls[i].feeds /\ calls[i].op = f.op

\* unknown.py has a denied call leave UNKNOWN and not a value: what a resource
\* presents as an ordinary value rests on calls that were all answered.
NoFabricatedValue ==
    \A r \in ToSet(resources) : \A a \in DOMAIN r.marks :
        r.marks[a] = "plain" => ~\E f \in refusals : Deprives(f, r, a)

\* Apart from those five collectors' calls, no failure turns into a value,
\* whichever collector and whichever call it hits: an attribute that a failed
\* call was to supply is UNKNOWN, or the resource was never returned.
OnlyPassedOverMislead ==
    \A r \in ToSet(resources) : \A a \in DOMAIN r.marks :
        r.marks[a] = "plain" =>
            \A f \in refusals : Deprives(f, r, a) =>
                PassedOver(roster[f.pos], f.op, f.answer)

\* A sub-collector that isolates its items keeps true books of them: what was
\* listed and is not returned was counted as skipped, and a description that
\* goes without an answer has left a denial in the statistics, whether or not
\* the description itself tells.
LossIsCounted ==
    \A p \in DOMAIN roster :
        Services[roster[p]].each /\ p < pos /\ p \notin failed =>
            /\ skipped[p] = Cardinality({i \in DOMAIN listings[p] :
                    ~\E r \in ToSet(resources) : r.pos = p /\ r.item = i})
            /\ (\E r \in ToSet(resources), f \in refusals :
                    r.pos = p /\ f.pos = p /\ f.item = r.item)
               => denials[p] > 0

\* Nothing is ever held of an account that the tenant is not declared to own;
\* on Azure the directory has to be the declared one as well.
CollectedIsBound ==
    resources # <<>> \/ kept # <<>> =>
        \E binding \in bindings :
            /\ binding.provider = identity.provider
            /\ binding.account = identity.account
            /\ binding.provider = "azure" =>
                  binding.directory = identity.directory

\* A scan that lost something says so: resilience.py asks its caller to mark
\* such a scan PARTIAL rather than COMPLETED.
PartialScansSaySo ==
    outcome = "completed" =>
        \A p \in DOMAIN roster : \A i \in DOMAIN listings[p] : IsKept(p, i)

\* unknown.py says of UNKNOWN that it survives persistence: a collection that
\* only marked what it could not read is stored.
UnknownIsStored ==
    phase = "done" /\ pos > Len(roster) /\ failed # DOMAIN roster
    /\ ~Duplicated => outcome # "failed"
=============================================================================
