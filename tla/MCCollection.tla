---------------------------- MODULE MCCollection ----------------------------
(***************************************************************************)
(* Every sub-collector beside another one of its provider, and the calls   *)
(* of each in full.  Two items and two failures per scan.                  *)
(***************************************************************************)
EXTENDS Collection

MCSymmetry == Permutations(Items)

\* Each runs once before and once after another one.
MCRosters ==
    LET pairs(order) == {<<order[i], order[i + 1]>> : i \in 1..(Len(order) - 1)}
    IN pairs(AwsRoster) \union pairs(AzureRoster)

MCIdentities == {AwsIdentity("A"), AzureIdentity("A", "D"),
                 AzureIdentity("A", "E")}

MCBindings == {AwsIdentity("A"), AzureIdentity("A", "D")}
=============================================================================
