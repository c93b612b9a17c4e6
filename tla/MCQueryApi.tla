----------------------------- MODULE MCQueryApi -----------------------------
(***************************************************************************)
(* Two scans of one account that may be stored in either order, and one of *)
(* somebody else.  What the scans find differs in two ways.                *)
(***************************************************************************)
EXTENDS QueryApi

Scan(key, tenant, at) == [key |-> key, tenant |-> tenant, at |-> at]
MCScans == {Scan("s1", "acme", 1), Scan("s2", "acme", 2), Scan("s3", "zeta", 1)}

Check(name, framework, domain, severity) ==
    [name |-> name, framework |-> framework, domain |-> domain,
     severity |-> severity]

Finding(id, scan, check) == [id |-> id, scan |-> scan, logical |-> check]

\* The domain of the second check is not in the AI contract.
Bucket == Check("acme-bucket", "iso", "storage", "low")
Trail  == Check("acme-trail", "cis", "custom", "high")
Zeta   == Check("zeta-bucket", "iso", "storage", "low")

MCFindings == {
    Finding(4, Scan("s1", "acme", 1), Bucket),
    Finding(2, Scan("s1", "acme", 1), Trail),
    Finding(3, Scan("s2", "acme", 2), Bucket),
    Finding(5, Scan("s2", "acme", 2), Trail),
    Finding(1, Scan("s3", "zeta", 1), Zeta)}

\* The later scan of acme finds the bucket passing and the trail failing, so
\* that both change when the earlier one saw the contrary; or it could not
\* decide either of them.
MCOutcomes ==
    {[f \in MCFindings |->
        CASE f.id \in {1, 5} -> "fail"
          [] f.id = 3        -> "pass"
          [] f.id = 2        -> trail
          [] f.id = 4        -> IF trail = "pass" THEN "fail" ELSE trail] :
        trail \in {"pass", "indeterminate"}}

MCAlphabetical == [cis |-> 1, custom |-> 2, iso |-> 3, storage |-> 4]

Query(table, limit) ==
    [table |-> table, view |-> "full", framework |-> "any", status |-> "any",
     provider |-> "any", state |-> "any", scope |-> "any",
     sort |-> "detected_at_desc", limit |-> limit]

MCQueries == {
    [Query("findings", 2) EXCEPT !.view = "ai", !.sort = "severity_desc"],
    [Query("findings", 1) EXCEPT !.view = "ai", !.sort = "detected_at_asc"],
    [Query("findings", 1) EXCEPT !.framework = "iso", !.provider = "aws"],
    [Query("findings", 1) EXCEPT !.state = "open", !.status = "fail"],
    [Query("scores", 2) EXCEPT !.scope = "framework"],
    Query("scores", 3)}

MCTokens == {
    [tenant |-> "acme", roles |-> {"reader"}],
    [tenant |-> "acme", roles |-> {"scanner"}],
    [tenant |-> "none", roles |-> {"reader"}]}
=============================================================================
