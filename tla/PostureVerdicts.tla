----------------------------- MODULE PostureVerdicts -----------------------------
(***************************************************************************)
(* What the overview and the management report make of the results of a    *)
(* scan: a tile per subject, a state per baseline control, and the rating  *)
(* of the domain by its open findings.  What was not measured should be    *)
(* neither passed nor failed.                                              *)
(***************************************************************************)
EXTENDS HostVerdicts

--------------------------------------------------------------------------------
\* The tiles: "none" where there is nothing to show.

weak_auth(r) ==
    IF "weak_auth" \notin DOMAIN r THEN "none"
    ELSE IF r.weak_auth.skipped THEN "not_tested" ELSE IF r.weak_auth.weak THEN "fail" ELSE "pass"

\* No host, or a null MX: there is no mail to reach by IPv6.
ipv6_mail(r) ==
    IF "ipv6" \notin DOMAIN r THEN "none"
    ELSE IF r.ipv6.mail THEN "pass" ELSE IF r.ipv6.hosts = {} THEN "none"
    ELSE IF r.ipv6.hosts \cap InZone = {} THEN "context" ELSE "fail"

_null_mx(r) == IF "dns" \in DOMAIN r THEN r.dns.MX = Some(<<".">>) ELSE FALSE
_sends_no_mail(r) == IF "spf" \in DOMAIN r THEN r.spf.record = Some(SpfRecord("-all", <<>>)) ELSE FALSE
_unmeasured_tile(result) == result.state # "measured"
_inbound(r, result) ==
    IF _unmeasured_tile(result) THEN "not_tested"
    ELSE IF result.pass THEN "pass" ELSE IF _null_mx(r) THEN "not_applicable" ELSE "fail"
mta_sts(r) == IF "mta_sts" \in DOMAIN r THEN _inbound(r, r.mta_sts) ELSE "none"
tlsrpt(r) == IF "tlsrpt" \in DOMAIN r THEN _inbound(r, r.tlsrpt) ELSE "none"

\* A key that does not pass is revoked.
dkim(r) ==
    IF "dkim" \notin DOMAIN r THEN "none"
    ELSE IF _unmeasured_tile(r.dkim) THEN "not_tested"
    ELSE IF r.dkim.pass THEN "pass"
    ELSE IF ~r.dkim.found THEN "not_tested" ELSE IF _sends_no_mail(r) THEN "not_applicable" ELSE "context"

tile_states(r) ==
    [weak_auth |-> weak_auth(r), blacklist |-> overview_blacklist(r), ipv6_mail |-> ipv6_mail(r), dkim |-> dkim(r),
     mta_sts |-> mta_sts(r), tlsrpt |-> tlsrpt(r)]

--------------------------------------------------------------------------------
\* The controls.

_measured_block(r, check) == IF check \in DOMAIN r THEN r[check].state = "measured" ELSE FALSE
Checked(measured, inOrder) == IF ~measured THEN "unmeasured" ELSE IF inOrder THEN "pass" ELSE "fail"
_dmarc_control(r) == Checked(_measured_block(r, "dmarc"), r.dmarc.found /\ r.dmarc.policy[1] \in {"quarantine", "reject"})
_spf_control(r) == Checked(_measured_block(r, "spf"), r.spf.found /\ r.spf.strict)
_dnssec_control(r) == Checked(_measured_block(r, "dnssec"), r.dnssec.signed)
_tls_control(r) ==
    IF Deep(r) THEN Checked(r.tls_deep.grade # Absent, r.tls_deep.grade[1] \in {"A+", "A", "B"}) ELSE "unmeasured"
_hsts_control(r) ==
    IF Deep(r) THEN Checked(r.tls_deep.hsts.enabled # "unknown", r.tls_deep.hsts.enabled = "yes") ELSE "unmeasured"
_https_control(r) ==
    IF "https_redirect" \in DOMAIN r THEN Checked(r.https_redirect.pass # "unknown", r.https_redirect.pass = "yes")
    ELSE "unmeasured"
\* A tile that says that no list was asked is no failure either.
_reputation(r) ==
    LET tile == overview_blacklist(r)
    IN  Checked(tile # "none", tile # "fail")

CONTROLS == {"dmarc", "spf", "dnssec", "tls", "hsts", "https", "reputation"}
controls(r) ==
    IF "not_delegated" \in DOMAIN r THEN [c \in CONTROLS |-> "not_applicable"]
    ELSE [dmarc |-> _dmarc_control(r), spf |-> _spf_control(r), dnssec |-> _dnssec_control(r), tls |-> _tls_control(r),
          hsts |-> _hsts_control(r), https |-> _https_control(r), reputation |-> _reputation(r)]

\* The letter follows from the counts of open findings alone.
rating(counts) ==
    IF counts["critical"] > 0 THEN "F" ELSE IF counts["high"] >= 3 THEN "D" ELSE IF counts["high"] > 0 THEN "C"
    ELSE IF counts["medium"] >= 3 THEN "B" ELSE IF counts["medium"] > 0 THEN "A-" ELSE IF counts["low"] > 0 THEN "A" ELSE "A+"
=============================================================================
