------------------------------ MODULE ZoneVerdicts ------------------------------
(***************************************************************************)
(* What the checks of a domain's DNS and mail records make of the answers  *)
(* they get, and what is advised on their results.  `w` is what is true of *)
(* the domain, `S` the questions of a scan that get no answer; a question  *)
(* is a check and what it asks, for each check asks for itself.            *)
(***************************************************************************)
EXTENDS Integers, Sequences, FiniteSets, SequencesExt

\* A value that may be absent.
Absent == <<>>
Some(v) == <<v>>
\* Severities, gravest first.
Severities == <<"critical", "high", "medium", "low", "info">>

\* A piece of advice: its identity, what it is of, the number in its title.
ItemOf(key, of, n, sev) == [key |-> key, of |-> of, n |-> n, sev |-> sev]
Item(key, sev) == ItemOf(key, "", 0, sev)
If(condition, items) == IF condition THEN items ELSE <<>>

(***************************************************************************)
(* The facts.  Text records are sequences in the order they are published; *)
(* an SPF record is its mechanisms and its "all", a CAA record its tag and *)
(* value.  `includes` are the SPF records of the names it refers to.       *)
(***************************************************************************)
Domain == "d"
Selectors == {"s1", "s2"}
Own == "k1"  \* a selector of the domain that is not among the common ones
Labels == <<"SPF", "DMARC", "MTA-STS", "TLS-RPT">>
SpfRecord(all, mechanisms) == [all |-> all, mechanisms |-> mechanisms]
Mechanism(kind, target) == [kind |-> kind, target |-> target]
DmarcRecord(p, sp) == [p |-> p, sp |-> sp]
CaaRecord(tag, value) == [tag |-> tag, value |-> value]
Issued(issuer, recent) == [issuer |-> issuer, recent |-> recent]
InZone == {"d", "mail.d", "mx2.d"}

GoodZone ==
    [dnskey |-> TRUE, ds |-> TRUE,
     spf |-> << SpfRecord("-all", <<Mechanism("include:", "p"), Mechanism("ip4:", "")>>) >>,
     includes |-> [t \in {"p", "q"} |-> IF t = "p" THEN <<Mechanism("a", "")>> ELSE <<>>],
     dmarc |-> << DmarcRecord("reject", "") >>,
     dkim |-> [s \in Selectors \cup {Own} |-> IF s = "s1" THEN "active" ELSE "none"],
     sts |-> TRUE, policy |-> "valid", tlsrpt |-> "rua",
     mx |-> <<"mail.d">>, tlsa |-> {"mail.d"},
     caa |-> << CaaRecord("issue", "le") >>, ct |-> { Issued("le", TRUE) },
     ns |-> {"ns1"}, axfr |-> {}, wildcard |-> FALSE, stray |-> {}]

\* One fact that is not as it should be.
ZoneFlaws ==
    [dnskey |-> {FALSE}, ds |-> {FALSE},
     spf |-> { <<>>, << SpfRecord("~all", <<>>) >>, << SpfRecord("-all", <<Mechanism("mx", "")>>) >>,
               << SpfRecord("none", <<Mechanism("redirect=", "q")>>) >>,
               << SpfRecord("-all", [i \in 1..10 |-> Mechanism("include:", IF i = 1 THEN "p" ELSE "q")]) >>,
               << SpfRecord("-all", <<>>), SpfRecord("+all", <<>>) >> },
     includes |-> { [t \in {"p", "q"} |-> [i \in 1..11 |-> Mechanism("a", "")]],
                    [t \in {"p", "q"} |-> <<Mechanism("include:", IF t = "p" THEN "q" ELSE "p")>>] },
     dmarc |-> { <<>>, << DmarcRecord("none", "") >>, << DmarcRecord("quarantine", "none") >>,
                 << DmarcRecord("", "") >>, << DmarcRecord("reject", ""), DmarcRecord("none", "none") >> },
     dkim |-> { [s \in Selectors \cup {Own} |-> v] : v \in {"none", "other", "revoked"} }
              \cup { [s \in Selectors \cup {Own} |-> IF s = Own THEN "active" ELSE "none"] },
     sts |-> {FALSE}, policy |-> {"invalid", "missing"}, tlsrpt |-> {"none", "plain"},
     mx |-> { <<>>, <<".">>, <<"mx.p">>, <<"mail.d", "mx.p", "mx2.d">>, <<".", "mail.d">> },
     tlsa |-> { {}, {"d"}, {"mx.p"} },
     caa |-> { <<>>, << CaaRecord("iodef", "") >>, << CaaRecord("Issue", "le") >>, << CaaRecord("issue", ";") >>,
               << CaaRecord("issue", "dc") >> },
     ct |-> { {}, { Issued("le", FALSE), Issued("cf", TRUE) }, { Issued("dc", TRUE), Issued("unknown", TRUE) } },
     ns |-> { {} }, axfr |-> { {"ns1"} }, wildcard |-> {TRUE}, stray |-> { {"SPF"}, {"MTA-STS", "TLS-RPT"} }]

ZoneQuestions ==
    { <<"dnssec", "DNSKEY">>, <<"dnssec", "DS">>, <<"spf", "TXT">>, <<"dmarc", "TXT">>, <<"mta_sts", "TXT">>,
      <<"mta_sts", "policy">>, <<"tlsrpt", "TXT">>, <<"dns", "MX">>, <<"dns", "A">>, <<"gaps", "NS">>, <<"gaps", "ns1">>,
      <<"gaps", "CAA">>, <<"gaps", "crtsh">>, <<"gaps", "DMARC">>, <<"gaps", "wildcard">>,
      <<"mx_dane", "MX">>, <<"spf_lookups", "d">>, <<"spf_lookups", "p">>, <<"spf_lookups", "q">> }
    \cup { <<"dkim", s>> : s \in Selectors \cup {Own} }
    \cup { <<"mx_dane", h>> : h \in {"d", "mail.d", "mx.p", "mx2.d"} }
    \cup { <<"hygiene", l>> : l \in ToSet(Labels) }

--------------------------------------------------------------------------------
\* The checks.

NotAnswered(result) == [result EXCEPT !.state = "unmeasured"]

lookup_dns(w, S) ==
    [MX |-> IF <<"dns", "MX">> \in S \/ w.mx = <<>> THEN Absent ELSE Some(w.mx), A |-> w.address /\ <<"dns", "A">> \notin S]

check_dnssec(w, S) ==
    IF {<<"dnssec", "DNSKEY">>, <<"dnssec", "DS">>} \cap S # {}
    THEN [state |-> "unmeasured", signed |-> FALSE]
    ELSE [state |-> "measured", signed |-> w.dnskey /\ w.ds]

NoSpf == [state |-> "measured", found |-> FALSE, pass |-> FALSE, record |-> Absent, strict |-> FALSE, multiple |-> FALSE]
check_spf(w, S) ==
    IF <<"spf", "TXT">> \in S THEN NotAnswered(NoSpf)
    ELSE IF w.spf = <<>> THEN NoSpf
    ELSE [state |-> "measured", found |-> TRUE, record |-> Some(Head(w.spf)), multiple |-> Len(w.spf) > 1,
          strict |-> Head(w.spf).all = "-all",
          pass |-> Head(w.spf).all \in {"-all", "~all", "?all"} /\ Len(w.spf) = 1]

NoDmarc == [state |-> "measured", found |-> FALSE, pass |-> FALSE, policy |-> Absent]
check_dmarc(w, S) ==
    LET policy == IF Head(w.dmarc).p = "" THEN "none" ELSE Head(w.dmarc).p
    IN  IF <<"dmarc", "TXT">> \in S THEN NotAnswered(NoDmarc)
        ELSE IF w.dmarc = <<>> THEN NoDmarc
        ELSE [state |-> "measured", found |-> TRUE, policy |-> Some(policy),
              pass |-> policy \in {"reject", "quarantine"} /\ Len(w.dmarc) = 1]

\* The common selectors, and those that mail of the domain showed; a record
\* without a p= tag is no DKIM key.
check_dkim(w, S) ==
    LET selectors == Selectors \cup w.learned
        heard == {s \in selectors : <<"dkim", s>> \notin S}
        found == {s \in heard : w.dkim[s] \in {"revoked", "active"}}
        active == {s \in found : w.dkim[s] = "active"}
    IN  [state |-> IF found # {} \/ heard = selectors THEN "measured" ELSE "unmeasured",
         found |-> found # {}, pass |-> active # {}]

NoSts == [state |-> "measured", found |-> FALSE, pass |-> FALSE]
check_mta_sts(w, S) ==
    IF <<"mta_sts", "TXT">> \in S THEN NotAnswered(NoSts)
    ELSE [NoSts EXCEPT !.found = w.sts, !.pass = w.sts /\ <<"mta_sts", "policy">> \notin S /\ w.policy = "valid"]

check_tlsrpt(w, S) ==
    IF <<"tlsrpt", "TXT">> \in S THEN NotAnswered(NoSts)
    ELSE [NoSts EXCEPT !.found = w.tlsrpt # "none", !.pass = w.tlsrpt = "rua"]

\* The mail exchangers by name; a null MX has none, no MX means the domain.
MxHosts(w) == IF w.mx = <<>> THEN <<Domain>> ELSE SelectSeq(w.mx, LAMBDA h : h # ".")

_check_mx_dane(w, S) ==
    LET asked == ToSet(MxHosts(w))
        heard == {h \in asked : <<"mx_dane", h>> \notin S}
    IN  IF <<"mx_dane", "MX">> \in S THEN [state |-> "unmeasured", with |-> {}, without |-> {}]
        ELSE IF asked = {} THEN [state |-> "not_applicable", with |-> {}, without |-> {}]
        ELSE [state |-> IF heard = asked THEN "measured" ELSE "unmeasured",
              with |-> heard \cap w.tlsa, without |-> heard \ w.tlsa]

\* The lookups an SPF record asks for, through the names it refers to, each
\* of them once: the count and the names seen so far.  A name that does not
\* answer counts for none.
RECURSIVE Lookups(_, _, _, _)
Lookups(w, S, mechanisms, seen) ==
    IF mechanisms = <<>> THEN [count |-> 0, seen |-> seen]
    ELSE LET m == Head(mechanisms)
             costs == m.kind \in {"include:", "a:", "a", "mx", "redirect="}
             follows == m.kind \in {"include:", "redirect="} /\ m.target \notin seen
             below == IF ~follows THEN [count |-> 0, seen |-> seen]
                      ELSE IF <<"spf_lookups", m.target>> \in S THEN [count |-> 0, seen |-> seen \cup {m.target}]
                      ELSE Lookups(w, S, w.includes[m.target], seen \cup {m.target})
             rest == Lookups(w, S, Tail(mechanisms), below.seen)
         IN  [count |-> (IF costs THEN 1 ELSE 0) + below.count + rest.count, seen |-> rest.seen]
_spf_lookup_count(w, S) ==
    IF <<"spf_lookups", Domain>> \in S \/ w.spf = <<>> THEN 0
    ELSE Lookups(w, S, Head(w.spf).mechanisms, {Domain}).count

Published(w) ==
    {l \in ToSet(Labels) : CASE l = "SPF" -> w.spf # <<>> [] l = "DMARC" -> w.dmarc # <<>>
                             [] l = "MTA-STS" -> w.sts [] l = "TLS-RPT" -> w.tlsrpt # "none"}
check_txt_hygiene(w, S) == {l \in w.stray \cap Published(w) : <<"hygiene", l>> \notin S}

\* The tags are told apart without regard to case, as the code also does.
IssueTag(record) == record.tag \in {"issue", "Issue"}

\* Which authorities CAA permits: any when no record has the issue property.
caa_allowed_issuers(records) ==
    LET issue == {r \in ToSet(records) : IssueTag(r)}
    IN  IF issue = {} THEN Absent ELSE Some({r.value : r \in issue} \ {";"})
_issuer_caa_domains(issuer) ==
    CASE issuer = "le" -> Some({"le"}) [] issuer = "dc" -> Some({"dc"}) [] issuer = "cf" -> Some({"goog", "dc", "le"})
      [] OTHER -> Absent
\* The issuers CAA does not permit, of the certificates of the last days.
analyse(w, S) ==
    LET allowed == caa_allowed_issuers(w.caa)
        recent == {row.issuer : row \in {r \in w.ct : r.recent}}
        known == {i \in recent : _issuer_caa_domains(i) # Absent}
    IN  IF {<<"gaps", "crtsh">>, <<"gaps", "CAA">>} \cap S # {} THEN [state |-> "unmeasured", unexpected |-> {}]
        ELSE [state |-> "measured",
              unexpected |-> IF allowed = Absent THEN {}
                             ELSE {i \in known : _issuer_caa_domains(i)[1] \cap allowed[1] = {}}]

\* The last p and sp of all the records, whatever number of them there is.
LastOf(tags) == LET said == SelectSeq(tags, LAMBDA t : t # "") IN IF said = <<>> THEN "" ELSE Last(said)
check_dns_mail_gaps(w, S) ==
    LET caa == IF <<"gaps", "CAA">> \in S THEN <<>> ELSE w.caa
        dmarc == IF <<"gaps", "DMARC">> \in S THEN <<>> ELSE w.dmarc
        p == LastOf([i \in DOMAIN dmarc |-> dmarc[i].p])
        sp == LastOf([i \in DOMAIN dmarc |-> dmarc[i].sp])
    IN  [axfr |-> IF <<"gaps", "NS">> \in S THEN {} ELSE {n \in w.axfr \cap w.ns : <<"gaps", n>> \notin S},
         caa |-> [state |-> IF <<"gaps", "CAA">> \in S THEN "unmeasured" ELSE "measured", present |-> caa # <<>>,
                  issue |-> \E i \in DOMAIN caa : IssueTag(caa[i]),
                  odd |-> \E i \in DOMAIN caa : caa[i].tag = "Issue"],
         ct |-> analyse(w, S), dane |-> _check_mx_dane(w, S), lookups |-> _spf_lookup_count(w, S),
         weakSub |-> sp = "none" /\ p \in {"quarantine", "reject"},
         wildcard |-> w.wildcard /\ <<"gaps", "wildcard">> \notin S,
         malformed |-> check_txt_hygiene(w, S)]

--------------------------------------------------------------------------------
\* What is advised on the results r of a scan.

\* A mutant of the check: without an answer taken for an answer.
_measured_AnyState(result) == "state" \in DOMAIN result

_measured(result) == result.state = "measured"

\* A null MX says that no mail is received.  Records that were not found, or
\* not answered, are not among the results of lookup_dns.
_mx_posture(r) ==
    IF "dns" \notin DOMAIN r \/ r.dns.MX = Absent THEN "unknown" ELSE IF r.dns.MX[1] = <<".">> THEN "null" ELSE "mx"
Measured(r, check) == check \in DOMAIN r /\ _measured(r[check])
ForMail(r, check) == Measured(r, check) /\ _mx_posture(r) # "null"

_dnssec(r) == If(Measured(r, "dnssec") /\ ~r.dnssec.signed, << Item("dns:dnssec", "medium") >>)
_spf(r) ==
    If(ForMail(r, "spf"),
       IF ~r.spf.found THEN << Item("email:spf missing", "high") >>
       ELSE If(~r.spf.strict, << Item("email:spf not strict", "medium") >>))
_dmarc(r) ==
    If(ForMail(r, "dmarc"),
       IF ~r.dmarc.found THEN << Item("email:dmarc missing", "high") >>
       ELSE If(r.dmarc.policy = Some("none"), << Item("email:dmarc none", "medium") >>))
\* A domain that receives no mail had better send none.
Locked(record) ==
    record.all = "-all" /\ \A i \in DOMAIN record.mechanisms : record.mechanisms[i].kind \notin {"include:", "a:", "mx"}
_non_mailing_domain(r) ==
    If(_mx_posture(r) = "null",
       If(Measured(r, "spf"),
          IF ~r.spf.found THEN << Item("email:no spf, no mail", "medium") >>
          ELSE If(~Locked(r.spf.record[1]), << Item("email:spf senders, no mail", "medium") >>))
       \o If(Measured(r, "dmarc"),
             IF ~r.dmarc.found THEN << Item("email:no dmarc, no mail", "medium") >>
             ELSE If(r.dmarc.policy # Some("reject"),
                     << ItemOf("email:dmarc weak, no mail", r.dmarc.policy[1], 0, "medium") >>)))
_dkim(r) == If(Measured(r, "dkim") /\ ~r.dkim.found, << Item("email:dkim", "info") >>)
_mta_sts(r) == If(ForMail(r, "mta_sts") /\ ~r.mta_sts.found, << Item("email:mta-sts", "low") >>)
_tlsrpt(r) == If(ForMail(r, "tlsrpt") /\ ~r.tlsrpt.found, << Item("email:tls-rpt", "low") >>)

\* The exchangers without TLSA that the domain can change, and the others.
_mx_dane_missing_split(dane) == [own |-> dane.without \cap InZone, external |-> dane.without \ InZone]

\* The findings of the security audit on the DNS and mail records.
DaneFindings(dane) ==
    LET missing == _mx_dane_missing_split(dane)
    IN  IF dane.state # "measured" THEN <<>>
        ELSE IF missing.own # {}
             THEN << Item("email:dane:missing", "medium") >>
             ELSE If(missing.external # {}, << Item("email:dane:provider", "info") >>)
CaaFindings(caa) ==
    IF caa.state = "measured" /\ ~caa.issue
    THEN << IF caa.present THEN Item("dns:caa no issue", "low") ELSE Item("dns:no caa", "low") >>
    ELSE If(caa.odd, << Item("dns:caa case", "info") >>)
DnsMailFindings(gaps) ==
    If(gaps.axfr # {}, << Item("dns:axfr", "medium") >>)
    \o If(gaps.ct.state = "measured" /\ gaps.ct.unexpected # {}, << Item("certificates:caa", "medium") >>)
    \o DaneFindings(gaps.dane) \o CaaFindings(gaps.caa)
    \o If(gaps.lookups > 10, << ItemOf("email:spf lookups", "", gaps.lookups, "high") >>)
    \o If(gaps.weakSub, << Item("email:dmarc subdomains", "medium") >>)
    \o If(gaps.wildcard, << Item("dns:wildcard", "info") >>)
    \o [i \in 1..Cardinality(gaps.malformed) |->
            ItemOf("dns:malformed", SelectSeq(Labels, LAMBDA l : l \in gaps.malformed)[i], 0, "medium")]
=============================================================================
