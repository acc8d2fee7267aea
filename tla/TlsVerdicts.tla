------------------------------ MODULE TlsVerdicts -------------------------------
(***************************************************************************)
(* What the TLS checks make of a server that answers or does not: its      *)
(* certificate, the versions and suites it accepts, the order it prefers   *)
(* them in, its signatures, stapling and HSTS, the grade, the assessment   *)
(* by the NCSC guidelines, and what is advised.  A probe that fails is a   *)
(* question of S; most of them cannot be told from a refusal.              *)
(***************************************************************************)
EXTENDS ZoneVerdicts

Versions == {"TLS 1.0", "TLS 1.1", "TLS 1.2", "TLS 1.3"}

\* A suite by the parts of its name.
Suite(kx, auth, bulk, mac) == [kx |-> kx, auth |-> auth, bulk |-> bulk, mac |-> mac]
SuiteOf(name) ==
    CASE name = "ECDHE-RSA-AES256-GCM-SHA384" -> Suite("ECDHE", "RSA", "AES256-GCM", "SHA384")
      [] name = "ECDHE-RSA-AES256-SHA384" -> Suite("ECDHE", "RSA", "AES256-CBC", "SHA384")
      [] name = "DHE-RSA-AES128-GCM-SHA256" -> Suite("DHE", "RSA", "AES128-GCM", "SHA256")
      [] name = "AES128-SHA" -> Suite("RSA", "RSA", "AES128-CBC", "SHA")
      [] name = "NULL-MD5" -> Suite("RSA", "NULL", "NULL", "MD5")
      [] name = "TLS_AES_256_GCM_SHA384" -> Suite("TLS1.3", "certificate", "AES256-GCM", "SHA384")
OldSuites == {"ECDHE-RSA-AES256-GCM-SHA384", "ECDHE-RSA-AES256-SHA384", "DHE-RSA-AES128-GCM-SHA256", "AES128-SHA",
              "NULL-MD5"}
NewSuite == "TLS_AES_256_GCM_SHA384"
Hashes == {"SHA1", "SHA224", "SHA256"}
Hsts(age, subdomains, preload) == [age |-> age, subdomains |-> subdomains, preload |-> preload]
Day == 86400
Year == 31536000

GoodTls ==
    [versions |-> {"TLS 1.2", "TLS 1.3"}, suites |-> {"ECDHE-RSA-AES256-GCM-SHA384"}, prefers |-> "strong",
     cert |-> "valid", ocspUri |-> TRUE, staples |-> TRUE, compresses |-> FALSE, key |-> <<"EC", 256>>,
     hashes |-> {"SHA256"}, hsts |-> Some(Hsts(Year, TRUE, TRUE)), hstsAt |-> {"first", "final"}, status |-> 200,
     cdn |-> "none", edgeHsts |-> FALSE]

TlsFlaws ==
    [versions |-> { {}, {"TLS 1.2"}, {"TLS 1.3"}, {"TLS 1.0"}, Versions },
     suites |-> { {"ECDHE-RSA-AES256-GCM-SHA384", "ECDHE-RSA-AES256-SHA384", "DHE-RSA-AES128-GCM-SHA256"},
                  {"ECDHE-RSA-AES256-GCM-SHA384", "AES128-SHA"}, {"AES128-SHA"}, OldSuites },
     prefers |-> {"client", "weak"},
     cert |-> {"soon", "expired", "self-signed", "chain"}, ocspUri |-> {FALSE}, staples |-> {FALSE}, compresses |-> {TRUE},
     key |-> { <<"RSA", 2048>>, <<"RSA", 1024>> }, hashes |-> { {}, {"SHA1", "SHA256"}, {"SHA224", "SHA256"} },
     hsts |-> { Absent, Some(Hsts(0, TRUE, TRUE)), Some(Hsts(Day - 1, TRUE, FALSE)), Some(Hsts(Day, FALSE, FALSE)) },
     hstsAt |-> { {"final"} }, status |-> {401, 403, 405, 429}, cdn |-> {"cloudflare", "bunny", "azure"}, edgeHsts |-> {TRUE}]

TlsQuestions ==
    { <<"tls", v>> : v \in Versions } \cup { <<"cipher", s>> : s \in OldSuites \cup {NewSuite} }
    \cup { <<"order", s>> : s \in OldSuites \cup {"all"} } \cup { <<"hash", h>> : h \in Hashes \cup {"TLS 1.2"} }
    \cup { <<"ssl", "connect">>, <<"cert", "connect">>, <<"cert", "key">>, <<"ocsp", "staple">>, <<"tls", "compression">>,
           <<"tls", "server">>, <<"hsts", "first">>, <<"hsts", "final">>, <<"edge", "blocks">> }

--------------------------------------------------------------------------------
\* The levels of the NCSC guidelines, best first.

_LEVEL_RANK(level) == CASE level = "good" -> 0 [] level = "sufficient" -> 1 [] level = "phased_out" -> 2
                        [] level = "insufficient" -> 3
_worst(levels) == CHOOSE l \in levels : \A k \in levels : _LEVEL_RANK(k) <= _LEVEL_RANK(l)

_classify_protocol(v) == CASE v = "TLS 1.3" -> "good" [] v = "TLS 1.2" -> "sufficient" [] OTHER -> "insufficient"
_classify_key_exchange(s) ==
    CASE s.kx = "TLS1.3" -> "good" [] s.kx = "ECDHE" -> "sufficient" [] s.kx = "DHE" -> "phased_out"
      [] s.kx = "RSA" -> "insufficient"
_classify_auth(s) ==
    CASE s.auth = "NULL" -> "insufficient" [] s.auth = "RSA" -> "sufficient" [] s.auth = "certificate" -> "good"
_classify_bulk(s) ==
    CASE s.bulk = "NULL" -> "insufficient" [] s.bulk = "AES256-GCM" -> "good" [] s.bulk = "AES128-GCM" -> "sufficient"
      [] s.bulk \in {"AES256-CBC", "AES128-CBC"} -> "phased_out"
_classify_hash(s) ==
    CASE s.mac = "MD5" -> "insufficient" [] s.mac = "SHA" -> "insufficient" [] s.mac \in {"SHA256", "SHA384"} -> "good"
classify_cipher_suite(name) ==
    LET s == SuiteOf(name)
    IN  _worst({_classify_key_exchange(s), _classify_auth(s), _classify_bulk(s), _classify_hash(s)})
assess_certificate_key(type, bits) ==
    IF type = "EC" THEN IF bits >= 256 THEN "sufficient" ELSE IF bits >= 224 THEN "phased_out" ELSE "insufficient"
    ELSE IF bits >= 3072 THEN "sufficient" ELSE IF bits >= 2048 THEN "phased_out" ELSE "insufficient"

_classify_cipher(name) ==
    LET s == SuiteOf(name)
    IN  CASE s.bulk = "NULL" -> "insecure" [] s.mac \in {"MD5", "SHA"} -> "weak"
          [] s.bulk \in {"AES256-GCM", "AES128-GCM"} -> "strong" [] OTHER -> "acceptable"
_has_forward_secrecy(name) == SuiteOf(name).kx \in {"TLS1.3", "ECDHE", "DHE"}

--------------------------------------------------------------------------------
\* The checks.

\* A certificate is at fault itself, or could only not be verified from here.
_CERT_FAULTS == {"expired", "self-signed"}
_cert_verify_failure(w) ==
    [success |-> FALSE, trusted |-> IF w.cert \in _CERT_FAULTS THEN "no" ELSE "unknown",
     scope |-> IF w.cert \in _CERT_FAULTS THEN "certificate" ELSE "unverified"]
Fetched(w, asks, S) ==
    IF asks \cap S # {} \/ w.versions = {} THEN [success |-> FALSE, trusted |-> "unknown", scope |-> "none"]
    ELSE IF w.cert \in {"valid", "soon"} THEN [success |-> TRUE, trusted |-> "yes", scope |-> "none"]
    ELSE _cert_verify_failure(w)

check_ssl(w, S) == [success |-> Fetched(w, {<<"ssl", "connect">>}, S).success, until |-> w.cert]

_test_protocol(w, v, q, S) == v \in w.versions /\ {q, <<"tls", "server">>} \cap S = {}

_enumerate_ciphers(w, S) ==
    {s \in w.suites : "TLS 1.2" \in w.versions /\ <<"cipher", s>> \notin S}
    \cup (IF "TLS 1.3" \in w.versions /\ <<"cipher", NewSuite>> \notin S THEN {NewSuite} ELSE {})

\* The server picks one of each pair of a better and a worse suite; the
\* better one is offered first.
check_cipher_order(w, accepted, S) ==
    LET old == accepted \ {NewSuite}
        better == {s \in old : classify_cipher_suite(s) \in {"good", "sufficient"}}
        worse == old \ better
        heard == {s \in worse : <<"order", s>> \notin S}
    IN  IF worse = {} THEN [applicable |-> FALSE, pass |-> "yes"]
        ELSE IF better = {} THEN [applicable |-> FALSE, pass |-> "no"]
        ELSE [applicable |-> TRUE,
              pass |-> IF heard # {} /\ w.prefers = "weak" THEN "no"
                       ELSE IF heard = {} \/ (heard # worse /\ <<"order", "all">> \in S) THEN "unknown" ELSE "yes"]

\* A hash that is refused and one that is not answered for are alike.
check_tls_signature_hashes(w, S) ==
    LET applicable == _test_protocol(w, "TLS 1.2", <<"hash", "TLS 1.2">>, S)
        accepted == IF applicable THEN {h \in w.hashes : <<"hash", h>> \notin S} ELSE {}
    IN  [applicable |-> applicable, evaluated |-> accepted # {}, insufficient |-> accepted \cap {"SHA1"},
         phased_out |-> accepted \cap {"SHA224"}]

_check_ocsp_stapling(w, S) ==
    IF <<"ocsp", "staple">> \in S THEN "unknown" ELSE IF w.staples THEN "yes" ELSE "no"
_check_tls_compression(w, S) == w.compresses /\ <<"tls", "compression">> \notin S
_peer_cert_key_info(w, S) == IF <<"cert", "key">> \in S THEN Absent ELSE Some(w.key)

\* Where the edge blocks a scan, every page is a 403 that leaves headers out.
Status(w, S) == IF <<"edge", "blocks">> \in S THEN 403 ELSE w.status
_response_access_blocked(w, S) ==
    Status(w, S) = 403 \/ (Status(w, S) \in {401, 429} /\ w.cdn \in {"cloudflare", "bunny"})
ShowsHsts(w, S, request) ==
    w.hsts # Absent /\ request \in w.hstsAt /\ (<<"edge", "blocks">> \in S => w.edgeHsts)
_probe_hsts(w, S) ==
    LET heard == {q \in {"first", "final"} : <<"hsts", q>> \notin S}
        shown == \E q \in heard : ShowsHsts(w, S, q)
        blocked == ~shown /\ (heard = {} \/ _response_access_blocked(w, S))
    IN  [enabled |-> IF shown THEN "yes" ELSE IF blocked THEN "unknown" ELSE "no",
         value |-> IF shown THEN w.hsts ELSE Absent, blocked |-> blocked]

\* The grade: Absent when the certificate was not judged.
_calculate_tls_grade(protocols, ciphers, cert, ocsp, compression, hsts) ==
    LET weak == \E s \in ciphers : _classify_cipher(s) \in {"weak", "insecure"}
        secret == {s \in ciphers : _has_forward_secrecy(s)}
        off(condition, points) == IF condition THEN points ELSE 0
        score == 100 - off("TLS 1.0" \in protocols, 15) - off("TLS 1.1" \in protocols, 10)
                     - off({"TLS 1.2", "TLS 1.3"} \cap protocols = {}, 30) - off("TLS 1.3" \notin protocols, 5)
                     - off(weak, 20) - off(secret = {}, 15) - off(compression, 15) - off(ocsp # "yes", 5)
                     - off(hsts = "no", 5)
    IN  IF ~cert.success THEN IF cert.trusted = "no" THEN Some("T") ELSE Absent
        ELSE Some(IF score >= 95 /\ hsts = "yes" /\ ciphers # {} /\ secret = ciphers /\ ~weak THEN "A+"
                  ELSE IF score >= 80 THEN "A" ELSE IF score >= 65 THEN "B" ELSE IF score >= 50 THEN "C"
                  ELSE IF score >= 35 THEN "D" ELSE "F")

\* Nothing that answered is not measured; anything that did is.
check_tls_deep(w, S) ==
    LET protocols == {v \in Versions : _test_protocol(w, v, <<"tls", v>>, S)}
        cert == Fetched(w, {<<"cert", "connect">>, <<"tls", "server">>}, S)
        ciphers == _enumerate_ciphers(w, S)
        ocsp == _check_ocsp_stapling(w, S)
        compression == _check_tls_compression(w, S)
        hsts == _probe_hsts(w, S)
    IN  IF protocols = {} /\ ~cert.success /\ cert.trusted # "no" THEN [success |-> FALSE, state |-> "unmeasured"]
        ELSE [success |-> TRUE, protocols |-> protocols, ciphers |-> ciphers, cert |-> cert,
              soon |-> cert.success /\ w.cert = "soon", ocspUri |-> cert.success /\ w.ocspUri,
              key |-> IF cert.scope = "none" /\ ~cert.success THEN Absent ELSE _peer_cert_key_info(w, S),
              order |-> check_cipher_order(w, ciphers, S), hashes |-> check_tls_signature_hashes(w, S),
              ocsp |-> ocsp, compression |-> compression, hsts |-> hsts,
              grade |-> _calculate_tls_grade(protocols, ciphers, cert, ocsp, compression, hsts.enabled)]

--------------------------------------------------------------------------------
\* What is advised.

Deep(r) == "tls_deep" \in DOMAIN r /\ r.tls_deep.success

HstsAdvice(hsts) ==
    IF hsts.enabled = "unknown" THEN << Item("tls:hsts unverified", "info") >>
    ELSE IF hsts.enabled = "no" THEN << Item("web:hsts:missing", "medium") >>
    ELSE LET value == hsts.value[1]
         IN  (IF value.age = 0 THEN << Item("tls:hsts off", "high") >>
              ELSE IF value.age < Day THEN << ItemOf("tls:hsts short", "", value.age, "medium") >>
              ELSE If(value.age < Year, << Item("tls:hsts below a year", "low") >>))
             \o (IF ~value.subdomains THEN << Item("tls:hsts subdomains", "low") >>
                 ELSE If(~value.preload, << Item("tls:hsts preload", "info") >>))

Outdated(t, v) ==
    If(v \in t.protocols /\ _classify_protocol(v) = "insufficient", << ItemOf("tls:protocol", v, 0, "high") >>)
_tls(r) ==
    LET t == r.tls_deep
        strengths == {_classify_cipher(s) : s \in t.ciphers}
    IN  If(Deep(r),
           If(t.cert.scope = "unverified", << Item("certificate:unverified", "info") >>)
           \o If(t.grade # Absent /\ t.grade[1] \in {"D", "F", "T"}, << ItemOf("tls:grade", t.grade[1], 0, "critical") >>)
           \o Outdated(t, "TLS 1.0") \o Outdated(t, "TLS 1.1")
           \o If("TLS 1.3" \notin t.protocols, << Item("tls:protocol:1.3", "low") >>)
           \o If(strengths \cap {"weak", "insecure"} # {}, << Item("tls:cipher:insufficient", "high") >>)
           \o If(\E s \in t.ciphers : ~_has_forward_secrecy(s), << Item("tls:forward secrecy", "medium") >>)
           \o If(t.compression, << Item("tls:compression", "high") >>)
           \o If(t.ocsp = "no" /\ t.cert.success, << Item("tls:ocsp", IF t.ocspUri THEN "low" ELSE "info") >>)
           \o HstsAdvice(t.hsts)
           \o If(t.soon, << Item("certificate:soon", "high") >>))

\* The assessment by the guidelines is derived from the deep scan, when that
\* is there and the assessment was selected.
ProtocolFindings(t) ==
    Outdated(t, "TLS 1.0") \o Outdated(t, "TLS 1.1")
    \o If("TLS 1.3" \notin t.protocols, << Item("tls:protocol:1.3", "low") >>)
    \o If({"TLS 1.2", "TLS 1.3"} \cap t.protocols = {}, << Item("ncsc:no modern version", "high") >>)
SuiteFindings(levels, phased) ==
    If("insufficient" \in levels, << Item("tls:cipher:insufficient", "high") >>)
    \o If(phased # {}, << ItemOf("ncsc:phased out suites", "", Cardinality(phased), "medium") >>)
KeyAssessment(t) == IF t.key = Absent THEN "none" ELSE assess_certificate_key(t.key[1][1], t.key[1][2])
CertificateFindings(t, keyLevel) ==
    If(t.compression, << Item("tls:compression", "high") >>)
    \o If(keyLevel = "insufficient", << Item("ncsc:key insufficient", "high") >>)
    \o If(keyLevel = "phased_out", << Item("ncsc:key phased out", "medium") >>)
    \o If(t.ocspUri /\ t.ocsp = "no", << Item("tls:ocsp", "low") >>)
OrderFindings(order) == If(order.applicable /\ order.pass = "no", << Item("ncsc:cipher order", "medium") >>)
SignatureFindings(hashes) ==
    If(hashes.applicable /\ hashes.evaluated,
       IF hashes.insufficient # {} THEN << Item("ncsc:signature hash insufficient", "high") >>
       ELSE If(hashes.phased_out # {}, << Item("ncsc:signature hash phased out", "medium") >>))

\* The worst level of all that was rated; what was not asked is not rated.
Levels(t, suites, keyLevel) ==
    {_classify_protocol(v) : v \in t.protocols} \cup {IF "TLS 1.3" \in t.protocols THEN "good" ELSE "sufficient"} \cup suites
    \cup (IF {"TLS 1.2", "TLS 1.3"} \cap t.protocols = {} \/ t.compression THEN {"insufficient"} ELSE {"good"})
    \cup ({keyLevel} \ {"none"})
    \cup (CASE ~(t.hashes.applicable /\ t.hashes.evaluated) -> {} [] t.hashes.insufficient # {} -> {"insufficient"}
            [] OTHER -> IF t.hashes.phased_out # {} THEN {"phased_out"} ELSE {"good"})
Compliant(t, overall, suites) ==
    /\ overall \in {"good", "sufficient"} /\ "insufficient" \notin suites
    /\ t.order.applicable => t.order.pass = "yes"
    /\ t.hashes.applicable /\ t.hashes.evaluated => t.hashes.insufficient = {}
assess(t) ==
    LET phased == {s \in t.ciphers : classify_cipher_suite(s) = "phased_out"}
        Assessed(suites, keyLevel) ==
            [success |-> TRUE, pass |-> Compliant(t, _worst(Levels(t, suites, keyLevel)), suites),
             findings |-> ProtocolFindings(t) \o SuiteFindings(suites, phased) \o CertificateFindings(t, keyLevel)
                          \o OrderFindings(t.order) \o SignatureFindings(t.hashes)]
    IN  Assessed({classify_cipher_suite(s) : s \in t.ciphers}, KeyAssessment(t))
_attach_ncsc_tls(results) == IF Deep(results) THEN assess(results.tls_deep) ELSE [success |-> FALSE, findings |-> <<>>]
_ncsc_tls(r) == If("ncsc_tls" \in DOMAIN r, r.ncsc_tls.findings)
=============================================================================
