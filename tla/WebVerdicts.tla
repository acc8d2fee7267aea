------------------------------- MODULE WebVerdicts -------------------------------
(***************************************************************************)
(* What the checks of a web server make of its pages, or of their absence: *)
(* the security headers and their values, the content security policy, the *)
(* cookies and the redirect, and what is advised.                          *)
(***************************************************************************)
EXTENDS TlsVerdicts

(***************************************************************************)
(* A policy is a function from its directives to their sources, a header   *)
(* has a value that is good, weak or mistyped.                             *)
(***************************************************************************)
Hsts_ == "Strict-Transport-Security"
Csp_ == "Content-Security-Policy"
Coep_ == "Cross-Origin-Embedder-Policy"
ValueHeaders == {"X-Content-Type-Options", "X-Frame-Options", "X-XSS-Protection", "Referrer-Policy",
                 "Cross-Origin-Opener-Policy", "Cross-Origin-Resource-Policy", Coep_}
PermissionsHeader == "Permissions-Policy"
SECURITY_HEADERS == ValueHeaders \cup {Hsts_, Csp_, PermissionsHeader}

GoodCsp == [d \in {"default-src", "object-src", "frame-ancestors", "base-uri", "form-action", "report-uri"} |->
               IF d \in {"object-src", "frame-ancestors"} THEN {"'none'"} ELSE {"'self'"}]
Having(policy, directive, sources) == (directive :> sources) @@ policy
Lacking(policy, directives) == Restrict(policy, DOMAIN policy \ directives)
CookieOf(name, secure, httponly, samesite) ==
    [name |-> name, sessionish |-> name = "session", secure |-> secure, httponly |-> httponly, samesite |-> samesite]

GoodWeb ==
    [headers |-> [h \in ValueHeaders \cup {PermissionsHeader} |-> "good"], csp |-> Some(GoodCsp), staged |-> Absent,
     cookies |-> << CookieOf("session", TRUE, TRUE, "lax") >>, cors |-> "none", credentials |-> FALSE,
     server |-> "plain", powered |-> "none", aspnet |-> FALSE, redirect |-> "permanent"]

WebFlaws ==
    [headers |-> { << >>, Restrict(GoodWeb.headers, DOMAIN GoodWeb.headers \ {Coep_}),
                   [GoodWeb.headers EXCEPT !["X-Frame-Options"] = "typo"],
                   [GoodWeb.headers EXCEPT !["Referrer-Policy"] = "weak", !["Permissions-Policy"] = "weak"] },
     csp |-> { Absent } \cup
             { Some(c) : c \in
                 { Lacking(GoodCsp, {"default-src", "object-src", "report-uri"}),
                   Lacking(GoodCsp, {"frame-ancestors", "base-uri"}), Lacking(GoodCsp, {"report-uri"}),
                   Having(GoodCsp, "script-src", {"'unsafe-inline'", "cdn"}),
                   Having(GoodCsp, "script-src", {"'unsafe-inline'", "'nonce-"}),
                   Having(GoodCsp, "style-src", {"'unsafe-inline'"}), Having(GoodCsp, "default-src", {"'unsafe-eval'"}),
                   Having(GoodCsp, "img-src", {"*"}), Having(GoodCsp, "frame-ancestors", {"*"}),
                   Having(GoodCsp, "object-src", {"'self'"}) } },
     staged |-> { Some(GoodCsp), Some(Having(GoodCsp, "default-src", {"'none'"})) },
     cookies |-> { << CookieOf("session", FALSE, FALSE, "none"), CookieOf("theme", FALSE, TRUE, "none") >>,
                   << CookieOf("theme", FALSE, TRUE, "") >> },
     cors |-> {"*", "null", "reflect"}, credentials |-> {TRUE}, server |-> {"version"}, powered |-> {"version"},
     aspnet |-> {TRUE}, redirect |-> {"temporary", "none"}]

WebQuestions == { <<"http_headers", "page">>, <<"https_redirect", "http">> }

--------------------------------------------------------------------------------
\* The page as it is sent: the edge's own page carries none of the site's.

EdgePage(S) == <<"edge", "blocks">> \in S
HeadersFound(w, S) ==
    (IF EdgePage(S) THEN {} ELSE DOMAIN w.headers \cup (IF w.csp = Absent THEN {} ELSE {Csp_}))
    \cup (IF ShowsHsts(w, S, "final") THEN {Hsts_} ELSE {})

Issue(id, of, severity) == [id |-> id, of |-> of, severity |-> severity]
IssueIf(condition, id, severity) == IF condition THEN << Issue(id, "", severity) >> ELSE <<>>

(***************************************************************************)
(* What governs scripts and styles is their own directive, or default-src; *)
(* a nonce beside 'unsafe-inline' makes browsers ignore it.                *)
(***************************************************************************)
SourceDirectives == <<"default-src", "script-src", "style-src", "img-src">>
DirectiveIssues(policy, d) ==
    LET from(own) == IF own \in DOMAIN policy THEN own ELSE "default-src"
        scripts == from("script-src") = d
        styles == from("style-src") = d
        sources == IF d \in DOMAIN policy THEN policy[d] ELSE {}
        inline == "'unsafe-inline'" \in sources
    IN  (IF inline /\ (scripts \/ styles)
         THEN << Issue("csp_unsafe_inline", d, IF scripts /\ "'nonce-" \notin sources THEN "high" ELSE "low") >> ELSE <<>>)
        \o (IF "'unsafe-eval'" \in sources /\ scripts THEN << Issue("csp_unsafe_eval", d, "high") >> ELSE <<>>)
        \o (IF "*" \in sources THEN << Issue("csp_wildcard", d, "medium") >> ELSE <<>>)

CspGrade(issues) ==
    LET severities == {issues[i].severity : i \in DOMAIN issues}
    IN  CASE "high" \in severities -> "weak" [] "high" \notin severities /\ "medium" \in severities -> "fair"
          [] severities \cap {"high", "medium"} = {} /\ issues # <<>> -> "good" [] issues = <<>> -> "strong"
analyze_csp(header) ==
    IF header = Absent
    THEN [present |-> FALSE, directives |-> << >>, issues |-> << Issue("csp_missing", "", "medium") >>, grade |-> "missing"]
    ELSE LET policy == header[1]
             has == DOMAIN policy
             issues ==
                 IssueIf({"default-src", "script-src"} \cap has = {}, "csp_no_default_or_script", "high")
                 \o FlattenSeq([i \in DOMAIN SourceDirectives |-> DirectiveIssues(policy, SourceDirectives[i])])
                 \o IssueIf({"object-src", "default-src"} \cap has = {}, "csp_object_src", "low")
                 \o IssueIf("object-src" \in has /\ "'none'" \notin policy["object-src"], "csp_object_src_not_none", "low")
                 \o IssueIf("frame-ancestors" \notin has, "csp_no_frame_ancestors", "medium")
                 \o IssueIf("frame-ancestors" \in has /\ "*" \in policy["frame-ancestors"], "csp_frame_ancestors_star", "high")
                 \o IssueIf("base-uri" \notin has, "csp_no_base_uri", "low")
                 \o IssueIf("form-action" \notin has, "csp_no_form_action", "low")
                 \o IssueIf("report-uri" \notin has, "csp_no_reporting", "info")
         IN  [present |-> TRUE, directives |-> policy, issues |-> issues, grade |-> CspGrade(issues)]

compare_csp(enforced, staged) ==
    [has_report_only |-> staged # Absent, identical |-> staged # Absent /\ enforced = staged]

\* Where third parties' scripts, images and frames come from: they send no
\* header that would let COEP admit them.
coep_breaking_sources(csp) ==
    UNION { csp.directives[d] \ {"'self'", "'none'", "'unsafe-inline'", "'unsafe-eval'", "'nonce-"} :
            d \in ToSet(SourceDirectives) \cap DOMAIN csp.directives }

analyze_cookies(cookies) ==
    LET flags(c) ==
            (IF ~c.secure THEN << Issue("cookie_no_secure", c.name, IF c.sessionish THEN "high" ELSE "medium") >> ELSE <<>>)
            \o (IF c.sessionish /\ ~c.httponly THEN << Issue("cookie_no_httponly", c.name, "high") >> ELSE <<>>)
            \o (IF c.sessionish /\ c.samesite = "" THEN << Issue("cookie_no_samesite", c.name, "medium") >> ELSE <<>>)
            \o (IF c.samesite = "none" /\ ~c.secure
                THEN << Issue("cookie_samesite_none_insecure", c.name, "high") >> ELSE <<>>)
    IN  FlattenSeq([i \in DOMAIN cookies |-> flags(cookies[i])])
\* An origin that is echoed shows only to a request that names one.
analyze_cors(w) ==
    IssueIf(w.cors = "*" /\ w.credentials, "cors_star_with_credentials", "info")
    \o IssueIf(w.cors = "null" /\ w.credentials, "cors_null_origin", "medium")
analyze_framing(w, csp) ==
    LET ids == {csp.issues[i].id : i \in DOMAIN csp.issues}
        xfo == "X-Frame-Options"
    IN  IF "csp_frame_ancestors_star" \in ids THEN << Issue("framing_csp_star", "", "high") >>
        ELSE IF csp.present /\ "csp_no_frame_ancestors" \notin ids THEN <<>>
        ELSE IF xfo \notin DOMAIN w.headers THEN << Issue("framing_unprotected", "", "medium") >>
        ELSE IssueIf(w.headers[xfo] = "typo", "framing_allow_from", "medium")
analyze_info_disclosure(w) ==
    IssueIf(w.powered # "none", "disclosure_x_powered_by", "low")
    \o IssueIf(w.server = "version", "disclosure_server_version", "low")
    \o IssueIf(w.aspnet, "disclosure_aspnet", "low")

check_header_values(w) ==
    {[header |-> h, problem |-> IF w.headers[h] = "typo" THEN "invalid" ELSE "permissive"] :
        h \in {x \in ValueHeaders \cap DOMAIN w.headers : w.headers[x] # "good"}}
analyze_permissions_policy(w) == PermissionsHeader \in DOMAIN w.headers /\ w.headers[PermissionsHeader] = "weak"

\* The edge's page is the only one without the site's headers.
SentBy(w, S) ==
    IF EdgePage(S)
    THEN [w EXCEPT !.headers = << >>, !.csp = Absent, !.staged = Absent, !.cookies = <<>>, !.cors = "none", !.server = "plain",
                   !.powered = "none", !.aspnet = FALSE]
    ELSE w
analyze_response_security(w, S) ==
    LET OfPage(page, csp) ==
            [csp |-> csp, delta |-> compare_csp(page.csp, page.staged),
             issues |-> csp.issues \o analyze_cookies(page.cookies) \o analyze_cors(page) \o analyze_framing(page, csp)
                        \o analyze_info_disclosure(page)]
    IN  OfPage(SentBy(w, S), analyze_csp(SentBy(w, S).csp))

\* COEP is not counted against a site that it would break.
_resolve_coep_applicability(missing, csp) ==
    LET blockers == coep_breaking_sources(csp)
    IN  [blocking |-> blockers # {}, excluded |-> blockers # {} /\ Coep_ \in missing,
         missing |-> IF blockers = {} THEN missing ELSE missing \ {Coep_}]

\* The share of the headers that is there, less what the page does wrong.
HeaderScore(found, total, issues) ==
    LET weight(i) == CASE issues[i].severity = "high" -> 5 [] issues[i].severity = "medium" -> 2 [] OTHER -> 0
        penalty == FoldFunction(+, 0, [i \in DOMAIN issues |-> weight(i)])
        base == (200 * Cardinality(found) + total) \div (2 * total)
    IN  IF base < Min({penalty, 30}) THEN 0 ELSE base - Min({penalty, 30})

\* A page that did not come has the score that was begun with.
NoPage == [success |-> FALSE]
NoHeaders == [success |-> FALSE, missing |-> {}, score |-> Some(0)]
Served(w) == w.versions # {}
PageHeaders(status, page, blocked, found, analysis, coep) ==
    LET missing == SECURITY_HEADERS \ found
        total == Cardinality(SECURITY_HEADERS)
        inconclusive == blocked /\ Hsts_ \notin found
    IN  [success |-> TRUE, blocked |-> blocked, status |-> status, signs |-> page.signs \cap {"cf-ray", "bunnycdn"},
         missing |-> IF blocked THEN missing \ (IF inconclusive THEN {Hsts_} ELSE {}) ELSE coep.missing,
         score |-> IF inconclusive THEN Absent
                   ELSE IF blocked THEN Some(HeaderScore(found, total, <<>>))
                   ELSE Some(HeaderScore(found, IF coep.excluded THEN total - 1 ELSE total, analysis.issues)),
         coep |-> ~blocked /\ coep.blocking,
         values |-> IF blocked THEN {} ELSE check_header_values(page),
         permissions |-> ~blocked /\ analyze_permissions_policy(page),
         analysis |-> IF blocked THEN Absent ELSE Some(analysis)]
check_http_headers(w, S) ==
    LET Analysed(found, analysis) ==
            PageHeaders(Status(w, S), SentBy(w, S), _response_access_blocked(w, S), found, analysis,
                        _resolve_coep_applicability(SECURITY_HEADERS \ found, analysis.csp))
    IN  IF ~Served(w) \/ <<"http_headers", "page">> \in S THEN NoHeaders
        ELSE Analysed(HeadersFound(w, S), analyze_response_security(w, S))

check_https_redirect(w, S) ==
    LET redirects == w.redirect # "none" /\ ~EdgePage(S)
        \* A page that redirects has no other status.
        blocked == ~redirects /\ _response_access_blocked(w, S)
    IN  IF <<"https_redirect", "http">> \in S THEN [pass |-> "no", permanent |-> FALSE]
        ELSE [pass |-> IF blocked THEN "unknown" ELSE IF redirects THEN "yes" ELSE "no",
              permanent |-> redirects /\ w.redirect = "permanent"]

--------------------------------------------------------------------------------
\* What is advised.

_https_redirect(r) ==
    If("https_redirect" \in DOMAIN r,
       CASE r.https_redirect.pass = "unknown" -> << Item("web:redirect unverified", "info") >>
         [] r.https_redirect.pass = "no" -> << Item("web:no redirect", "medium") >>
         [] r.https_redirect.pass = "yes" ->
                If(~r.https_redirect.permanent, << Item("web:redirect temporary", "low") >>))

\* The issues of a page, the first of each kind; those of the policy have
\* advice of their own.
CspIds == {"csp_missing", "csp_no_default_or_script", "csp_unsafe_inline", "csp_unsafe_eval", "csp_wildcard",
           "csp_object_src", "csp_object_src_not_none", "csp_no_frame_ancestors", "csp_frame_ancestors_star",
           "csp_no_base_uri", "csp_no_form_action", "csp_no_reporting"}
_web_vuln_findings(issues) ==
    LET first(i) == \A j \in 1..(i - 1) : issues[j].id # issues[i].id
        told == SelectSeq([i \in DOMAIN issues |-> i], LAMBDA i : issues[i].id \notin CspIds /\ first(i))
        item(issue) == IF issue.id = "cors_star_with_credentials" THEN Item("web:cors:wildcard-credentials", "info")
                       ELSE ItemOf(issue.id, issue.of, 0, issue.severity)
    IN  [k \in DOMAIN told |-> item(issues[told[k]])]

CspAdvice(csp) ==
    LET severities == {csp.issues[i].severity : i \in DOMAIN csp.issues}
    IN  If(csp.present,
           CASE "high" \in severities -> << Item("web:csp", "high") >>
             [] "high" \notin severities /\ "medium" \in severities -> << Item("web:csp", "medium") >>
             [] severities \cap {"high", "medium"} = {} /\ "low" \in severities -> << Item("web:csp", "low") >>
             [] OTHER -> If(severities # {}, << Item("web:csp reporting", "info") >>))
_csp_report_only(delta) ==
    If(delta.has_report_only, << Item(IF delta.identical THEN "web:csp staged the same" ELSE "web:csp staged", "info") >>)

\* One header that is missing is named, more are counted.
Contextual == {Coep_, "Cross-Origin-Opener-Policy", "Cross-Origin-Resource-Policy", PermissionsHeader, "X-XSS-Protection",
               "Referrer-Policy"}
MissingAdvice(missing) ==
    LET others == missing \ {Csp_, Hsts_}
        severity == IF others \subseteq Contextual THEN "info" ELSE "low"
    IN  If(Csp_ \in missing, << Item("web:csp", "medium") >>)
        \o If(others # {},
              << IF Cardinality(others) = 1 THEN ItemOf("web:header missing", CHOOSE h \in others : TRUE, 0, severity)
                 ELSE ItemOf("web:headers missing", "", Cardinality(others), severity) >>)
ValueAdvice(issues) ==
    LET item(i) == IF i.problem = "permissive" THEN ItemOf("web:header permissive", i.header, 0, "low")
                   ELSE ItemOf("web:header ignored", i.header, 0,
                               IF i.header \in {"X-Content-Type-Options", "X-Frame-Options"} THEN "low" ELSE "info")
    IN  SetToSeq({item(i) : i \in issues})

\* A page of the edge says nothing of the site's headers.
_headers(r) ==
    IF "http_headers" \notin DOMAIN r \/ ~r.http_headers.success THEN <<>>
    ELSE IF r.http_headers.blocked THEN << Item("web:headers unverified", "info") >>
    ELSE LET h == r.http_headers
             a == h.analysis[1]
         IN  If(h.coep, << Item("web:coep not advised", "info") >>)
             \o ValueAdvice(h.values)
             \o If(h.permissions, << Item("web:permissions policy", "low") >>)
             \o MissingAdvice(h.missing) \o CspAdvice(a.csp) \o _csp_report_only(a.delta) \o _web_vuln_findings(a.issues)
=============================================================================
