--------------------------- MODULE RuntimeSettings ---------------------------
(***************************************************************************)
(* The URLs a deployment starts with (runtime.py) and the redirect targets *)
(* they allow an OAuth flow (oauth_flow.py).                               *)
(*                                                                         *)
(* A URL is a record of what the checks tell apart; a query or a fragment  *)
(* is absent, a bare delimiter with nothing behind it, one with nothing    *)
(* but slashes behind it, or there.                                        *)
(***************************************************************************)
EXTENDS Naturals, Sequences

CONSTANT Segment \* the segments of a path

Suffix == {"absent", "bare", "slashes", "given"}
Url == [scheme : {"https", "http", "other"}, host : {"local", "remote", "none"},
        path : Seq(Segment \cup {"callback"}), slashes : Nat,
        query : Suffix, fragment : Suffix]

\* rstrip("/") takes the slashes at the end of the string: of the path when
\* nothing follows it, or behind the last delimiter.
Strip(url) ==
    LET Ended(suffix) == IF suffix = "slashes" THEN "bare" ELSE suffix IN
    IF url.fragment # "absent" THEN [url EXCEPT !.fragment = Ended(@)]
    ELSE IF url.query # "absent" THEN [url EXCEPT !.query = Ended(@)]
    ELSE [url EXCEPT !.slashes = 0]

\* Fault: the query is not looked at.
IsValidUrlWithQuery(url) ==
    /\ url.scheme \in {"https", "http"} /\ url.host # "none"
    /\ url.scheme = "http" => url.host = "local"
    /\ Strip(url).fragment \in {"absent", "bare"}

\* _validate_url: the slashes are stripped before the query is looked at, so
\* those behind a "?" or "#" make no query.  What it returns is Strip(url).
IsValidUrl(url) ==
    /\ url.scheme \in {"https", "http"} /\ url.host # "none"
    /\ url.scheme = "http" => url.host = "local"
    /\ {Strip(url).query, Strip(url).fragment} \subseteq {"absent", "bare"}

\* Fault: the callback is expected behind the API base URL as it was given.
ExpectedCallbackUnstripped(api) ==
    [api EXCEPT !.path = @ \o (IF api.slashes = 0 THEN <<>> ELSE <<"">>) \o <<"callback">>,
                !.slashes = 0]

\* expected_google_oauth_callback_url: the route is appended to the string, so
\* behind a delimiter it becomes a query or a fragment.
ExpectedCallback(api) ==
    LET base == Strip(api) IN
    IF base.fragment # "absent" THEN [base EXCEPT !.fragment = "given"]
    ELSE IF base.query # "absent" THEN [base EXCEPT !.query = "given"]
    ELSE [base EXCEPT !.path = Append(@, "callback")]

\* AuthRuntimeConfig on the API base URL and the callback URL.
AcceptsCallback(api, callback) ==
    /\ IsValidUrl(api) /\ IsValidUrl(callback)
    /\ Strip(callback) = ExpectedCallback(api)

\* _validated_redirect_target, where the allowed targets are the origins the
\* configuration has accepted.
AllowsTarget(origins, target) ==
    /\ \A o \in origins : IsValidUrl(o)
    /\ Strip(target) \in {Strip(o) : o \in origins}

\* The Location of a callback: the target as the client gave it, with the
\* result appended.  TRUE when the result is its query, and all of its query.
LocationCarriesResult(target) == target.query = "absent" /\ target.fragment = "absent"

=============================================================================
