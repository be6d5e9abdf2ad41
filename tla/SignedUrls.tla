----------------------------- MODULE SignedUrls -----------------------------
(***************************************************************************)
(* Signed links, app/utils/token_utils.py: the serve URL that an upload or   *)
(* the holder of a client's secret signs, and the token of a download from  *)
(* local storage.  A secret is a function of its slug that nobody can guess,*)
(* so the slug stands for it, and a signature is what was signed with what. *)
(***************************************************************************)
EXTENDS Integers

CONSTANTS
    Assets, Slugs,
    Dotted,                   \* the slugs with a dot
    Internal,                 \* _INTERNAL_SERVE_CLIENT_ID
    MaxServeUrlExpiry,        \* cap on the life of a link that an upload signs
    MaxAge                    \* life of a download token

ASSUME SignedUrlsAssumption ==
    /\ Dotted \subseteq Slugs /\ Internal \in Slugs \ Dotted
    /\ MaxServeUrlExpiry \in Nat /\ MaxAge \in Nat

\* A payload as it arrives: what it lost on its way is a part, or the content of one,
\* the id in front or the number that expires_at should be.
Payload == [asset: Assets, slug: Slugs, expires_at: Int, signature: Assets \X Slugs \X Int,
            lost: {"nothing", "part", "field"}]

derive_secret(slug) == slug

sign_serve_url(asset, slug, expires_in, now) ==
    [asset |-> asset, slug |-> slug, expires_at |-> now + expires_in,
     signature |-> <<asset, derive_secret(slug), now + expires_in>>, lost |-> "nothing"]

\* Mutant of Capped: the cap is the least an upload gives.
CappedBelow(expires_in) ==
    IF expires_in > MaxServeUrlExpiry THEN expires_in ELSE MaxServeUrlExpiry

\* The life an upload gives to a link; the caller may ask for a negative one.
Capped(expires_in) ==
    IF expires_in < MaxServeUrlExpiry THEN expires_in ELSE MaxServeUrlExpiry

\* The dots of the slug count as well.
HasFourParts(l) == l.lost # "part" /\ l.slug \notin Dotted

Expired(l, now) == now > l.expires_at

\* Mutant of Matches: the signature does not cover the expiry.
MatchesAnyExpiry(l) == l.signature[1] = l.asset /\ l.signature[2] = derive_secret(l.slug)

Matches(l) == l.signature = <<l.asset, derive_secret(l.slug), l.expires_at>>

\* The status of a link; without a key deriving the secret raises.
verify_signed_url(l, now, key) ==
    IF ~HasFourParts(l) \/ l.lost = "field" THEN 400
    ELSE IF Expired(l, now)                 THEN 403
    ELSE IF ~key                            THEN 400
    ELSE IF ~Matches(l)                     THEN 403
    ELSE 200

\* A token carries the time it was made at; its age decides.
verify_token(made_at, now) == IF now - made_at \in 0..MaxAge THEN 200 ELSE 403

\* What mail programs and people make of a link: something is lost, or the number
\* is another one.
Damaged(l) ==
    {[l EXCEPT !.lost = x] : x \in {"part", "field"}} \cup {[l EXCEPT !.expires_at = @ + 1]}
=============================================================================
