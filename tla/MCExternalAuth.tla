--------------------------- MODULE MCExternalAuth ---------------------------
(* ExternalAuth on small instances. *)
EXTENDS ExternalAuth, TLC

CONSTANTS k1, k2, site, sub, email

Good(k) == [key |-> k, live |-> TRUE, iss |-> "ours", aud |-> "ours", azp |-> site,
            sub |-> sub, username |-> email]

\* Tokens in order under either key, and those with one claim that is not.
TokensInUse ==
    {Good(k1), Good(k2), [Good(k1) EXCEPT !.live = FALSE],
     [Good(k1) EXCEPT !.aud = "other"], [Good(k1) EXCEPT !.azp = Null],
     [Good(k1) EXCEPT !.username = Null]}

Clerk == [jwksUrl |-> Text("url"), issuer |-> Text("word"), audience |-> Text("unset"),
          authorizedParties |-> <<site, "">>, provider |-> "CLERK"]

\* As for Clerk, as for Auth0, with a list of nothing, switched off, and mistaken.
Settings ==
    {Clerk, [Clerk EXCEPT !.audience = Text("word"), !.authorizedParties = <<>>],
     [Clerk EXCEPT !.authorizedParties = <<"", "">>],
     [Clerk EXCEPT !.issuer = Text("blank")], [Clerk EXCEPT !.jwksUrl = Text("word")],
     [Clerk EXCEPT !.provider = "OKTA"]}
=============================================================================
