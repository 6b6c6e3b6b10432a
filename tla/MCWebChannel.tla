---------------------------- MODULE MCWebChannel ----------------------------
(***************************************************************************)
(* One browser behind one address, and requests that claim another, over a *)
(* deploy with a new notice and one with a new secret as well.             *)
(***************************************************************************)
EXTENDS WebChannel, TLC

CONSTANTS nginx, home, cafe, a, b, c

RequestSymmetry == Permutations({a, b, c})

\* nginx names the client in X-Real-IP and appends it to X-Forwarded-For, after
\* whatever the client claimed.
Proxied(f, source, claims) ==
    f @@ [source |-> source, peer |-> nginx, realIp |-> source, forwarded |-> Append(claims, source)]

\* Behind a proxy that only appends, and with no proxy.
Appended(f, source, claims) ==
    f @@ [source |-> source, peer |-> nginx, realIp |-> NoAddress,
          forwarded |-> Append(claims, source)]
Direct(f, source, claims) ==
    f @@ [source |-> source, peer |-> source, realIp |-> claims[1], forwarded |-> claims]

Filled(body, fetchSite, isTicked, text, image, solved) ==
    [body |-> body, fetchSite |-> fetchSite, ticked |-> isTicked, text |-> text,
     image |-> image, solved |-> solved]

Ticked == Filled("fits", "same", TRUE, "fits", "none", FALSE)

SomeForms ==
    { Proxied(Ticked, home, <<cafe>>),
      Direct(Filled("fits", "same", FALSE, "fits", "none", FALSE), home, <<cafe>>),
      Appended(Filled("fits", "same", TRUE, "fits", "fits", TRUE), home, <<NoAddress, cafe>>),
      Proxied(Filled("fits", "same", TRUE, "fits", "large", FALSE), home, <<>>),
      Proxied(Filled("fits", "same", TRUE, "long", "none", FALSE), home, <<>>),
      Proxied(Filled("fits", "same", TRUE, "fits", "fits", FALSE), home, <<>>),
      Proxied(Filled("fits", "same", TRUE, "none", "none", FALSE), home, <<>>),
      Proxied(Filled("declared", "same", TRUE, "fits", "none", FALSE), home, <<>>),
      Proxied(Filled("fits", "cross", TRUE, "fits", "none", FALSE), home, <<>>) }

OldServer == [notice |-> 1, secret |-> "old", turnstile |-> TRUE]
SomeServers ==
    { OldServer,
      [notice |-> 2, secret |-> "old", turnstile |-> FALSE],
      [notice |-> 2, secret |-> "new", turnstile |-> TRUE] }
=============================================================================
