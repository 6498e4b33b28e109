------------------------ MODULE MCClientRegistration ------------------------
(* ClientRegistration with a few URIs and key files. *)
EXTENDS ClientRegistration

File(t, lead, core, tail, decodes) ==
    [text |-> t, lead |-> lead, core |-> core, tail |-> tail, decodes |-> decodes]

\* 32 bytes, alone and with a newline, which are also the base64 of 24; 32 other
\* bytes in base64; 31 bytes, alone and with a newline that makes them 32.
MCKeyFiles ==
    {File("a", 0, 32, tail, 24) : tail \in {0, 1}}
    \cup {File("b", 0, 44, 1, 32)}
    \cup {File("c", 0, 31, tail, 0) : tail \in {0, 1}}

MCRedirectURIs == {"claude", "chatgpt", "plain"}
MCHttps == {"claude", "chatgpt"}
MCDefaults == {"claude"}

\* Not given, only commas, one entry more than the default, one that is not https.
MCSettings == {Unset, {}, {"claude", "chatgpt"}, {"plain", "chatgpt"}}

=============================================================================
