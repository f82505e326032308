-------------------------------- MODULE Signing --------------------------------
(***************************************************************************)
(* Signing with PAdES Baseline T: internal/crypto loads a PKCS#12 bundle   *)
(* and makes the detached CMS, internal/rfc3161 asks a timestamp authority *)
(* over a network that may lose, delay, repeat or hand over the answer to  *)
(* another request, and the token is checked twice, with the nonce when it *)
(* arrives and without it before it is embedded.  A signature is the pair  *)
(* of the key and what it signs; its imprint is the pair itself.           *)
(***************************************************************************)
EXTENDS Integers, Sequences, SequencesExt, FiniteSets

CONSTANTS Requests, Contents, Bundles, Endpoints, Policy,
          MaxBundle,  \* maxP12ImportSize
          MaxReply,   \* the response limit
          MaxTokens   \* bound on what the authority issues

VARIABLES req,    \* request -> its state
          issued, \* the tokens an authority has issued
          nonces  \* the number of nonces drawn

vars == <<req, issued, nonces>>

NoCms == [content |-> "", cert |-> 0, sig |-> <<>>, unsigned |-> <<>>]

Idle == [pc |-> "idle", signer |-> [key |-> 0, leaf |-> 0, extra |-> <<>>],
         cms |-> NoCms, endpoint |-> "none", policy |-> "", roots |-> FALSE,
         nonce |-> 0, token |-> <<>>, trust |-> "not_evaluated"]

-----------------------------------------------------------------------------
(* The certificate bundle                                                  *)

\* The certificate whose public key is the private key's; the rest is the
\* chain.  No match is an error.
splitLeafCertificate(key, certs) ==
    IF \A i \in DOMAIN certs : certs[i].key # key THEN [ok |-> FALSE]
    ELSE LET i == CHOOSE i \in DOMAIN certs :
                     certs[i].key = key /\ \A j \in 1..(i - 1) : certs[j].key # key
         IN  [ok |-> TRUE, leaf |-> key, extra |-> RemoveAt(certs, i)]

\* Exactly one private key, which is RSA, and certificates that all parse.
parseP12Blocks(blocks) ==
    LET keys  == SelectSeq(blocks, LAMBDA b : b.k = "key")
        certs == SelectSeq(blocks, LAMBDA b : b.k = "cert")
    IN  [ok |-> /\ Len(keys) = 1 /\ keys[1].rsa
                /\ certs # <<>> /\ \A i \in DOMAIN certs : certs[i].parses,
         keys |-> keys, certs |-> certs]

\* The size is checked by Stat and again on what is read.
LoadCertificate(bundle) ==
    LET p == parseP12Blocks(bundle.blocks)
        s == splitLeafCertificate(p.keys[1].key, p.certs)
    IN  IF bundle.stat > MaxBundle \/ bundle.read > MaxBundle THEN [ok |-> FALSE]
        ELSE IF ~p.ok THEN [ok |-> FALSE]
        ELSE IF ~s.ok THEN [ok |-> FALSE]
        ELSE [ok |-> TRUE,
              signer |-> [key |-> p.keys[1].key, leaf |-> s.leaf, extra |-> s.extra]]

-----------------------------------------------------------------------------
(* The detached CMS                                                        *)

\* Content type, digest and signing certificate, signed by the key.
cmsSignedAttributes(content, leaf) == <<content, leaf>>

signDetachedPAdESCMS(content, signer) ==
    [content |-> content, cert |-> signer.leaf,
     sig |-> <<signer.key, cmsSignedAttributes(content, signer.leaf)>>,
     unsigned |-> <<>>]

SignatureTimestampImprint(cms) == cms.sig

-----------------------------------------------------------------------------
(* Tokens                                                                  *)

\* The certificate may only make timestamps, and the extension is critical.
validateTSACertificate(tok) == tok.usage = "critical"

validateCMSContentType(tok) == tok.content = "TSTInfo"

\* The checks both entry points share.
tokenSound(tok, imprint) ==
    /\ validateCMSContentType(tok)
    /\ tok.imprint = imprint
    /\ validateTSACertificate(tok)
    /\ tok.timely

\* A plausible slip: the nonce is not compared.
validateTokenNoNonce(tok, q) ==
    /\ tokenSound(tok, SignatureTimestampImprint(q.cms))
    /\ q.policy # "" => tok.policy = q.policy
    /\ q.roots => tok.chain = "trusted"

\* On arrival: also nonce, requested policy and, with roots, the chain.
validateToken(tok, q) ==
    /\ tokenSound(tok, SignatureTimestampImprint(q.cms))
    /\ tok.nonce = q.nonce
    /\ q.policy # "" => tok.policy = q.policy
    /\ q.roots => tok.chain = "trusted"

\* Before embedding: no nonce, no policy, no trust.
ValidateToken(tok, imprint) == tokenSound(tok, imprint)

trustStatus(q) == IF q.roots THEN "verified" ELSE "not_evaluated"

\* HTTP status, media type, size, and the envelope's own status: 0 and 1
\* grant, 2 to 5 refuse, with or without text, anything else is unknown.
validateResponse(reply) ==
    /\ reply.http = 200
    /\ reply.media = "timestamp-reply"
    /\ reply.size <= MaxReply
    /\ reply.status \in {0, 1}
    /\ reply.token # <<>>

\* The token joins the unsigned attributes; nothing signed is touched.
AddSignatureTimestamp(cms, tok) == [cms EXCEPT !.unsigned = Append(@, tok)]

\* Absolute HTTPS without user information, fragment or (settings) query.
validateEndpoint(e) == e = "https"

-----------------------------------------------------------------------------
Init == req = [r \in Requests |-> Idle] /\ issued = {} /\ nonces = 0

Set(r, q) == req' = [req EXCEPT ![r] = q]

\* An error hands back no bytes.
Fails(r) == Set(r, [Idle EXCEPT !.pc = "failed"])

\* The export loads the bundle; PrepareTimestamp takes the configuration.
Load(r) ==
    /\ req[r].pc = "idle"
    /\ \E b \in Bundles, e \in Endpoints, p \in {"", Policy}, roots \in BOOLEAN :
         LET l == LoadCertificate(b)
         IN  IF l.ok /\ (e # "none" => validateEndpoint(e))
             THEN Set(r, [req[r] EXCEPT !.pc = "loaded", !.signer = l.signer,
                                        !.endpoint = e, !.policy = p, !.roots = roots])
             ELSE Fails(r)
    /\ UNCHANGED <<issued, nonces>>

\* The callback of ApplyPAdES: the CMS is made; without a timestamp it is the
\* result, else a nonce is drawn (all zeros is refused) and the request sent.
Make(r) ==
    /\ req[r].pc = "loaded"
    /\ \E c \in Contents, zero \in BOOLEAN :
         LET cms == signDetachedPAdESCMS(c, req[r].signer)
         IN  IF req[r].endpoint = "none"
             THEN Set(r, [req[r] EXCEPT !.pc = "done", !.cms = cms]) /\ UNCHANGED nonces
             ELSE IF zero THEN Fails(r) /\ UNCHANGED nonces
             ELSE /\ Set(r, [req[r] EXCEPT !.pc = "waiting", !.cms = cms, !.nonce = nonces + 1])
                  /\ nonces' = nonces + 1
    /\ UNCHANGED issued

\* The authority (external) answers a request it saw: a token for its imprint
\* and nonce, under a policy and a certificate of its own choice.
Issue(r) ==
    /\ req[r].pc = "waiting" /\ Cardinality(issued) < MaxTokens
    /\ \E flaw \in {"none", "policy", "chain", "content", "usage", "time", "imprint"} :
         issued' = issued \cup {[ nonce |-> req[r].nonce,
             policy  |-> IF flaw = "policy" THEN "other" ELSE Policy,
             imprint |-> IF flaw = "imprint" THEN <<>> ELSE SignatureTimestampImprint(req[r].cms),
             chain   |-> IF flaw = "chain" THEN "unknown" ELSE "trusted",
             content |-> IF flaw = "content" THEN "data" ELSE "TSTInfo",
             usage   |-> IF flaw = "usage" THEN "plain" ELSE "critical",
             timely  |-> flaw # "time" ]}
    /\ UNCHANGED <<req, nonces>>

Granted(token) == [http |-> 200, media |-> "timestamp-reply", size |-> MaxReply,
                   status |-> 0, token |-> token]

Refusals == { [Granted(<<>>) EXCEPT !.http = 302], [Granted(<<>>) EXCEPT !.media = "html"],
              [Granted(<<>>) EXCEPT !.size = MaxReply + 1],
              [Granted(<<>>) EXCEPT !.status = 2], Granted(<<>>) }

\* The reply a request gets: any token issued so far (its own, that of another
\* request, or an old one from a cache), or a refusal, a redirect, a page.
Receive(r) ==
    /\ req[r].pc = "waiting"
    /\ \E reply \in Refusals \cup {Granted(<<t>>) : t \in issued} :
         IF ~validateResponse(reply) THEN Fails(r)
         ELSE IF ~validateToken(reply.token[1], req[r]) THEN Fails(r)
         ELSE Set(r, [req[r] EXCEPT !.pc = "got", !.token = reply.token,
                                    !.trust = trustStatus(req[r])])
    /\ UNCHANGED <<issued, nonces>>

\* The client's timeout, which is never off.
Timeout(r) == req[r].pc = "waiting" /\ Fails(r) /\ UNCHANGED <<issued, nonces>>

\* The token is checked again and becomes an unsigned attribute.
Embed(r) ==
    /\ req[r].pc = "got"
    /\ LET q == req[r]
       IN  IF ValidateToken(q.token[1], SignatureTimestampImprint(q.cms))
           THEN Set(r, [q EXCEPT !.pc = "done", !.cms = AddSignatureTimestamp(q.cms, q.token[1])])
           ELSE Fails(r)
    /\ UNCHANGED <<issued, nonces>>

\* A second export, after which the bytes of the first are with the user.
Again(r) == /\ req[r].pc = "failed" /\ Set(r, Idle) /\ UNCHANGED <<issued, nonces>>
            /\ nonces < MaxTokens

Next == \E r \in Requests : Load(r) \/ Make(r) \/ Issue(r) \/ Receive(r) \/ Timeout(r)
                            \/ Embed(r) \/ Again(r)

Spec == Init /\ [][Next]_vars

\* The caller runs on, and the HTTP client gives up by itself.
Fairness == \A r \in Requests : WF_vars(Load(r)) /\ WF_vars(Make(r))
                                /\ WF_vars(Timeout(r)) /\ WF_vars(Embed(r))

LiveSpec == Spec /\ Fairness

-----------------------------------------------------------------------------
\* The states of a request are those of the export's code.
TypeOK ==
    /\ nonces \in Nat
    /\ \A r \in Requests :
         /\ req[r].pc \in {"idle", "loaded", "waiting", "got", "done", "failed"}
         /\ req[r].nonce \in 0..nonces
         /\ req[r].pc = "got" => req[r].token # <<>>

\* A timestamp in a signed file was issued for this signature and for this
\* very request: an answer that was cached, swapped or late for another
\* request with the same content is not taken (client.go:92-94).
TokenAnswersRequest ==
    \A r \in Requests : \A i \in DOMAIN req[r].cms.unsigned :
        LET tok == req[r].cms.unsigned[i]
        IN  tok \in issued /\ tok.nonce = req[r].nonce /\ tok.imprint = req[r].cms.sig

\* "verified" is reported exactly when roots were configured, and then the
\* chain of the embedded token leads to them.
TrustMeansRoots ==
    \A r \in Requests :
        /\ req[r].trust = "verified" =>
              req[r].roots /\ req[r].token # <<>> /\ req[r].token[1].chain = "trusted"
        /\ req[r].cms.unsigned # <<>> /\ req[r].roots => req[r].trust = "verified"

\* The signature verifies with the certificate the signed attributes name,
\* before and after a token is embedded (pdf_sign.go:190-197).
SignatureVerifies ==
    \A r \in Requests :
        LET cms == req[r].cms
        IN  cms.sig # <<>> => /\ cms.sig[1] = cms.cert
                              /\ cms.sig[2] = cmsSignedAttributes(cms.content, cms.cert)

\* A file is never handed over as Baseline B when a timestamp was asked for.
NoDowngrade ==
    \A r \in Requests : req[r].pc = "done" =>
        (req[r].endpoint # "none") = (req[r].cms.unsigned # <<>>)

Waiting(r) == req[r].pc = "waiting"
Ended(r) == req[r].pc \in {"done", "failed"}

\* Every export with a timestamp ends, whatever the authority does.
ExportEnds == \A r \in Requests : Waiting(r) ~> Ended(r)
=============================================================================
