---------------------------- MODULE WholeRequest ----------------------------
(***************************************************************************)
(* When a sequence of tokens is a whole request, by the rule of RFC 7230   *)
(* the repository keeps in notes_RFC.txt (3.3.3 and 3.4): a chunked body   *)
(* ends with the last chunk, a body with a Content-Length when that many   *)
(* units follow the header, any other request with its header.  The        *)
(* properties compare the code with it.                                    *)
(***************************************************************************)
EXTENDS ClientRequest

HeaderEnded(s) == Has(s, {"HEND"})

BodyOf(s) == SubSeq(s, FirstPlace(s, {"HEND"}) + 1, Len(s))

Whole(s) ==
  /\ HeaderEnded(s)
  /\ Has(s, {"TE"}) => Has(BodyOf(s), {"LAST"})
  /\ Has(s, {"CL"}) /\ ~Has(s, {"TE"}) => Len(BodyOf(s)) >= ContentLength(s)
=============================================================================
