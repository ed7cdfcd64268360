------------------------- MODULE MCTargetCatalogue -------------------------
(* Instances of TargetCatalogue for TLC.                                   *)
EXTENDS TargetCatalogue

CONSTANT a

Kinds == [shop |-> "public", localhost |-> "special", octal |-> "numeric"]

Host(name, dot, upper) ==
    [name |-> name, dot |-> dot, upper |-> upper, script |-> "plain"]

Url(scheme, host, port, path) ==
    [hostname |-> host, scheme |-> scheme, host |-> host, port |-> port,
     path |-> path, userinfo |-> FALSE, fits |-> TRUE]

\* Two spellings of one target and a masked special name; then what the rules
\* reject: special names with and without a dot or in foreign digits, and every
\* malformation.
SpelledInputs ==
    LET shop == Host("shop", FALSE, FALSE)
        octal == Host("octal", TRUE, FALSE)
        good == Url("https", shop, "none", "")
    IN  {good,
         [Url("https", Host("shop", TRUE, TRUE), "none", "/")
              EXCEPT !.hostname = shop],
         Url("https", [Host("localhost", FALSE, TRUE) EXCEPT !.script = "masked"], "443", "/"),
         Url("https", [octal EXCEPT !.script = "digits"], "none", ""),
         Url("http", Host("localhost", FALSE, TRUE), "none", "/"),
         Url("http", Host("localhost", TRUE, FALSE), "none", "/"),
         Url("https", octal, "none", "/"),
         Url("https", shop, "invalid", "/"),
         Url("ftp", shop, "none", "/"),
         [good EXCEPT !.userinfo = TRUE],
         [good EXCEPT !.fits = FALSE],
         [good EXCEPT !.hostname = Host("localhost", FALSE, FALSE)]}

=============================================================================
