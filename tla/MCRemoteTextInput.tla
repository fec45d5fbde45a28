------------------------- MODULE MCRemoteTextInput --------------------------
(***************************************************************************)
(* RemoteTextInput with two pages.  They differ in nothing, so the page    *)
(* that opens the first socket may be taken to be the phone.               *)
(***************************************************************************)
EXTENDS RemoteTextInput

MCBrowsers == {"phone", "tablet"}
PhoneFirst == page["tablet"].sock # 1
=============================================================================
