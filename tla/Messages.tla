------------------------------ MODULE Messages ------------------------------
(***************************************************************************)
(* The texts of the plug-in and how a browser comes by them.               *)
(*                                                                         *)
(* nls/messages.js holds the root bundle and flags the locales that have a *)
(* bundle of their own.  For the locale zh-tw the loader takes the root,   *)
(* zh and zh-tw, as far as they are flagged, each on top of the one before.*)
(* A text is its key with the number of its placeholders, which are ${0}   *)
(* or ${0} and ${1}; the wording is left out.  Each bundle is written down *)
(* from its own file, text by text.                                        *)
(***************************************************************************)
EXTENDS Integers, Sequences, Functions

ConfigurationKeys == <<
    "configuration_pane_aspera_url", "configuration_pane_aspera_url_hover",
    "configuration_pane_aspera_url_prompt",
    "configuration_pane_max_docs_to_send",
    "configuration_pane_max_docs_to_send_hover",
    "configuration_pane_max_procs_to_send",
    "configuration_pane_max_procs_to_send_hover",
    "configuration_pane_target_transfer_rate",
    "configuration_pane_target_transfer_rate_hover",
    "configuration_pane_speed_info">>

ErrorKeys == <<
    "send_dialog_too_many_items_error",
    "send_dialog_too_many_items_error_explanation",
    "send_dialog_too_many_items_error_userResponse",
    "send_dialog_too_many_items_error_0", "send_dialog_too_many_items_error_1",
    "send_dialog_too_many_items_error_number">>

RuntimeKeys == <<
    "send_dialog_sender_title", "send_dialog_not_set", "send_dialog_send_one",
    "send_dialog_send_more", "send_dialog_sender", "send_dialog_password",
    "send_dialog_missing_sender_message",
    "send_dialog_missing_password_message", "send_dialog_title",
    "send_dialog_missing_title_message", "send_dialog_info",
    "send_dialog_recipients_label",
    "send_dialog_recipients_textfield_hover_help",
    "send_dialog_missing_recipients_message", "send_dialog_title_label",
    "send_dialog_note_label", "send_dialog_earPassphrase_label",
    "send_dialog_earPassphrase_textfield_hover_help",
    "send_dialog_notify_title", "send_dialog_notifyOnUpload_label",
    "send_dialog_notifyOnDownload_label", "send_dialog_notifyOnUploadDownload",
    "send_dialog_send_button_label", "send_dialog_started", "status_started",
    "status_stopped", "status_failed", "status_completed">>

Keys == ConfigurationKeys \o ErrorKeys \o RuntimeKeys

\* A key that a file does not have.
Gap == -1

\* A bundle from the numbers of placeholders of the three groups of texts.
Texts(configuration, error, runtime) ==
    LET counts == configuration \o error \o runtime
        defined == {i \in DOMAIN Keys : counts[i] # Gap}
    IN  [key \in {Keys[i] : i \in defined} |->
            counts[CHOOSE i \in defined : Keys[i] = key]]

RootBundle == Texts(<<0,0,0,0,0,0,0,0,0,0>>, <<0,2,0,0,0,0>>,
    <<1,0,1,1,0,0,0,0,0,0,0,0,0,0,0,0,0,0,1,0,0,0,0,1,2,1,1,1>>)

(* The translations. *)
ArBundle == Texts(<<0,0,0,0,0,0,0,0,0,0>>, <<0,2,0,0,0,0>>,
    <<1,0,1,1,0,0,0,0,0,0,0,0,0,0,0,0,0,0,1,0,0,0,0,1,2,1,1,1>>)
BgBundle == Texts(<<0,0,0,0,0,0,0,0,0,0>>, <<0,2,0,0,0,0>>,
    <<1,0,1,1,0,0,0,0,0,0,0,0,0,0,0,0,0,0,1,0,0,0,0,1,2,1,1,1>>)
CaBundle == Texts(<<0,0,0,0,0,0,0,0,0,0>>, <<0,2,0,0,0,0>>,
    <<1,0,1,1,0,0,0,0,0,0,0,0,0,0,0,0,0,0,1,0,0,0,0,1,2,1,1,1>>)
CsBundle == Texts(<<0,0,0,0,0,0,0,0,0,0>>, <<0,2,0,0,0,0>>,
    <<1,0,1,1,0,0,0,0,0,0,0,0,0,0,0,0,0,0,1,0,0,0,0,1,2,1,1,1>>)
DaBundle == Texts(<<0,0,0,0,0,0,0,0,0,0>>, <<0,2,0,0,0,0>>,
    <<1,0,1,1,0,0,0,0,0,0,0,0,0,0,0,0,0,0,1,0,0,0,0,1,2,1,1,1>>)
DeBundle == Texts(<<0,0,0,0,0,0,0,0,0,0>>, <<0,2,0,0,0,0>>,
    <<1,0,1,1,0,0,0,0,0,0,0,0,0,0,0,0,0,0,1,0,0,0,0,1,2,1,1,1>>)
ElBundle == Texts(<<0,0,0,0,0,0,0,0,0,0>>, <<0,2,0,0,0,0>>,
    <<1,0,1,1,0,0,0,0,0,0,0,0,0,0,0,0,0,0,1,0,0,0,0,1,2,1,1,1>>)
EsBundle == Texts(<<0,0,0,0,0,0,0,0,0,0>>, <<0,2,0,0,0,0>>,
    <<1,0,1,1,0,0,0,0,0,0,0,0,0,0,0,0,0,0,1,0,0,0,0,1,2,1,1,1>>)
FiBundle == Texts(<<0,0,0,0,0,0,0,0,0,0>>, <<0,2,0,0,0,0>>,
    <<1,0,1,1,0,0,0,0,0,0,0,0,0,0,0,0,0,0,1,0,0,0,0,1,2,1,1,1>>)
FrBundle == Texts(<<0,0,0,0,0,0,0,0,0,0>>, <<0,2,0,0,0,0>>,
    <<1,0,1,1,0,0,0,0,0,0,0,0,0,0,0,0,0,0,1,0,0,0,0,1,2,1,1,1>>)
HeBundle == Texts(<<0,0,0,0,0,0,0,0,0,0>>, <<0,2,0,0,0,0>>,
    <<1,0,1,1,0,0,0,0,0,0,0,0,0,0,0,0,0,0,1,0,0,0,0,1,2,1,1,1>>)
HrBundle == Texts(<<0,0,0,0,0,0,0,0,0,0>>, <<0,2,0,0,0,0>>,
    <<1,0,1,1,0,0,0,0,0,0,0,0,0,0,0,0,0,0,1,0,0,0,0,1,2,1,1,1>>)
HuBundle == Texts(<<0,0,0,0,0,0,0,0,0,0>>, <<0,2,0,0,0,0>>,
    <<1,0,1,1,0,0,0,0,0,0,0,0,0,0,0,0,0,0,1,0,0,0,0,1,2,1,1,1>>)
ItBundle == Texts(<<0,0,0,0,0,0,0,0,0,0>>, <<0,2,0,0,0,0>>,
    <<1,0,1,1,0,0,0,0,0,0,0,0,0,0,0,0,0,0,1,0,0,0,0,1,2,1,1,1>>)
IwBundle == Texts(<<0,0,0,0,0,0,0,0,0,0>>, <<0,2,0,0,0,0>>,
    <<1,0,1,1,0,0,0,0,0,0,0,0,0,0,0,0,0,0,1,0,0,0,0,1,2,1,1,1>>)
JaBundle == Texts(<<0,0,0,0,0,0,0,0,0,0>>, <<0,2,0,0,0,0>>,
    <<1,0,1,1,0,0,0,0,0,0,0,0,0,0,0,0,0,0,1,0,0,0,0,1,2,1,1,1>>)
KkBundle == Texts(<<0,0,0,0,0,0,0,0,0,0>>, <<0,2,0,0,0,0>>,
    <<1,0,1,1,0,0,0,0,0,0,0,0,0,0,0,0,0,0,1,0,0,0,0,1,2,1,1,1>>)
KoBundle == Texts(<<0,0,0,0,0,0,0,0,0,0>>, <<0,2,0,0,0,0>>,
    <<1,0,1,1,0,0,0,0,0,0,0,0,0,0,0,0,0,0,1,0,0,0,0,1,2,1,1,1>>)
NbBundle == Texts(<<0,0,0,0,0,0,0,0,0,0>>, <<0,2,0,0,0,0>>,
    <<1,0,1,1,0,0,0,0,0,0,0,0,0,0,0,0,0,0,1,0,0,0,0,1,2,1,1,1>>)
NbNoBundle == Texts(<<0,0,0,0,0,0,0,0,0,0>>, <<0,2,0,0,0,0>>,
    <<1,0,1,1,0,0,0,0,0,0,0,0,0,0,0,0,0,0,1,0,0,0,0,1,2,1,1,1>>)
NlBundle == Texts(<<0,0,0,0,0,0,0,0,0,0>>, <<0,2,0,0,0,0>>,
    <<1,0,1,1,0,0,0,0,0,0,0,0,0,0,0,0,0,0,1,0,0,0,0,1,2,1,1,1>>)
NoBundle == Texts(<<0,0,0,0,0,0,0,0,0,0>>, <<0,2,0,0,0,0>>,
    <<1,0,1,1,0,0,0,0,0,0,0,0,0,0,0,0,0,0,1,0,0,0,0,1,2,1,1,1>>)
PlBundle == Texts(<<0,0,0,0,0,0,0,0,0,0>>, <<0,2,0,0,0,0>>,
    <<1,0,1,1,0,0,0,0,0,0,0,0,0,0,0,0,0,0,1,0,0,0,0,1,2,1,1,1>>)
PtBundle == Texts(<<0,0,0,0,0,0,0,0,0,0>>, <<0,2,0,0,0,0>>,
    <<1,0,1,1,0,0,0,0,0,0,0,0,0,0,0,0,0,0,1,0,0,0,0,1,2,1,1,1>>)
PtBrBundle == Texts(<<0,0,0,0,0,0,0,0,0,0>>, <<0,2,0,0,0,0>>,
    <<1,0,1,1,0,0,0,0,0,0,0,0,0,0,0,0,0,0,1,0,0,0,0,1,2,1,1,1>>)
RoBundle == Texts(<<0,0,0,0,0,0,0,0,0,0>>, <<0,2,0,0,0,0>>,
    <<1,0,1,1,0,0,0,0,0,0,0,0,0,0,0,0,0,0,1,0,0,0,0,1,2,1,1,1>>)
RuBundle == Texts(<<0,0,0,0,0,0,0,0,0,0>>, <<0,2,0,0,0,0>>,
    <<1,0,1,1,0,0,0,0,0,0,0,0,0,0,0,0,0,0,1,0,0,0,0,1,2,1,1,1>>)
SkBundle == Texts(<<0,0,0,0,0,0,0,0,0,0>>, <<0,2,0,0,0,0>>,
    <<1,0,1,1,0,0,0,0,0,0,0,0,0,0,0,0,0,0,1,0,0,0,0,1,2,1,1,1>>)
SlBundle == Texts(<<0,0,0,0,0,0,0,0,0,0>>, <<0,2,0,0,0,0>>,
    <<1,0,1,1,0,0,0,0,0,0,0,0,0,0,0,0,0,0,1,0,0,0,0,1,2,1,1,1>>)
SvBundle == Texts(<<0,0,0,0,0,0,0,0,0,0>>, <<0,2,0,0,0,0>>,
    <<1,0,1,1,0,0,0,0,0,0,0,0,0,0,0,0,0,0,1,0,0,0,0,1,2,1,1,1>>)
ThBundle == Texts(<<0,0,0,0,0,0,0,0,0,0>>, <<0,2,0,0,0,0>>,
    <<1,0,1,1,0,0,0,0,0,0,0,0,0,0,0,0,0,0,1,0,0,0,0,1,2,1,1,1>>)
TrBundle == Texts(<<0,0,0,0,0,0,0,0,0,0>>, <<0,2,0,0,0,0>>,
    <<1,0,1,1,0,0,0,0,0,0,0,0,0,0,0,0,0,0,1,0,0,0,0,1,2,1,1,1>>)
ViBundle == Texts(<<0,0,0,0,0,0,0,0,0,0>>, <<0,2,0,0,0,0>>,
    <<1,0,1,1,0,0,0,0,0,0,0,0,0,0,0,0,0,0,1,0,0,0,0,1,2,1,1,1>>)
ZhBundle == Texts(<<0,0,0,0,0,0,0,0,0,0>>, <<0,2,0,0,0,0>>,
    <<1,0,1,1,0,0,0,0,0,0,0,0,0,0,0,0,0,0,1,0,0,0,0,1,2,1,1,1>>)
ZhCnBundle == Texts(<<0,0,0,0,0,0,0,0,0,0>>, <<0,2,0,0,0,0>>,
    <<1,0,1,1,0,0,0,0,0,0,0,0,0,0,0,0,0,0,1,0,0,0,0,1,2,1,1,1>>)

\* Variant: a translation that was made before the packages were watched.
ZhTwBundleBeforeWatch == Texts(<<0,0,0,0,0,0,0,Gap,Gap,0>>, <<0,2,0,0,0,0>>,
    <<1,0,1,1,0,0,0,0,0,0,0,0,0,0,0,0,0,0,1,0,0,0,0,Gap,Gap,Gap,Gap,Gap>>)

\* This translation has no text for the transfer rate.
ZhTwBundle == Texts(<<0,0,0,0,0,0,0,Gap,Gap,0>>, <<0,2,0,0,0,0>>,
    <<1,0,1,1,0,0,0,0,0,0,0,0,0,0,0,0,0,0,1,0,0,0,0,1,2,1,1,1>>)

Bundle(name) ==
    CASE name = "root" -> RootBundle [] name = "ar" -> ArBundle
      [] name = "bg" -> BgBundle [] name = "ca" -> CaBundle
      [] name = "cs" -> CsBundle [] name = "da" -> DaBundle
      [] name = "de" -> DeBundle [] name = "el" -> ElBundle
      [] name = "es" -> EsBundle [] name = "fi" -> FiBundle
      [] name = "fr" -> FrBundle [] name = "he" -> HeBundle
      [] name = "hr" -> HrBundle [] name = "hu" -> HuBundle
      [] name = "it" -> ItBundle [] name = "iw" -> IwBundle
      [] name = "ja" -> JaBundle [] name = "kk" -> KkBundle
      [] name = "ko" -> KoBundle [] name = "nb" -> NbBundle
      [] name = "nb-no" -> NbNoBundle [] name = "nl" -> NlBundle
      [] name = "no" -> NoBundle [] name = "pl" -> PlBundle
      [] name = "pt" -> PtBundle [] name = "pt-br" -> PtBrBundle
      [] name = "ro" -> RoBundle [] name = "ru" -> RuBundle
      [] name = "sk" -> SkBundle [] name = "sl" -> SlBundle
      [] name = "sv" -> SvBundle [] name = "th" -> ThBundle
      [] name = "tr" -> TrBundle [] name = "vi" -> ViBundle
      [] name = "zh" -> ZhBundle [] name = "zh-cn" -> ZhCnBundle
      [] name = "zh-tw" -> ZhTwBundle

\* The locales with a bundle that the root announces: not nb and zh-cn.
Flagged == {
    "ar", "bg", "ca", "cs", "da", "de", "el", "es", "fi", "fr", "he", "hr",
    "hu", "it", "iw", "ja", "kk", "ko", "nb-no", "nl", "no", "pl", "pt",
    "pt-br", "ro", "ru", "sk", "sl", "sv", "th", "tr", "vi", "zh", "zh-tw"}

\* The bundles that the build puts into the plug-in.
LocaleList == {
    "ar", "bg", "ca", "cs", "da", "de", "el", "es", "fi", "fr", "he", "hr",
    "hu", "it", "iw", "ja", "kk", "ko", "nb", "nb-no", "nl", "no", "pl", "pt",
    "pt-br", "ro", "ru", "sk", "sl", "sv", "th", "tr", "vi", "zh", "zh-cn",
    "zh-tw"}

----------------------------------------------------------------------------
(* The loader. *)

\* The prefix of a locale that has one.
Language(locale) ==
    CASE locale = "de-at" -> "de"
      [] locale = "nb-no" -> "nb"
      [] locale = "pt-br" -> "pt"
      [] locale \in {"zh-cn", "zh-tw"} -> "zh"
      [] OTHER -> locale

IfFlagged(name) == IF name \in Flagged THEN <<name>> ELSE <<>>

AvailableBundles(locale) ==
    LET language == Language(locale)
    IN  <<"root">> \o (IF language = locale THEN <<>> ELSE IfFlagged(language))
                  \o IfFlagged(locale)

\* The bundle from which a browser takes a text.
Source(locale, key) ==
    LET available == AvailableBundles(locale)
        defining == {i \in DOMAIN available : key \in DOMAIN Bundle(available[i])}
    IN  available[CHOOSE i \in defining : \A j \in defining : j <= i]

\* The loader asks for all available bundles, and fails without one of them.
IsLoaded(locale) ==
    \A i \in 2 .. Len(AvailableBundles(locale)) : AvailableBundles(locale)[i] \in LocaleList

\* What a browser has from the given bundles: keys and numbers of placeholders.
TextsFrom(locale, names) ==
    IF ~IsLoaded(locale) THEN {}
    ELSE {<<key, Bundle(Source(locale, key))[key]>> :
            key \in {k \in Range(Keys) : Source(locale, k) \in names}}
=============================================================================
