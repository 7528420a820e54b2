------------------------------ MODULE MediaInputs ------------------------------
(***************************************************************************)
(* How an argument that carries media is read: parse_images, parse_audios  *)
(* and parse_files (src/engine.rs) for a chat, classify_audio_arg          *)
(* (src/audio_engine.rs) for a transcription, and what the magic bytes of  *)
(* a content tell (src/multimodal.rs, src/audio_engine.rs).                *)
(*                                                                         *)
(* A JSON value is reduced to what it says and the content it says it of:  *)
(* a string says its scheme, an object its keys, anything else nothing.    *)
(* An argument is the sequence of its values, an array's one by one.       *)
(***************************************************************************)
EXTENDS Sequences, SequencesExt

StringForms == {"mcpg-resource://", "data:,", "data:", "http://", "no scheme"}
ObjectForms == {"source.resource", "source.url", "source.data", "source.kind=base64",
                "source.kind", "url", "resource", "data", "mime_type", "format"}

ValueOf(says, content) == [says |-> says, content |-> content]

Values(contents) == [says : SUBSET (StringForms \cup ObjectForms), content : contents]

Source(variant, content, mime) == [variant |-> variant, content |-> content, mime |-> mime]

(* What each form stands for, in the order in which the code looks for it. *)
(* A data URL without a comma is a URL, and so, an empty one, is a source  *)
(* object of an unknown kind.                                              *)
ImageForms == <<
    <<"mcpg-resource://", "resource">>, <<"data:,", "base64">>, <<"data:", "url">>,
    <<"http://", "url">>, <<"no scheme", "base64">>,
    <<"source.resource", "resource">>, <<"source.url", "url">>,
    <<"source.data", "base64">>, <<"source.kind=base64", "base64">>, <<"source.kind", "url">>,
    <<"url", "url">>, <<"resource", "resource">>, <<"data", "base64">> >>

(* Elsewhere data URLs are taken for base64, source objects for nothing.   *)
AudioForms == <<
    <<"mcpg-resource://", "resource">>, <<"http://", "url">>,
    <<"data:,", "base64">>, <<"data:", "base64">>, <<"no scheme", "base64">>,
    <<"resource", "resource">>, <<"url", "url">>, <<"data", "base64">> >>

FileForms == AudioForms
RecordingForms == AudioForms

Forms == [image |-> ImageForms, audio |-> AudioForms, file |-> FileForms,
          recording |-> RecordingForms]

(* The type that a part goes on with: stated, or what the code puts there. *)
Stated(media, variant, says) ==
    CASE media = "image" /\ variant # "base64" -> ""
      [] media = "image" /\ says \cap {"mime_type", "data:,", "source.data"} = {} -> "image/png"
      [] media \in {"audio", "recording"} /\ "format" \notin says ->
            IF media = "audio" THEN "mp3" ELSE ""
      [] media = "file" /\ "mime_type" \notin says -> ""
      [] OTHER -> "stated"

(* The forms that the value has; the first counts, none: the value is      *)
(* dropped.                                                                *)
Said(media, value) == {i \in DOMAIN Forms[media] : Forms[media][i][1] \in value.says}

Part(media, value) ==
    LET variant == Forms[media][Min(Said(media, value))][2]
    IN  [media |-> media,
         source |-> Source(variant, value.content, Stated(media, variant, value.says))]

Read(media, value) == IF Said(media, value) = {} THEN <<>> ELSE <<Part(media, value)>>

ReadAll(media, values) == FlattenSeq([i \in DOMAIN values |-> Read(media, values[i])])

(* build_user_message: after the text the images, the recordings, the      *)
(* files, each in the order of its argument.                               *)
UserParts(args) ==
    ReadAll("image", args.image) \o ReadAll("audio", args.audio) \o ReadAll("file", args.file)

(* sniff_mime and sniff_audio_mime, for a content of some type.            *)
SniffMime(type) == IF type \in {"image", "document", "audio"} THEN type ELSE ""
SniffAudioMime(type) == IF type = "audio" THEN type ELSE ""

=============================================================================
