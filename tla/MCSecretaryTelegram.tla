---------------------- MODULE MCSecretaryTelegram ----------------------
(* Both transports, voice notes on and off, and every kind of message.    *)
EXTENDS SecretaryTelegram

MCModes == {"polling", "webhook"}
MCMessages == Kinds \ {"voiceTimer"}
========================================================================
