-------------------------- MODULE MCCameraHardware --------------------------
(***************************************************************************)
(* The calls and message types of the runs: previews that record and       *)
(* focus, pictures, and the two sequences that do not end.                 *)
(***************************************************************************)
EXTENDS CameraHardware

MCPreviewCalls == {"startPreview", "stopPreview", "startRecording", "stopRecording",
                   "autoFocus", "cancelAutoFocus", "enableMsgType", "disableMsgType",
                   "release"}
MCPreviewMasks == {{"PREVIEW_FRAME"}, {"FOCUS"}}
MCPictureCalls == {"startPreview", "stopPreview", "takePicture", "disableMsgType",
                   "enableMsgType", "release"}
MCPictureMasks == {{"SHUTTER"}, {"SHUTTER", "RAW_IMAGE", "COMPRESSED_IMAGE"}}
MCSnapshotCalls == {"startPreview", "takePicture"}
MCCallbackCalls == {"startPreview", "stopPreview"}
MCOnlyPreview == {{"PREVIEW_FRAME"}}
MCWholePicture == {{"SHUTTER", "RAW_IMAGE", "COMPRESSED_IMAGE"}}
=============================================================================
